------------------------ MODULE LanguageServerProofs ------------------------
(***************************************************************************)
(* Theorems about LanguageServer, for any documents, requests, bounds and  *)
(* inbox size: the inductive invariant, and what follows from it about     *)
(* requests, published diagnostics and the analysis that is owed.  There   *)
(* is one lemma for each part of the invariant and each handler or group   *)
(* of steps.                                                               *)
(***************************************************************************)
EXTENDS LanguageServerInvariant, FiniteSetTheorems, SequenceTheorems, WellFoundedInduction, TLAPS

-----------------------------------------------------------------------------
(* Sequences and sets.                                                     *)

\* What is left of a sequence when its head is taken.
LEMMA Taken ==
  ASSUME NEW S, NEW q \in Seq(S), q # <<>>
  PROVE  /\ Head(q) = q[1] /\ Head(q) \in S /\ 1 \in DOMAIN q
         /\ Tail(q) \in Seq(S) /\ Len(Tail(q)) = Len(q) - 1
         /\ DOMAIN q = 1..Len(q) /\ Len(q) \in Nat /\ DOMAIN Tail(q) = 1..(Len(q) - 1)
         /\ \A i \in DOMAIN Tail(q) : Tail(q)[i] = q[i + 1] /\ i + 1 \in DOMAIN q /\ i + 1 # 1
  OBVIOUS

\* A sequence with an element appended.
LEMMA Added ==
  ASSUME NEW S, NEW q \in Seq(S), NEW e \in S
  PROVE  /\ Append(q, e) \in Seq(S) /\ Len(Append(q, e)) = Len(q) + 1
         /\ DOMAIN q = 1..Len(q) /\ Len(q) \in Nat /\ DOMAIN Append(q, e) = 1..(Len(q) + 1)
         /\ \A i \in DOMAIN q : Append(q, e)[i] = q[i] /\ i # Len(q) + 1
         /\ Append(q, e)[Len(q) + 1] = e
  OBVIOUS

\* A nonempty set of naturals has a least one.
LEMMA LeastNatural ==
  ASSUME NEW T \in SUBSET Nat, T # {}
  PROVE  \E n \in T : \A m \in T : n <= m
<1>1. PICK n \in T : \A m \in T : ~(<<m, n>> \in OpToRel(<, Nat))
  BY NatLessThanWellFounded, WFMin
<1>2. \A m \in T : ~(m < n)
  BY <1>1 DEF OpToRel
<1>3. QED
  BY <1>2

\* start_next finds a job: a nonempty queue has an oldest one.
LEMMA OldestIn ==
  ASSUME NEW S, S # {}, \A e \in S : e.serial \in Nat
  PROVE  Oldest(S) \in S
<1>1. Serials(S) \in SUBSET Nat /\ Serials(S) # {}
  BY DEF Serials
<1>2. PICK n \in Serials(S) : \A m \in Serials(S) : n <= m
  BY <1>1, LeastNatural
<1>3. PICK e \in S : e.serial = n
  BY <1>2 DEF Serials
<1>4. \A f \in S : e.serial <= f.serial
  BY <1>2, <1>3 DEF Serials
<1>5. QED
  BY <1>3, <1>4 DEF Oldest

\* Taking the first position away shifts a set of positions and counts one less if it was there.
LEMMA Counted ==
  ASSUME NEW n \in Nat, n > 0, NEW D \in SUBSET (1..n)
  PROVE  /\ IsFiniteSet(D) /\ IsFiniteSet({i \in 1..(n - 1) : i + 1 \in D})
         /\ Cardinality({i \in 1..(n - 1) : i + 1 \in D}) =
                Cardinality(D) - (IF 1 \in D THEN 1 ELSE 0)
<1> DEFINE E == {i \in 1..(n - 1) : i + 1 \in D}
           f == [i \in E |-> i + 1]
<1>1. IsFiniteSet(D) /\ IsFiniteSet(E)
  BY FS_Interval, FS_Subset, 1 \in Int, n \in Int, n - 1 \in Int
<1>2. f \in Bijection(E, D \ {1})
  <2>1. \A i \in E : i \in Nat /\ i + 1 \in D \ {1}
    OBVIOUS
  <2>2. \A d \in D \ {1} : d - 1 \in E /\ (d - 1) + 1 = d
    OBVIOUS
  <2>3. f \in [E -> D \ {1}] /\ \A i \in E : f[i] = i + 1
    BY <2>1
  <2>4. \A d \in D \ {1} : \E i \in E : f[i] = d
    BY <2>2, <2>3
  <2>5. \A i, j \in E : f[i] = f[j] => i = j
    BY <2>1, <2>3
  <2> HIDE DEF f, E
  <2>6. QED
    BY <2>3, <2>4, <2>5 DEF Bijection, Injection, Surjection, IsInjective
<1>3. Cardinality(E) = Cardinality(D \ {1})
  BY <1>1, <1>2, FS_Bijection, FS_RemoveElement DEF ExistsBijection
<1>4. QED
  BY <1>1, <1>3, FS_RemoveElement, FS_CardinalityType

\* SetToSeq lists every element of a finite set.
LEMMA Enumerated ==
  ASSUME NEW S, IsFiniteSet(S)
  PROVE  /\ Cardinality(S) \in Nat /\ SetToSeq(S) \in Seq(S)
         /\ Len(SetToSeq(S)) = Cardinality(S)
         /\ \A e \in S : \E i \in 1..Len(SetToSeq(S)) : SetToSeq(S)[i] = e
<1>1. Cardinality(S) \in Nat
  BY FS_CardinalityType
<1>2. PICK f : f \in Bijection(1..Cardinality(S), S)
  BY FS_CardinalityType DEF ExistsBijection
<1>3. f \in [1..Cardinality(S) -> S] /\ IsInjective(f)
  BY <1>2 DEF Bijection, Injection, IsInjective
<1> DEFINE s == SetToSeq(S)
<1>4. s \in [1..Cardinality(S) -> S] /\ IsInjective(s)
  BY <1>3 DEF SetToSeq
<1>5. s \in Injection(1..Cardinality(S), S)
  BY <1>4 DEF Injection, IsInjective
<1>6. IsFiniteSet(1..Cardinality(S)) /\ Cardinality(1..Cardinality(S)) = Cardinality(S)
  BY <1>1, FS_Interval
<1>7. s \in Surjection(1..Cardinality(S), S)
  BY <1>5, <1>6, FS_Injection
<1>8. s \in Seq(S) /\ Len(s) = Cardinality(S)
  BY <1>1, <1>4
<1>9. QED
  BY <1>1, <1>7, <1>8 DEF Surjection

\* In the order of the serials.
Sorted(s) == \A i, j \in DOMAIN s : i < j => s[i].serial < s[j].serial

\* A sequence that lists a set in that order.
Orders(s, S) ==
    /\ s \in [1..Cardinality(S) -> S] /\ Sorted(s)
    /\ \A e \in S : \E i \in 1..Cardinality(S) : s[i] = e

\* An element of least serial in front of the others in order puts the set in order.
LEMMA Prepended ==
  ASSUME NEW S, IsFiniteSet(S), NEW e \in S, \A d \in S : d.serial \in Nat,
         \A d \in S \ {e} : e.serial < d.serial, NEW s, Orders(s, S \ {e})
  PROVE  \E t : Orders(t, S)
<1> DEFINE n == Cardinality(S)
           t == [i \in 1..n |-> IF i = 1 THEN e ELSE s[i - 1]]
<1>1. n \in Nat /\ Cardinality(S \ {e}) = n - 1 /\ n >= 1
  BY FS_CardinalityType, FS_RemoveElement, FS_EmptySet
<1>2. s \in [1..(n - 1) -> S \ {e}] /\ Sorted(s)
      /\ \A d \in S \ {e} : \E i \in 1..(n - 1) : s[i] = d
  BY <1>1 DEF Orders
<1> HIDE DEF n
<1>3. \A i \in 1..n : i # 1 => i - 1 \in 1..(n - 1) /\ s[i - 1] \in S \ {e}
  BY <1>1, <1>2
<1>4. t \in [1..n -> S]
  BY <1>3
<1>5. \A i \in 1..n : t[i] = IF i = 1 THEN e ELSE s[i - 1]
  OBVIOUS
<1>6. Sorted(t)
  <2>1. SUFFICES ASSUME NEW i \in 1..n, NEW j \in 1..n, i < j PROVE t[i].serial < t[j].serial
    BY <1>4 DEF Sorted
  <2>2. j # 1 /\ t[j] = s[j - 1] /\ j - 1 \in 1..(n - 1)
    BY <1>3, <1>5, <2>1, <1>1
  <2>3. CASE i = 1
    BY <1>2, <1>3, <1>5, <2>2, <2>3
  <2>4. CASE i # 1
    <3>1. t[i] = s[i - 1] /\ i - 1 \in 1..(n - 1) /\ i - 1 < j - 1
      BY <1>1, <1>3, <1>5, <2>1, <2>4
    <3>2. QED
      BY <1>2, <2>2, <3>1 DEF Sorted
  <2>5. QED
    BY <2>3, <2>4
<1>7. \A d \in S : \E i \in 1..n : t[i] = d
  <2>1. TAKE d \in S
  <2>2. CASE d = e
    BY <1>1, <1>5, <2>2
  <2>3. CASE d # e
    <3>1. PICK i \in 1..(n - 1) : s[i] = d
      BY <1>2, <2>3
    <3>2. i + 1 \in 1..n /\ t[i + 1] = d
      BY <1>1, <1>5, <3>1
    <3>3. QED
      BY <3>2
  <2>4. QED
    BY <2>2, <2>3
<1> HIDE DEF t
<1>8. Orders(t, S)
  BY <1>4, <1>6, <1>7 DEF Orders, n
<1>9. QED
  BY <1>8

\* Every finite set with different serials can be put in the order of its serials.
LEMMA Ordered ==
  ASSUME NEW S, IsFiniteSet(S), \A d \in S : d.serial \in Nat,
         \A c, d \in S : c.serial = d.serial => c = d
  PROVE  \E s : Orders(s, S)
<1> DEFINE Bad == {T \in FiniteSubsetsOf(S) : ~\E s : Orders(s, T)}
<1>1. SUFFICES ASSUME ~\E s : Orders(s, S) PROVE FALSE
  OBVIOUS
<1>2. S \in Bad
  BY <1>1 DEF FiniteSubsetsOf
<1>3. PICK T \in Bad : \A U \in Bad : ~(<<U, T>> \in StrictSubsetOrdering(S))
  BY <1>2, WFMin, FS_StrictSubsetOrderingWellFounded
<1>4. T \in SUBSET S /\ IsFiniteSet(T) /\ ~\E s : Orders(s, T)
  BY <1>3 DEF FiniteSubsetsOf
<1>5. CASE T = {}
  <2>1. Cardinality(T) = 0
    BY <1>5, FS_EmptySet
  <2>2. Orders(<<>>, T)
    BY <1>5, <2>1 DEF Orders, Sorted
  <2>3. QED
    BY <1>4, <2>2
<1>6. CASE T # {}
  <2>1. Serials(T) \in SUBSET Nat /\ Serials(T) # {}
    BY <1>4, <1>6 DEF Serials
  <2>2. PICK n \in Serials(T) : \A m \in Serials(T) : n <= m
    BY <2>1, LeastNatural
  <2>3. PICK e \in T : e.serial = n
    BY <2>2 DEF Serials
  <2>4. \A d \in T \ {e} : e.serial < d.serial
    <3>1. TAKE d \in T \ {e}
    <3>2. e.serial <= d.serial /\ e.serial # d.serial /\ e.serial \in Nat /\ d.serial \in Nat
      BY <1>4, <2>2, <2>3 DEF Serials
    <3>3. QED
      BY <3>2
  <2>5. T \ {e} \in FiniteSubsetsOf(S) /\ <<T \ {e}, T>> \in StrictSubsetOrdering(S)
    BY <1>3, <1>4, <2>3, FS_RemoveElement DEF FiniteSubsetsOf, StrictSubsetOrdering
  <2>6. PICK s : Orders(s, T \ {e})
    BY <1>3, <2>5
  <2>7. \E t : Orders(t, T)
    BY <1>4, <2>3, <2>4, <2>6, Prepended
  <2>8. QED
    BY <1>4, <2>7
<1>7. QED
  BY <1>5, <1>6

\* InOrder lists the elements of such a set, each once.
LEMMA InOrderOf ==
  ASSUME NEW S, IsFiniteSet(S), \A d \in S : d.serial \in Nat,
         \A c, d \in S : c.serial = d.serial => c = d
  PROVE  /\ Cardinality(S) \in Nat /\ InOrder(S) \in [1..Cardinality(S) -> S]
         /\ \A e \in S : \E i \in 1..Cardinality(S) : InOrder(S)[i] = e
         /\ \A i, j \in 1..Cardinality(S) : InOrder(S)[i] = InOrder(S)[j] => i = j
<1> DEFINE n == Cardinality(S)
           s == InOrder(S)
<1>1. n \in Nat /\ IsFiniteSet(1..n) /\ Cardinality(1..n) = n
  BY FS_CardinalityType, FS_Interval
<1>2. PICK t : Orders(t, S)
  BY Ordered
<1>3. s \in [1..n -> S] /\ Sorted(s)
  BY <1>2 DEF InOrder, Orders, Sorted
<1> HIDE DEF n, s
<1>4. \A i, j \in 1..n : s[i] = s[j] => i = j
  <2>1. SUFFICES ASSUME NEW i \in 1..n, NEW j \in 1..n, s[i] = s[j], i < j PROVE FALSE
    BY <1>1
  <2>2. s[i].serial < s[j].serial /\ s[i] \in S
    BY <1>3, <2>1 DEF Sorted
  <2>3. QED
    BY <2>1, <2>2
<1>5. s \in Injection(1..n, S)
  BY <1>3, <1>4 DEF Injection, IsInjective
<1>6. s \in Surjection(1..n, S)
  BY <1>1, <1>5, FS_Injection DEF n
<1>7. QED
  BY <1>1, <1>3, <1>4, <1>6 DEF n, s, Surjection

-----------------------------------------------------------------------------
(* Shapes and types: one lemma per handler.                                *)

\* What ServerAssumption gives.
LEMMA Constants ==
  /\ IsFiniteSet(Uris) /\ IsFiniteSet(Ids) /\ Ids \subseteq Nat \ {0} /\ {} \in Diagnostics
  /\ MaxVersion \in Nat /\ MaxEdits \in Nat /\ NoId \notin Ids /\ NoId = 0 /\ NoId \in Nat
  /\ Methods \subseteq Asking /\ Endings \subseteq {"exit", "eof", "failure", "garbage"}
  BY ServerAssumption, FS_CardinalityType DEF NoId, Asking

\* The fields of an event, by its type.
LEMMA EventShape ==
  ASSUME NEW e \in EventType
  PROVE  /\ e.type \in Asking \cup {"cancel"} => e.id \in Ids
         /\ e.type = "open" => e.uri \in Uris /\ e.version \in 1..MaxVersion
         /\ e.type \in {"change", "close"} => e.uri \in Uris /\ e.version \in 0..MaxVersion
         /\ e.type = "prepared" => /\ e.serial \in Nat /\ e.id \in Ids /\ e.generation \in Nat
                                   /\ e.basis \in DocsType
                                   /\ e.outcome \in {"ok", "failed", "cancelled"}
         /\ e.type = "analysis" => /\ e.serial \in Nat /\ e.generation \in Nat
                                   /\ e.none \in BOOLEAN /\ e.documents \in AnalysisType
  BY DEF EventType, Asking

\* What taking an event does to the event channel.
LEMMA Received ==
  ASSUME InboxOK, NEW t, Receive(t)
  PROVE  /\ pc = "receive" /\ inbox # <<>> /\ Event \in EventType /\ Event.type = t
         /\ Event = inbox[1] /\ inbox' = Tail(inbox) /\ 1 \in DOMAIN inbox
         /\ inbox' \in Seq(EventType) /\ Len(inbox) \in Nat /\ Len(inbox) >= 1
         /\ DOMAIN inbox = 1..Len(inbox) /\ DOMAIN inbox' = 1..(Len(inbox) - 1)
         /\ \A i \in DOMAIN inbox' : inbox'[i] = inbox[i + 1] /\ i + 1 \in DOMAIN inbox
            /\ i + 1 # 1
         /\ \A i \in DOMAIN inbox : i # 1 => i - 1 \in DOMAIN inbox' /\ inbox'[i - 1] = inbox[i]
<1>1. pc = "receive" /\ inbox # <<>> /\ Event = Head(inbox) /\ Event.type = t
      /\ inbox' = Tail(inbox)
  BY DEF Receive, Event
<1>2. inbox \in Seq(EventType)
  BY DEF InboxOK
<1>3. /\ Event = inbox[1] /\ Event \in EventType /\ 1 \in DOMAIN inbox
      /\ inbox' \in Seq(EventType) /\ Len(inbox) \in Nat
      /\ DOMAIN inbox = 1..Len(inbox) /\ DOMAIN inbox' = 1..(Len(inbox) - 1)
      /\ \A i \in DOMAIN inbox' : inbox'[i] = inbox[i + 1] /\ i + 1 \in DOMAIN inbox /\ i + 1 # 1
  BY <1>1, <1>2, Taken
<1>4. QED
  BY <1>1, <1>3

\* A reply is a message without a result.
LEMMA ReplyIn ==
  ASSUME NEW id \in Ids \cup {NoId}, NEW kind \in Kinds
  PROVE  /\ Reply(id, kind) \in MessageType /\ NoDocuments \in DocsType
         /\ Reply(id, kind).type = "response" /\ Reply(id, kind).id = id
         /\ Reply(id, kind).kind = kind /\ Reply(id, kind).basis = NoDocuments
<1>1. NoDocuments \in DocsType
  BY DEF NoDocuments, DocsType, DocumentType
<1>2. QED
  BY <1>1 DEF Reply, Response, MessageType

\* A request is taken up, and no other one moves.
LEMMA TakenUp ==
  ASSUME ClientOK, WorkspaceOK, NEW id \in Ids, TakeUp(id)
  PROVE  /\ asked' \in [Ids -> [state : {"no", "open", "revoked"}, edits : Nat]]
         /\ asked'[id].state = "open" /\ asked'[id].edits = generation
         /\ \A k \in Ids : k # id => asked'[k] = asked[k]
  BY DEF ClientOK, WorkspaceOK, TakeUp

\* The output of a handler that answers with one message.
LEMMA SingleMessage ==
  ASSUME NEW S, NEW m \in S
  PROVE  <<m>> \in Seq(S) /\ Len(<<m>>) = 1 /\ DOMAIN <<m>> = {1} /\ <<m>>[1] = m /\ <<m>> # <<>>
  OBVIOUS

\* Requests answered at once.
AnswersNow(id, kind) ==
    /\ TakeUp(id) /\ Act(<<Reply(id, kind)>>, "start")
    /\ lifecycle' = IF kind = "initialized" THEN "running" ELSE lifecycle
    /\ kind = "initialized" => lifecycle = "waiting"
    /\ UNCHANGED <<workspace, queue, worker, editor, client, analysed>>

\* Some request is answered at once.
Quick ==
    \E t \in Asking, kind \in {"initialized", "refused"} :
        Receive(t) /\ AnswersNow(Event.id, kind)

\* The handlers that answer at once.
LEMMA QuickSteps ==
  ASSUME InboxOK, Initialize \/ Refuse \/ RefuseRequest \/ (Shutdown /\ lifecycle # "running")
  PROVE  Quick
<1>1. CASE Refuse
  BY <1>1 DEF Refuse, Quick, AnswersNow, Asking
<1>2. CASE RefuseRequest
  BY <1>2 DEF RefuseRequest, Quick, AnswersNow, Asking
<1>3. CASE Shutdown /\ lifecycle # "running"
  BY <1>3 DEF Shutdown, Quick, AnswersNow, Asking, queue
<1>4. CASE Initialize
  <2>1. CASE lifecycle = "waiting" /\ lifecycle' = "running"
             /\ Act(<<Reply(Event.id, "initialized")>>, "start")
    <3>1. Receive("initialize") /\ AnswersNow(Event.id, "initialized")
      BY <1>4, <2>1 DEF Initialize, AnswersNow
    <3>2. QED
      BY <3>1 DEF Quick, Asking
  <2>2. CASE UNCHANGED lifecycle /\ Act(<<Reply(Event.id, "refused")>>, "start")
    <3>1. Receive("initialize") /\ AnswersNow(Event.id, "refused")
      BY <1>4, <2>2 DEF Initialize, AnswersNow
    <3>2. QED
      BY <3>1 DEF Quick, Asking
  <2>3. QED
    BY <1>4, <2>1, <2>2 DEF Initialize
<1>5. QED
  BY <1>1, <1>2, <1>3, <1>4

\* Types: a request answered at once.
LEMMA TypedQuick ==
  ASSUME Typed, Quick
  PROVE  Typed'
<1> USE DEF Typed
<1>1. PICK t \in Asking, kind \in {"initialized", "refused"} : Receive(t)
      /\ AnswersNow(Event.id, kind)
  BY DEF Quick
<1>2. InboxOK' /\ Event.id \in Ids /\ pc = "receive"
  <2>1. InboxOK' /\ Event \in EventType /\ Event.type = t /\ pc = "receive"
    BY <1>1, Received DEF InboxOK
  <2>2. Event.type \in Asking
    BY <2>1
  <2>3. QED
    BY <2>1, <2>2, EventShape
<1>3. WorkspaceOK' /\ QueueOK' /\ WorkerOK' /\ EditorOK' /\ HistoryOK'
  BY <1>1 DEF AnswersNow, workspace, queue, worker, WorkspaceOK, IsOpen, QueueOK, WorkerOK,
     EditorOK, HistoryOK
<1>4. ClientOK'
  <2>1. UNCHANGED client /\ TakeUp(Event.id)
    BY <1>1 DEF AnswersNow
  <2>2. QED
    BY <1>2, <2>1, TakenUp DEF ClientOK, client
<1>5. OutboxOK'
  <2>1. outbox' = <<Reply(Event.id, kind)>>
    BY <1>1 DEF AnswersNow, Act
  <2>2. Reply(Event.id, kind) \in MessageType
    BY <1>1, <1>2, ReplyIn DEF Kinds
  <2>3. QED
    BY <2>1, <2>2, SingleMessage DEF OutboxOK
<1>6. ControlOK'
  BY <1>1, <1>2 DEF AnswersNow, Act, ControlOK
<1>7. QED
  BY <1>2, <1>3, <1>4, <1>5, <1>6

\* Types: a request is queued.
LEMMA TypedQueueRequest ==
  ASSUME Typed, QueueRequest
  PROVE  Typed'
<1> USE DEF Typed
<1>1. Receive("request") /\ TakeUp(Event.id) /\ Act(<<>>, "start")
  BY DEF QueueRequest
<1>2. InboxOK' /\ Event.id \in Ids /\ pc = "receive"
  BY <1>1, Received, EventShape DEF InboxOK, Asking
<1>3. WorkspaceOK' /\ WorkerOK' /\ EditorOK' /\ HistoryOK'
  BY DEF QueueRequest, workspace, worker, WorkspaceOK, IsOpen, WorkerOK, EditorOK, HistoryOK
<1>4. ClientOK'
  BY <1>1, <1>2, TakenUp DEF ClientOK, client, QueueRequest
<1>5. OutboxOK' /\ ControlOK'
  BY <1>1, <1>2 DEF Act, ControlOK, OutboxOK, QueueRequest
<1>6. QueueOK'
  <2>1. Job(next_serial, Event.id, documents, generation) \in JobType
    BY <1>2 DEF Job, JobType, QueueOK, WorkspaceOK
  <2>2. Control(next_serial, Event.id) \in [serial : Nat, id : Ids \cup {NoId}]
    BY <1>2 DEF Control, QueueOK
  <2>3. IsFiniteSet(controls \cup {Control(next_serial, Event.id)})
    BY FS_AddElement DEF QueueOK
  <2>4. QED
    BY <2>1, <2>2, <2>3 DEF QueueRequest, QueueOK
<1>7. QED
  BY <1>2, <1>3, <1>4, <1>5, <1>6

\* The controls of requests.
Requested == {c \in controls : c.id # NoId}

\* cancel_pending_requests answers every tracked request once.
LEMMA CancelsOf ==
  ASSUME Typed, QueueInv
  PROVE  /\ CancelPendingRequests \in Seq(MessageType) /\ Cardinality(Requested) \in Nat
         /\ Len(CancelPendingRequests) = Cardinality(Requested)
         /\ InOrder(Requested) \in [1..Cardinality(Requested) -> Requested]
         /\ \A i \in 1..Cardinality(Requested) :
                CancelPendingRequests[i] = Reply(InOrder(Requested)[i].id, "cancelled")
         /\ \A c \in Requested : \E i \in 1..Cardinality(Requested) : InOrder(Requested)[i] = c
         /\ \A i, j \in 1..Cardinality(Requested) :
                InOrder(Requested)[i] = InOrder(Requested)[j] => i = j
<1>1. /\ IsFiniteSet(Requested) /\ \A d \in Requested : d.serial \in Nat /\ d.id \in Ids
      /\ \A c, d \in Requested : c.serial = d.serial => c = d
  BY FS_Subset DEF Requested, Typed, QueueOK, QueueInv
<1>2. /\ Cardinality(Requested) \in Nat
         /\ InOrder(Requested) \in [1..Cardinality(Requested) -> Requested]
      /\ \A c \in Requested : \E i \in 1..Cardinality(Requested) : InOrder(Requested)[i] = c
      /\ \A i, j \in 1..Cardinality(Requested) :
                InOrder(Requested)[i] = InOrder(Requested)[j] => i = j
  BY <1>1, InOrderOf
<1> DEFINE n == Cardinality(Requested)
           s == InOrder(Requested)
<1>3. CancelPendingRequests = [i \in DOMAIN s |-> Reply(s[i].id, "cancelled")]
  BY DEF CancelPendingRequests, Requested
<1> HIDE DEF n, s
<1>4. \A i \in 1..n : Reply(s[i].id, "cancelled") \in MessageType
  BY <1>1, <1>2, ReplyIn DEF Kinds, n, s
<1>5. DOMAIN s = 1..n /\ n \in Nat
  BY <1>2 DEF n, s
<1>6. CancelPendingRequests \in [1..n -> MessageType]
  BY <1>3, <1>4, <1>5
<1>7. CancelPendingRequests \in Seq(MessageType) /\ Len(CancelPendingRequests) = n
  BY <1>5, <1>6
<1>8. \A i \in 1..n : CancelPendingRequests[i] = Reply(s[i].id, "cancelled")
  BY <1>3, <1>5
<1>9. QED
  BY <1>2, <1>7, <1>8 DEF n, s

\* Types: a running server shuts down.
LEMMA TypedShutdown ==
  ASSUME Typed, QueueInv, Shutdown, lifecycle = "running"
  PROVE  Typed'
<1> USE DEF Typed
<1>1. /\ Receive("shutdown") /\ TakeUp(Event.id) /\ lifecycle' = "shutdown"
      /\ Act(Append(CancelPendingRequests, Reply(Event.id, "shutdown")), "start")
  BY DEF Shutdown
<1>2. InboxOK' /\ Event.id \in Ids /\ pc = "receive"
  BY <1>1, Received, EventShape DEF InboxOK, Asking
<1>3. WorkspaceOK' /\ WorkerOK' /\ EditorOK' /\ HistoryOK'
  BY DEF Shutdown, workspace, worker, WorkspaceOK, IsOpen, WorkerOK, EditorOK, HistoryOK
<1>4. ClientOK'
  BY <1>1, <1>2, TakenUp DEF ClientOK, client, Shutdown
<1>5. ControlOK'
  BY <1>1, <1>2 DEF Act, ControlOK
<1>6. OutboxOK'
  <2>1. Reply(Event.id, "shutdown") \in MessageType
    BY <1>2, ReplyIn DEF Kinds
  <2>2. QED
    BY <1>1, <2>1, CancelsOf, Added DEF OutboxOK, Act
<1>7. QueueOK'
  <2>1. /\ controls' = {} /\ pending' = {} /\ UNCHANGED <<next_serial, invalidated>>
        /\ cancelled' = cancelled \cup Serials(controls)
    BY DEF Shutdown
  <2>2. cancelled' \in SUBSET Nat
    BY <2>1 DEF QueueOK, Serials
  <2>3. QED
    BY <2>1, <2>2, FS_EmptySet DEF QueueOK
<1>8. QED
  BY <1>2, <1>3, <1>4, <1>5, <1>6, <1>7

\* Types: $/cancelRequest.
LEMMA TypedCancelRequest ==
  ASSUME Typed, CancelRequest
  PROVE  Typed'
<1> USE DEF Typed
<1>1. Receive("cancel") /\ Act(<<>>, "start")
  BY DEF CancelRequest
<1>2. InboxOK' /\ Event.id \in Ids /\ pc = "receive"
  BY <1>1, Received, EventShape DEF InboxOK
<1>3. WorkspaceOK' /\ WorkerOK' /\ EditorOK' /\ HistoryOK'
  BY DEF CancelRequest, workspace, worker, WorkspaceOK, IsOpen, WorkerOK, EditorOK, HistoryOK
<1>4. ClientOK'
  BY <1>2 DEF ClientOK, client, CancelRequest
<1>5. OutboxOK' /\ ControlOK'
  BY <1>1, <1>2 DEF Act, ControlOK, OutboxOK, CancelRequest
<1>6. QueueOK'
  BY DEF CancelRequest, QueueOK, Serials
<1>7. QED
  BY <1>2, <1>3, <1>4, <1>5, <1>6

\* A document notification is taken.
Edit == DidOpen \/ DidChange \/ DidClose

\* One document is opened, changed or closed.
Replaces(docs) ==
    \E u \in Uris, d \in DocumentType :
        /\ docs = [documents EXCEPT ![u] = d] /\ d # documents[u]
        /\ d # Closed => d.generation = generation + 1

\* What a document notification does: nothing, or it replaces one document and moves the
\* generation on.
LEMMA EditEffect ==
  ASSUME WorkspaceOK, InboxOK, Edit
  PROVE  /\ \E t \in Editing : Receive(t)
         /\ Act(<<>>, "start") /\ UNCHANGED <<lifecycle, worker, editor, asked, client, analysed>>
         /\ \/ UNCHANGED <<workspace, queue>>
            \/ lifecycle = "running" /\ \E docs : Replaces(docs) /\ WorkspaceChanged(docs)
<1> USE DEF WorkspaceOK
<1>1. CASE DidOpen
  <2>1. /\ Receive("open") /\ Act(<<>>, "start")
        /\ UNCHANGED <<lifecycle, worker, editor, asked, client, analysed>>
    BY <1>1 DEF DidOpen
  <2>2. Event.uri \in Uris /\ Event.version \in 1..MaxVersion
    BY <2>1, Received, EventShape
  <2>3. PICK path \in Identity[Event.uri] :
           \/ IgnoreEdit
           \/ /\ lifecycle = "running" /\ ~IsOpen(Event.uri)
              /\ WorkspaceChanged([documents EXCEPT ![Event.uri] =
                    [version |-> Event.version, path |-> path, generation |-> generation + 1]])
    BY <1>1 DEF DidOpen
  <2>4. CASE IgnoreEdit
    BY <2>1, <2>4 DEF IgnoreEdit, Editing
  <2>5. CASE /\ lifecycle = "running" /\ ~IsOpen(Event.uri)
             /\ WorkspaceChanged([documents EXCEPT ![Event.uri] =
                    [version |-> Event.version, path |-> path, generation |-> generation + 1]])
    <3> DEFINE d == [version |-> Event.version, path |-> path, generation |-> generation + 1]
    <3>1. path \in Paths
      BY <2>2 DEF Paths
    <3>2. d \in DocumentType /\ d # Closed /\ d.generation = generation + 1
      BY <2>2, <3>1, Constants DEF DocumentType, Closed
    <3>3. d # documents[Event.uri]
      BY <2>5, <3>2 DEF IsOpen
    <3> HIDE DEF d
    <3>4. Replaces([documents EXCEPT ![Event.uri] = d])
      BY <2>2, <3>2, <3>3 DEF Replaces
    <3>5. QED
      BY <2>1, <2>5, <3>4 DEF Editing, d
  <2>6. QED
    BY <2>3, <2>4, <2>5
<1>2. CASE DidChange
  <2>1. /\ Receive("change") /\ Act(<<>>, "start")
        /\ UNCHANGED <<lifecycle, worker, editor, asked, client, analysed>>
    BY <1>2 DEF DidChange
  <2>2. Event.uri \in Uris /\ Event.version \in 0..MaxVersion
    BY <2>1, Received, EventShape
  <2> DEFINE d == [documents[Event.uri] EXCEPT !.version = Event.version,
                !.generation = generation + 1]
  <2>3. CASE IgnoreEdit
    BY <2>1, <2>3 DEF IgnoreEdit, Editing
  <2>4. CASE /\ lifecycle = "running" /\ IsOpen(Event.uri)
             /\ Event.version > documents[Event.uri].version
             /\ WorkspaceChanged([documents EXCEPT ![Event.uri] = d])
    <3>1. documents[Event.uri] \in [version : 1..MaxVersion, path : Paths, generation : Nat]
      BY <2>2, <2>4 DEF IsOpen, DocsType, DocumentType
    <3>2. /\ d \in [version : 1..MaxVersion, path : Paths, generation : Nat]
          /\ d.generation = generation + 1 /\ d.version = Event.version
      <4>1. Event.version \in 1..MaxVersion /\ generation + 1 \in Nat
        BY <2>2, <2>4, <3>1, Constants
      <4>2. QED
        BY <3>1, <4>1
    <3> HIDE DEF d
    <3>3. d \in DocumentType /\ d # documents[Event.uri]
      BY <2>2, <2>4, <3>1, <3>2, Constants DEF DocumentType
    <3>4. Replaces([documents EXCEPT ![Event.uri] = d])
      BY <2>2, <3>2, <3>3 DEF Replaces
    <3>5. QED
      BY <2>1, <2>4, <3>4 DEF Editing
  <2>5. QED
    BY <1>2, <2>3, <2>4 DEF DidChange
<1>3. CASE DidClose
  <2>1. /\ Receive("close") /\ Act(<<>>, "start")
        /\ UNCHANGED <<lifecycle, worker, editor, asked, client, analysed>>
    BY <1>3 DEF DidClose
  <2>2. Event.uri \in Uris
    BY <2>1, Received, EventShape
  <2>3. CASE IgnoreEdit
    BY <2>1, <2>3 DEF IgnoreEdit, Editing
  <2>4. CASE /\ lifecycle = "running" /\ IsOpen(Event.uri)
             /\ WorkspaceChanged([documents EXCEPT ![Event.uri] = Closed])
    <3>1. Replaces([documents EXCEPT ![Event.uri] = Closed])
      BY <2>2, <2>4 DEF Replaces, DocumentType, IsOpen
    <3>2. QED
      BY <2>1, <2>4, <3>1 DEF Editing
  <2>5. QED
    BY <1>3, <2>3, <2>4 DEF DidClose
<1>4. QED
  BY <1>1, <1>2, <1>3 DEF Edit

\* What an edit keeps of the controls and the queue, and what it adds.
Kept == {c \in controls : c.serial \notin Serials({job \in pending : IsDiagnostics(job)})}
Stay == {job \in pending : ~IsDiagnostics(job)}
NewJob == Job(next_serial, NoId, documents', generation + 1)
NewControl == Control(next_serial, NoId)

\* What a changed workspace does to the queue: every tracked job is invalidated, the queued
\* diagnostics job is replaced by a new one.
LEMMA ChangeEffect ==
  ASSUME NEW docs, WorkspaceChanged(docs)
  PROVE  /\ documents' = docs /\ generation' = generation + 1
         /\ invalidated' = invalidated \cup Serials(controls)
         /\ controls' = Kept \cup {NewControl} /\ pending' = Stay \cup {NewJob}
         /\ next_serial' = next_serial + 1 /\ UNCHANGED <<published, cancelled>>
<1>1. pending \ {job \in pending : IsDiagnostics(job)} = Stay
  BY DEF Stay
<1>2. QED
  BY <1>1 DEF WorkspaceChanged, Kept, NewJob, NewControl

\* The replaced document keeps the types of the workspace.
LEMMA ReplacedIn ==
  ASSUME WorkspaceOK, NEW docs, Replaces(docs)
  PROVE  /\ docs \in DocsType
         /\ \A u \in Uris : docs[u] # Closed => docs[u].generation \in 1..(generation + 1)
<1>1. PICK u \in Uris, d \in DocumentType :
        /\ docs = [documents EXCEPT ![u] = d] /\ (d # Closed => d.generation = generation + 1)
  BY DEF Replaces
<1>2. QED
  BY <1>1 DEF WorkspaceOK, DocsType, IsOpen

\* Types: a document notification.
LEMMA TypedEdit ==
  ASSUME Typed, Edit
  PROVE  Typed'
<1> USE DEF Typed
<1>1. PICK t \in Editing : Receive(t)
  BY EditEffect
<1>2. Act(<<>>, "start") /\ UNCHANGED <<lifecycle, worker, editor, asked, client, analysed>>
  BY EditEffect
<1>3. InboxOK' /\ pc = "receive"
  BY <1>1, Received DEF InboxOK
<1>4. WorkerOK' /\ EditorOK' /\ HistoryOK' /\ ClientOK' /\ OutboxOK' /\ ControlOK'
  <2>1. WorkerOK' /\ EditorOK' /\ HistoryOK' /\ ClientOK'
    BY <1>2 DEF worker, client, WorkerOK, EditorOK, HistoryOK, ClientOK
  <2>2. OutboxOK'
    BY <1>2 DEF OutboxOK, Act
  <2>3. ControlOK'
    BY <1>2, <1>3 DEF ControlOK, Act
  <2>4. QED
    BY <2>1, <2>2, <2>3
<1>5. WorkspaceOK' /\ QueueOK'
  <2>1. CASE UNCHANGED <<workspace, queue>>
    BY <2>1 DEF workspace, queue, WorkspaceOK, QueueOK, IsOpen
  <2>2. CASE \E docs : Replaces(docs) /\ WorkspaceChanged(docs)
    <3>1. PICK docs : Replaces(docs) /\ WorkspaceChanged(docs)
      BY <2>2
    <3>2. WorkspaceOK'
      BY <3>1, ReplacedIn, ChangeEffect DEF WorkspaceOK, IsOpen
    <3>3. NewJob \in JobType /\ NewControl \in [serial : Nat, id : Ids \cup {NoId}]
      BY <3>2 DEF NewJob, NewControl, Job, Control, JobType, WorkspaceOK, QueueOK
    <3>4. Serials(controls) \subseteq Nat
      BY DEF QueueOK, Serials
    <3>5. IsFiniteSet(Kept \cup {NewControl}) /\ Kept \subseteq controls /\ Stay \subseteq pending
      BY FS_Subset, FS_AddElement DEF QueueOK, Kept, Stay
    <3>6. controls' \in SUBSET [serial : Nat, id : Ids \cup {NoId}] /\ IsFiniteSet(controls')
      BY <3>1, <3>3, <3>5, ChangeEffect DEF QueueOK
    <3>7. pending' \in SUBSET JobType
      BY <3>1, <3>3, <3>5, ChangeEffect DEF QueueOK
    <3>8. next_serial' \in Nat /\ cancelled' \in SUBSET Nat /\ invalidated' \in SUBSET Nat
      <4>1. /\ next_serial' = next_serial + 1 /\ cancelled' = cancelled
            /\ invalidated' = invalidated \cup Serials(controls)
        BY <3>1, ChangeEffect
      <4>2. next_serial \in Nat /\ cancelled \subseteq Nat /\ invalidated \subseteq Nat
        BY DEF QueueOK
      <4>3. QED
        <5>1. next_serial' \in Nat /\ cancelled' \in SUBSET Nat
          BY <4>1, <4>2
        <5>2. invalidated' \in SUBSET Nat
          BY <3>4, <4>1, <4>2
        <5>3. QED
          BY <5>1, <5>2
    <3>9. QED
      BY <3>2, <3>6, <3>7, <3>8 DEF QueueOK
  <2>3. QED
    BY <2>1, <2>2, EditEffect
<1>6. QED
  BY <1>3, <1>4, <1>5

\* Types: the exit notification and a parse error, which change no document and no request.
LEMMA TypedNote ==
  ASSUME Typed, ExitNotification \/ ParseError
  PROVE  Typed'
<1> USE DEF Typed
<1>1. UNCHANGED <<lifecycle, workspace, queue, worker, editor, asked, client, analysed>>
  BY DEF ExitNotification, ParseError
<1>2. /\ \E t : Receive(t)
      /\ \E m \in {<<>>, <<Reply(NoId, "refused")>>},
         next \in {"success", "failure", "receive"} : Act(m, next)
  BY DEF ExitNotification, ParseError
<1>3. InboxOK' /\ pc = "receive"
  BY <1>2, Received DEF InboxOK
<1>4. ControlOK'
  BY <1>1, <1>2, <1>3 DEF ControlOK, Act
<1>5. OutboxOK'
  <2>1. outbox' = <<>> \/ outbox' = <<Reply(NoId, "refused")>>
    BY <1>2 DEF Act
  <2>2. Reply(NoId, "refused") \in MessageType
    BY ReplyIn DEF Kinds
  <2>3. CASE outbox' = <<>>
    BY <2>3 DEF OutboxOK
  <2>4. CASE outbox' = <<Reply(NoId, "refused")>>
    BY <2>2, <2>4, SingleMessage DEF OutboxOK
  <2>5. QED
    BY <2>1, <2>3, <2>4
<1>6. QED
  BY <1>1, <1>3, <1>4, <1>5 DEF workspace, queue, worker, client, WorkspaceOK, IsOpen, QueueOK,
     WorkerOK,
     EditorOK, ClientOK, HistoryOK

\* The server ends.
Ends == EndOfInput \/ InputFailure \/ WriteFails \/ Leave

\* Types: the server ends.
LEMMA TypedEnds ==
  ASSUME Typed, Ends
  PROVE  Typed'
<1> USE DEF Typed
<1>1. /\ UNCHANGED <<lifecycle, workspace, worker, editor, asked, client, analysed, outbox,
         after>>
      /\ pc' = "ended" /\ exit' \in {"success", "failure", "error"}
      /\ UNCHANGED queue \/ CancelAll
      /\ UNCHANGED inbox \/ \E t : Receive(t)
  BY DEF Ends, EndOfInput, InputFailure, WriteFails, Leave, End, Written
<1>2. InboxOK'
  BY <1>1, Received DEF InboxOK
<1>3. ControlOK'
  BY <1>1 DEF ControlOK
<1>4. QueueOK'
  <2>1. Serials(controls) \subseteq Nat
    BY DEF QueueOK, Serials
  <2>2. QED
    BY <1>1, <2>1, FS_EmptySet DEF QueueOK, CancelAll, queue
<1>5. QED
  BY <1>1, <1>2, <1>3, <1>4 DEF workspace, worker, client, WorkspaceOK, IsOpen, WorkerOK,
     EditorOK, ClientOK, HistoryOK, OutboxOK

\* The answer PreparedResponse::finish gives, by cancellation, generation and outcome.
LEMMA FinishIn ==
  ASSUME InboxOK, NEW e \in EventType, e.type = "prepared"
  PROVE  /\ Finish(e) \in MessageType /\ Finish(e).type = "response" /\ Finish(e).id = e.id
         /\ Finish(e).kind \in {"ok", "failed", "modified", "cancelled"}
         /\ e.serial \in cancelled => Finish(e).kind = "cancelled"
         /\ e.serial \notin cancelled /\ e.generation # generation => Finish(e).kind = "modified"
         /\ e.serial \notin cancelled /\ e.generation = generation => Finish(e).kind = e.outcome
         /\ Finish(e).basis = IF Finish(e).kind = "ok" THEN e.basis ELSE NoDocuments
<1>1. e.id \in Ids /\ e.basis \in DocsType /\ e.outcome \in {"ok", "failed", "cancelled"}
  BY EventShape
<1>2. NoDocuments \in DocsType
  BY ReplyIn DEF Kinds
<1>3. CASE e.serial \in cancelled
  <2>1. Finish(e) = Reply(e.id, "cancelled")
    BY <1>3 DEF Finish
  <2>2. QED
    BY <1>1, <1>3, <2>1, ReplyIn DEF Kinds
<1>4. CASE e.serial \notin cancelled /\ e.generation # generation
  <2>1. Finish(e) = Reply(e.id, "modified")
    BY <1>4 DEF Finish
  <2>2. QED
    BY <1>1, <1>4, <2>1, ReplyIn DEF Kinds
<1>5. CASE e.serial \notin cancelled /\ e.generation = generation /\ e.outcome = "ok"
  <2>1. Finish(e) = Response(e.id, "ok", e.basis)
    BY <1>5 DEF Finish
  <2>2. QED
    BY <1>1, <1>5, <2>1 DEF Response, MessageType, Kinds
<1>6. CASE e.serial \notin cancelled /\ e.generation = generation /\ e.outcome # "ok"
  <2>1. Finish(e) = Reply(e.id, e.outcome)
    BY <1>6 DEF Finish
  <2>2. QED
    BY <1>1, <1>6, <2>1, ReplyIn DEF Kinds
<1>7. QED
  BY <1>3, <1>4, <1>5, <1>6

\* Types: the result of a request is taken.
LEMMA TypedCompleteRequest ==
  ASSUME Typed, CompleteRequest
  PROVE  Typed'
<1> USE DEF Typed
<1>1. /\ Receive("prepared")
      /\ UNCHANGED <<lifecycle, workspace, pending, next_serial, cancelled, invalidated, slot,
         work,
                   editor, asked, client, analysed>>
  BY DEF CompleteRequest
<1>2. InboxOK' /\ Event \in EventType /\ Event.type = "prepared" /\ pc = "receive"
  BY <1>1, Received DEF InboxOK
<1>3. WorkspaceOK' /\ EditorOK' /\ HistoryOK' /\ ClientOK'
  BY <1>1 DEF workspace, client, WorkspaceOK, IsOpen, EditorOK, HistoryOK, ClientOK
<1>4. WorkerOK'
  BY <1>1 DEF WorkerOK, CompleteRequest
<1>5. ControlOK'
  BY <1>1, <1>2 DEF ControlOK, Act, CompleteRequest
<1>6. OutboxOK'
  <2>1. outbox' = <<>> \/ outbox' = <<Finish(Event)>>
    BY DEF CompleteRequest, Act
  <2>2. Finish(Event) \in MessageType
    BY <1>2, FinishIn
  <2>3. CASE outbox' = <<>>
    BY <2>3 DEF OutboxOK
  <2>4. CASE outbox' = <<Finish(Event)>>
    BY <2>2, <2>4, SingleMessage DEF OutboxOK
  <2>5. QED
    BY <2>1, <2>3, <2>4
<1>7. QueueOK'
  <2>1. controls' \subseteq controls
    BY DEF CompleteRequest, Untrack
  <2>2. QED
    BY <1>1, <2>1, FS_Subset DEF QueueOK
<1>8. QED
  BY <1>2, <1>3, <1>4, <1>5, <1>6, <1>7

\* The documents that changed, in the order they are published.
Changed(next) == SetToSeq({u \in Uris : next[u] # published[u]})

\* publish_diagnostics sends one message per document that changed, and no two for one document.
LEMMA ChangesOf ==
  ASSUME WorkspaceOK, NEW next \in AnalysisType
  PROVE  /\ Changes(next) \in Seq(MessageType)
         /\ Len(Changes(next)) = Len(Changed(next))
            /\ DOMAIN Changes(next) = 1..Len(Changed(next))
         /\ Len(Changed(next)) \in Nat
         /\ \A i \in 1..Len(Changed(next)) :
                /\ Changes(next)[i].type = "publish" /\ Changes(next)[i].uri = Changed(next)[i]
                /\ Changed(next)[i] \in Uris
                   /\ next[Changed(next)[i]] # published[Changed(next)[i]]
                /\ next[Changed(next)[i]].present =>
                      /\ Changes(next)[i].version = next[Changed(next)[i]].version
                      /\ Changes(next)[i].diagnostics = next[Changed(next)[i]].diagnostics
                /\ ~next[Changed(next)[i]].present =>
                      /\ Changes(next)[i].version = documents[Changed(next)[i]].version
                      /\ Changes(next)[i].diagnostics = {}
         /\ \A u \in Uris : next[u] # published[u] =>
                \E i \in 1..Len(Changed(next)) : Changed(next)[i] = u
<1> DEFINE s == Changed(next)
           D == {u \in Uris : next[u] # published[u]}
           m(u) == IF next[u].present
                   THEN PublishDiagnostics(u, next[u].version, next[u].diagnostics)
                   ELSE PublishDiagnostics(u, documents[u].version, {})
<1>1. IsFiniteSet(D)
  BY Constants, FS_Subset
<1>2. /\ s \in Seq(D) /\ \A e \in D : \E i \in 1..Len(s) : s[i] = e
  BY <1>1, Enumerated DEF Changed
<1>3. Changes(next) = [i \in 1..Len(s) |-> m(s[i])]
  BY DEF Changes, Changed
<1> HIDE DEF s
<1>4. Len(s) \in Nat /\ \A i \in 1..Len(s) : s[i] \in Uris /\ next[s[i]] # published[s[i]]
  BY <1>2
<1>5. ASSUME NEW u \in Uris
      PROVE  /\ m(u) \in MessageType /\ m(u).type = "publish" /\ m(u).uri = u
             /\ next[u].present => m(u).version = next[u].version
                /\ m(u).diagnostics = next[u].diagnostics
             /\ ~next[u].present => m(u).version = documents[u].version /\ m(u).diagnostics = {}
  <2>1. next[u].version \in 0..MaxVersion /\ next[u].diagnostics \in Diagnostics
        /\ {} \in Diagnostics
    <3>1. next[u] \in PublishedType
      BY <1>5 DEF AnalysisType
    <3>2. CASE next[u] = Absent
      BY <3>2, Constants DEF Absent
    <3>3. CASE next[u] \in [present : {TRUE}, version : 0..MaxVersion, diagnostics : Diagnostics]
      BY <3>3, Constants
    <3>4. QED
      BY <3>1, <3>2, <3>3 DEF PublishedType
  <2>2. documents[u].version \in 0..MaxVersion
    BY <1>5, Constants DEF WorkspaceOK, DocsType, DocumentType, Closed
  <2>3. QED
    BY <1>5, <2>1, <2>2 DEF PublishDiagnostics, MessageType
<1>6. /\ DOMAIN Changes(next) = 1..Len(s) /\ \A i \in 1..Len(s) : Changes(next)[i] = m(s[i])
  BY <1>3
<1> HIDE DEF m
<1>7. Changes(next) \in Seq(MessageType) /\ Len(Changes(next)) = Len(s)
  <2>1. Changes(next) \in [1..Len(s) -> MessageType]
    BY <1>3, <1>4, <1>5
  <2>2. QED
    BY <1>4, <2>1
<1>8. \A u \in Uris : next[u] # published[u] => \E i \in 1..Len(s) : s[i] = u
  BY <1>2
<1>9. QED
  BY <1>4, <1>5, <1>6, <1>7, <1>8 DEF s

\* Types: an analysis is taken.
LEMMA TypedCompleteDiagnostics ==
  ASSUME Typed, CompleteDiagnostics
  PROVE  Typed'
<1> USE DEF Typed
<1>1. /\ Receive("analysis") /\ worker_busy' = FALSE /\ Untrack(Event.serial)
      /\ UNCHANGED <<lifecycle, documents, generation, pending, next_serial, cancelled,
         invalidated,
                   slot, work, editor, asked, client>>
  BY DEF CompleteDiagnostics
<1>2. InboxOK' /\ Event \in EventType /\ Event.type = "analysis" /\ pc = "receive"
  BY <1>1, Received DEF InboxOK
<1>3. Event.documents \in AnalysisType /\ Event.generation \in Nat
  BY <1>2, EventShape
<1>4. EditorOK' /\ ClientOK' /\ WorkerOK'
  BY <1>1 DEF client, EditorOK, ClientOK, WorkerOK
<1>5. QueueOK'
  <2>1. controls' \subseteq controls
    BY <1>1 DEF Untrack
  <2>2. QED
    BY <1>1, <2>1, FS_Subset DEF QueueOK
<1>6. ControlOK'
  <2>1. pc' = "write" /\ after' = "start" /\ UNCHANGED exit
    BY DEF CompleteDiagnostics, Act
  <2>2. QED
    BY <1>1, <1>2, <2>1 DEF ControlOK
<1>7. CASE Publishable(Event)
  <2>1. /\ published' = Event.documents /\ outbox' = Changes(Event.documents)
        /\ analysed' = [analysed EXCEPT !.published = Event.generation]
    BY <1>7 DEF CompleteDiagnostics, Act
  <2>2. WorkspaceOK'
    BY <1>1, <1>3, <2>1 DEF WorkspaceOK, IsOpen
  <2>3. OutboxOK'
    BY <1>3, <2>1, ChangesOf DEF OutboxOK
  <2>4. HistoryOK'
    BY <1>3, <2>1 DEF HistoryOK
  <2>5. QED
    BY <1>2, <1>4, <1>5, <1>6, <2>2, <2>3, <2>4
<1>8. CASE ~Publishable(Event)
  <2>1. /\ published' = published /\ outbox' = <<>>
        /\ analysed' = [analysed EXCEPT !.failed = Event.generation] \/ analysed' = analysed
    BY <1>8 DEF CompleteDiagnostics, Act
  <2>2. WorkspaceOK'
    BY <1>1, <2>1 DEF WorkspaceOK, IsOpen
  <2>3. OutboxOK'
    BY <2>1 DEF OutboxOK
  <2>4. HistoryOK'
    BY <1>3, <2>1 DEF HistoryOK
  <2>5. QED
    BY <1>2, <1>4, <1>5, <1>6, <2>2, <2>3, <2>4
<1>9. QED
  BY <1>7, <1>8

\* The fields of a message, by its type.
LEMMA MessageShape ==
  ASSUME NEW m \in MessageType
  PROVE  /\ m.type \in {"response", "publish"}
         /\ m.type = "response" => m.id \in Ids \cup {NoId} /\ m.kind \in Kinds
            /\ m.basis \in DocsType
         /\ m.type = "publish" => m.uri \in Uris /\ m.version \in 0..MaxVersion
            /\ m.diagnostics \in Diagnostics
  BY DEF MessageType

\* The effect of a write on the editor.
LEMMA WriteEffect ==
  ASSUME OutboxOK, ClientOK, Write
  PROVE  /\ outbox # <<>> /\ pc = "write" /\ outbox' = Tail(outbox) /\ outbox[1] \in MessageType
         /\ 1 \in DOMAIN outbox /\ outbox' \in Seq(MessageType) /\ Len(outbox) \in Nat
         /\ DOMAIN outbox = 1..Len(outbox) /\ DOMAIN outbox' = 1..(Len(outbox) - 1)
         /\ \A i \in DOMAIN outbox' : outbox'[i] = outbox[i + 1] /\ i + 1 \in DOMAIN outbox
            /\ i + 1 # 1
         /\ \A i \in DOMAIN outbox : i # 1 => i - 1 \in DOMAIN outbox'
            /\ outbox'[i - 1] = outbox[i]
         /\ UNCHANGED <<lifecycle, workspace, queue, worker, inbox, pc, after, exit, editor, asked,
            analysed>>
         /\ answer' \in [Ids -> Seq([kind : Kinds, basis : DocsType])]
         /\ view' \in [Uris -> [version : 0..MaxVersion, diagnostics : Diagnostics]]
         /\ \/ /\ Answers(1) /\ outbox[1].id \in Ids /\ view' = view
               /\ answer' = [answer EXCEPT ![outbox[1].id] =
                     Append(@, [kind |-> outbox[1].kind, basis |-> outbox[1].basis])]
            \/ outbox[1].type = "response" /\ ~Answers(1) /\ UNCHANGED <<answer, view>>
            \/ /\ outbox[1].type = "publish" /\ ~Answers(1) /\ outbox[1].uri \in Uris
               /\ answer' = answer
               /\ view' = [view EXCEPT ![outbox[1].uri] =
                     [version |-> outbox[1].version, diagnostics |-> outbox[1].diagnostics]]
<1>1. /\ outbox # <<>> /\ pc = "write" /\ outbox' = Tail(outbox) /\ outbox \in Seq(MessageType)
      /\ UNCHANGED <<lifecycle, workspace, queue, worker, inbox, pc, after, exit, editor, asked,
         analysed>>
  BY DEF Write, OutboxOK
<1>2. /\ Head(outbox) = outbox[1] /\ outbox[1] \in MessageType
      /\ 1 \in DOMAIN outbox /\ outbox' \in Seq(MessageType) /\ Len(outbox) \in Nat
      /\ DOMAIN outbox = 1..Len(outbox) /\ DOMAIN outbox' = 1..(Len(outbox) - 1)
      /\ \A i \in DOMAIN outbox' : outbox'[i] = outbox[i + 1] /\ i + 1 \in DOMAIN outbox
         /\ i + 1 # 1
  BY <1>1, Taken
<1>3. \A i \in DOMAIN outbox : i # 1 => i - 1 \in DOMAIN outbox' /\ outbox'[i - 1] = outbox[i]
  BY <1>2
<1> DEFINE m == outbox[1]
<1>4. /\ m.type = "response" => m.id \in Ids \cup {NoId} /\ m.kind \in Kinds
         /\ m.basis \in DocsType
      /\ m.type = "publish" => m.uri \in Uris /\ m.version \in 0..MaxVersion
         /\ m.diagnostics \in Diagnostics
  BY <1>2, MessageShape
<1>5. \/ /\ m.type = "response" /\ m.id # NoId
         /\ answer' = [answer EXCEPT ![m.id] = Append(@, [kind |-> m.kind, basis |-> m.basis])]
         /\ UNCHANGED view
      \/ m.type = "response" /\ m.id = NoId /\ UNCHANGED client
      \/ /\ m.type = "publish"
         /\ view' = [view EXCEPT ![m.uri] = [version |-> m.version,
            diagnostics |-> m.diagnostics]]
         /\ UNCHANGED answer
  BY <1>2 DEF Write
<1>6. Answers(1) <=> (m.type = "response" /\ m.id # NoId)
  BY DEF Answers
<1> HIDE DEF m
<1>7. CASE /\ m.type = "response" /\ m.id # NoId
           /\ answer' = [answer EXCEPT ![m.id] = Append(@, [kind |-> m.kind, basis |-> m.basis])]
           /\ UNCHANGED view
  <2>1. [kind |-> m.kind, basis |-> m.basis] \in [kind : Kinds, basis : DocsType] /\ m.id \in Ids
    BY <1>4, <1>7
  <2> DEFINE a == [kind |-> m.kind, basis |-> m.basis]
             B == [kind : Kinds, basis : DocsType]
  <2>2. answer[m.id] \in Seq(B) /\ answer \in [Ids -> Seq(B)]
    BY <2>1 DEF ClientOK
  <2>3. a \in B /\ answer' = [answer EXCEPT ![m.id] = Append(answer[m.id], a)]
    BY <1>7, <2>1, <2>2
  <2> HIDE DEF a, B
  <2>4. Append(answer[m.id], a) \in Seq(B)
    BY <2>2, <2>3
  <2>5. answer' \in [Ids -> Seq(B)]
    BY <2>1, <2>2, <2>3, <2>4
  <2>6. view' \in [Uris -> [version : 0..MaxVersion, diagnostics : Diagnostics]]
    BY <1>7 DEF ClientOK
  <2>7. answer' \in [Ids -> Seq([kind : Kinds, basis : DocsType])]
    BY <2>5 DEF B
  <2>8. QED
    BY <1>1, <1>2, <1>3, <1>6, <1>7, <2>1, <2>6, <2>7 DEF m
<1>8. CASE m.type = "response" /\ m.id = NoId /\ UNCHANGED client
  <2>1. /\ UNCHANGED <<answer, view>>
           /\ answer' \in [Ids -> Seq([kind : Kinds, basis : DocsType])]
        /\ view' \in [Uris -> [version : 0..MaxVersion, diagnostics : Diagnostics]]
    BY <1>8 DEF client, ClientOK
  <2>2. QED
    BY <1>1, <1>2, <1>3, <1>6, <1>8, <2>1 DEF m
<1>9. CASE /\ m.type = "publish"
           /\ view' = [view EXCEPT ![m.uri] = [version |-> m.version,
              diagnostics |-> m.diagnostics]]
           /\ UNCHANGED answer
  <2>1. /\ m.uri \in Uris /\ answer' \in [Ids -> Seq([kind : Kinds, basis : DocsType])]
        /\ view' \in [Uris -> [version : 0..MaxVersion, diagnostics : Diagnostics]]
    BY <1>4, <1>9 DEF ClientOK
  <2>2. QED
    BY <1>1, <1>2, <1>3, <1>6, <1>9, <2>1 DEF m
<1>10. QED
  BY <1>5, <1>7, <1>8, <1>9

\* Types: a message is written.
LEMMA TypedWrite ==
  ASSUME Typed, Write
  PROVE  Typed'
<1> USE DEF Typed
<1>1. /\ UNCHANGED <<lifecycle, workspace, queue, worker, inbox, pc, after, exit, editor, asked,
         analysed>>
      /\ outbox' \in Seq(MessageType)
      /\ answer' \in [Ids -> Seq([kind : Kinds, basis : DocsType])]
      /\ view' \in [Uris -> [version : 0..MaxVersion, diagnostics : Diagnostics]]
  BY WriteEffect
<1>2. WorkspaceOK'
  BY <1>1 DEF workspace, WorkspaceOK, IsOpen
<1>3. QueueOK' /\ WorkerOK' /\ InboxOK' /\ ControlOK'
  BY <1>1 DEF queue, worker, QueueOK, WorkerOK, InboxOK, ControlOK
<1>4. OutboxOK' /\ EditorOK' /\ ClientOK' /\ HistoryOK'
  BY <1>1 DEF OutboxOK, EditorOK, ClientOK, HistoryOK
<1>5. QED
  BY <1>2, <1>3, <1>4

\* The coordinator goes on, and may start a job.
LEMMA ProceedEffect ==
  ASSUME Typed, Proceed
  PROVE  /\ pc = "write" /\ outbox = <<>> /\ pc' = "receive"
         /\ UNCHANGED <<lifecycle, workspace, controls, next_serial, cancelled, invalidated, work,
            inbox,
                        outbox, after, exit, editor, asked, client, analysed>>
         /\ \/ UNCHANGED <<worker_busy, slot, pending>>
            \/ /\ ~worker_busy /\ slot = <<>>
               /\ \E job \in pending : /\ slot' = <<job>> /\ worker_busy' = TRUE
                                       /\ pending' = pending \ {job}
<1>1. /\ pc = "write" /\ outbox = <<>> /\ pc' = "receive"
      /\ UNCHANGED <<lifecycle, workspace, controls, next_serial, cancelled, invalidated, work,
         inbox,
                        outbox, after, exit, editor, asked, client, analysed>>
      /\ StartNext \/ UNCHANGED <<worker_busy, slot, pending>>
  BY DEF Proceed, Written
<1>2. ASSUME StartNext
      PROVE  \/ UNCHANGED <<worker_busy, slot, pending>>
             \/ /\ ~worker_busy /\ slot = <<>>
                /\ \E job \in pending : /\ slot' = <<job>> /\ worker_busy' = TRUE
                                        /\ pending' = pending \ {job}
  <2>1. CASE ~(worker_busy \/ pending = {}) /\ Len(slot) < 1
    <3>1. slot = <<>>
      BY <2>1 DEF Typed, WorkerOK
    <3>2. Oldest(pending) \in pending
      <4>1. pending # {} /\ \A e \in pending : e.serial \in Nat
        BY <2>1 DEF Typed, QueueOK, JobType
      <4>2. QED
        BY <4>1, OldestIn
    <3>3. /\ slot' = Append(slot, Oldest(pending)) /\ worker_busy' = TRUE
          /\ pending' = pending \ {Oldest(pending)}
      BY <1>2, <2>1 DEF StartNext
    <3>4. slot' = <<Oldest(pending)>>
      BY <3>1, <3>3
    <3>5. QED
      BY <2>1, <3>1, <3>2, <3>3, <3>4
  <2>2. CASE ~(~(worker_busy \/ pending = {}) /\ Len(slot) < 1)
    BY <1>2, <2>2 DEF StartNext
  <2>3. QED
    BY <2>1, <2>2
<1>3. QED
  BY <1>1, <1>2

\* Types: the coordinator goes on.
LEMMA TypedProceed ==
  ASSUME Typed, Proceed
  PROVE  Typed'
<1> USE DEF Typed
<1>1. /\ UNCHANGED <<lifecycle, workspace, controls, next_serial, cancelled, invalidated, work,
         inbox,
                     outbox, after, exit, editor, asked, client, analysed>>
      /\ pc = "write" /\ pc' = "receive"
  BY ProceedEffect
<1>2. WorkspaceOK' /\ InboxOK' /\ OutboxOK' /\ EditorOK' /\ ClientOK' /\ HistoryOK' /\ ControlOK'
  BY <1>1 DEF workspace, client, WorkspaceOK, IsOpen, InboxOK, ControlOK,
     OutboxOK, EditorOK, ClientOK, HistoryOK
<1>3. QueueOK' /\ WorkerOK'
  <2>1. CASE UNCHANGED <<worker_busy, slot, pending>>
    BY <1>1, <2>1 DEF QueueOK, WorkerOK
  <2>2. CASE \E job \in pending : slot' = <<job>> /\ worker_busy' = TRUE
             /\ pending' = pending \ {job}
    <3>1. PICK job \in pending : slot' = <<job>> /\ worker_busy' = TRUE
          /\ pending' = pending \ {job}
      BY <2>2
    <3>2. job \in JobType
      BY <3>1 DEF QueueOK
    <3>3. slot' \in Seq(JobType)
      BY <3>1, <3>2, SingleMessage
    <3>4. QED
      BY <1>1, <3>1, <3>3 DEF QueueOK, WorkerOK
  <2>3. QED
    BY <2>1, <2>2, ProceedEffect
<1>4. QED
  BY <1>2, <1>3

\* The worker takes the job of the channel and tests its flags.
LEMMA TakesEffect ==
  ASSUME WorkerOK, OutInv, WorkerTakes
  PROVE  /\ pc # "ended" /\ ~work.busy /\ slot # <<>> /\ slot[1] \in JobType /\ slot' = <<>>
         /\ work'.busy /\ work'.job = slot[1]
         /\ work' \in [busy : {TRUE}, job : JobType, refused : BOOLEAN]
         /\ work'.refused <=> (slot[1].id # NoId /\ IsCancelled(slot[1].serial))
         /\ UNCHANGED <<lifecycle, workspace, queue, worker_busy, inbox, coordinator, editor,
            asked,
                        client, analysed>>
<1>1. /\ pc # "ended" /\ ~work.busy /\ slot # <<>> /\ slot' = Tail(slot) /\ Len(slot) = 1
      /\ work' = [busy |-> TRUE, job |-> Head(slot),
                  refused |-> ~IsDiagnostics(Head(slot)) /\ IsCancelled(Head(slot).serial)]
      /\ UNCHANGED <<lifecycle, workspace, queue, worker_busy, inbox, coordinator, editor, asked,
                        client, analysed>>
  BY DEF WorkerTakes, OutInv
<1>2. Head(slot) = slot[1] /\ slot[1] \in JobType /\ slot' = <<>>
  BY <1>1 DEF WorkerOK
<1>3. QED
  BY <1>1, <1>2 DEF IsDiagnostics

\* Types: the worker takes a job.
LEMMA TypedTakes ==
  ASSUME Typed, OutInv, WorkerTakes
  PROVE  Typed'
<1> USE DEF Typed
<1>1. /\ UNCHANGED <<lifecycle, workspace, queue, worker_busy, inbox, coordinator, editor, asked,
         client, analysed>>
      /\ slot' = <<>> /\ work' \in [busy : {TRUE}, job : JobType, refused : BOOLEAN]
  BY TakesEffect
<1>2. WorkerOK'
  <2>1. slot' \in Seq(JobType)
    BY <1>1
  <2>2. worker_busy' \in BOOLEAN
    BY <1>1 DEF WorkerOK
  <2>3. QED
    BY <1>1, <2>1, <2>2 DEF WorkerOK
<1>3. QED
  BY <1>1, <1>2 DEF workspace, queue, coordinator, client, WorkspaceOK, IsOpen, QueueOK, InboxOK,
     ControlOK,
     OutboxOK, EditorOK, ClientOK, HistoryOK

\* The worker sends a result of its job back.
Finishes == WorkerPrepares \/ WorkerAnalyses

\* The result of a request.
Prepared(e) ==
    /\ work.job.id # NoId /\ e.type = "prepared" /\ e.id = work.job.id
    /\ e.basis = work.job.snapshot.documents
    /\ e.outcome = "cancelled" => IsCancelled(work.job.serial)

\* The result of an analysis.
Analysed(e) ==
    /\ work.job.id = NoId /\ e.type = "analysis"
    /\ \A u \in Uris : e.documents[u].present =>
           e.documents[u].version = work.job.snapshot.documents[u].version

\* The worker sends one result, of the serial and the generation of its job.
LEMMA FinishesEffect ==
  ASSUME WorkerOK, Finishes
  PROVE  /\ pc # "ended" /\ work.busy /\ work.job \in JobType /\ work' = NoWork
         /\ UNCHANGED <<lifecycle, workspace, queue, worker_busy, slot, coordinator, editor,
            asked,
                        client, analysed>>
         /\ \E e \in EventType : /\ inbox' = Append(inbox, e) /\ e.serial = work.job.serial
                                 /\ e.generation = work.job.snapshot.generation
                                 /\ Prepared(e) \/ Analysed(e)
<1>1. pc # "ended" /\ work.busy
  BY DEF Finishes, WorkerPrepares, WorkerAnalyses
<1>2. work.job \in JobType
  <2>1. work \in {NoWork} \cup [busy : {TRUE}, job : JobType, refused : BOOLEAN]
    BY DEF WorkerOK
  <2>2. NoWork.busy = FALSE
    BY DEF NoWork
  <2>3. QED
    BY <1>1, <2>1, <2>2
<1>3. /\ work.job.serial \in Nat /\ work.job.id \in Ids \cup {NoId}
      /\ work.job.snapshot.documents \in DocsType /\ work.job.snapshot.generation \in Nat
  BY <1>2 DEF JobType
<1>4. CASE WorkerPrepares
  <2>1. PICK outcome \in {"ok", "failed", "cancelled"} :
           /\ outcome = "cancelled" => IsCancelled(work.job.serial)
           /\ Sends([type |-> "prepared", serial |-> work.job.serial, id |-> work.job.id,
                     generation |-> work.job.snapshot.generation,
                     basis |-> work.job.snapshot.documents, outcome |-> outcome])
    BY <1>4 DEF WorkerPrepares
  <2>2. work.job.id # NoId
    BY <1>4 DEF WorkerPrepares, IsDiagnostics
  <2> DEFINE e == [type |-> "prepared", serial |-> work.job.serial, id |-> work.job.id,
                     generation |-> work.job.snapshot.generation,
                     basis |-> work.job.snapshot.documents, outcome |-> outcome]
  <2>3. e \in [type : {"prepared"}, serial : Nat, id : Ids, generation : Nat, basis : DocsType,
              outcome : {"ok", "failed", "cancelled"}]
    BY <1>3, <2>1, <2>2
  <2>4. e \in EventType
    BY <2>3 DEF EventType
  <2>5. Prepared(e) /\ e.serial = work.job.serial /\ e.generation = work.job.snapshot.generation
    BY <2>1, <2>2 DEF Prepared
  <2>6. Sends(e)
    BY <2>1
  <2> HIDE DEF e
  <2>7. QED
    BY <1>1, <1>2, <2>4, <2>5, <2>6 DEF Sends
<1>5. CASE WorkerAnalyses
  <2> DEFINE r(none, docs) == [type |-> "analysis", serial |-> work.job.serial,
               generation |-> work.job.snapshot.generation, none |-> none, documents |-> docs]
  <2>1. work.job.id = NoId
    BY <1>5 DEF WorkerAnalyses, IsDiagnostics
  <2>2. \/ \E docs \in Analyses(work.job.snapshot) : Sends(r(FALSE, docs))
        \/ Sends(r(TRUE, [u \in Uris |-> Absent]))
    BY <1>5 DEF WorkerAnalyses
  <2>3. PICK none \in BOOLEAN, docs \in AnalysisType :
           /\ Sends(r(none, docs))
           /\ \A u \in Uris : docs[u].present
              => docs[u].version = work.job.snapshot.documents[u].version
    <3>1. CASE \E docs \in Analyses(work.job.snapshot) : Sends(r(FALSE, docs))
      BY <3>1 DEF Analyses, AnalysisType, PublishedType
    <3>2. CASE Sends(r(TRUE, [u \in Uris |-> Absent]))
      <4> DEFINE d == [u \in Uris |-> Absent]
      <4>1. d \in AnalysisType /\ \A u \in Uris : ~d[u].present
        BY DEF AnalysisType, PublishedType, Absent
      <4> HIDE DEF d
      <4>2. Sends(r(TRUE, d))
        BY <3>2 DEF d
      <4>3. QED
        BY <4>1, <4>2
    <3>3. QED
      BY <2>2, <3>1, <3>2
  <2> DEFINE e == r(none, docs)
  <2>4. e \in [type : {"analysis"}, serial : Nat, generation : Nat, none : BOOLEAN,
        documents : AnalysisType]
    BY <1>3, <2>3
  <2>5. e \in EventType
    BY <2>4 DEF EventType
  <2>6. Analysed(e) /\ e.serial = work.job.serial /\ e.generation = work.job.snapshot.generation
    BY <2>1, <2>3 DEF Analysed
  <2>7. Sends(e)
    BY <2>3
  <2> HIDE DEF e, r
  <2>8. QED
    BY <1>1, <1>2, <2>5, <2>6, <2>7 DEF Sends
<1>6. QED
  BY <1>4, <1>5 DEF Finishes

\* Types: the worker sends a result.
LEMMA TypedFinishes ==
  ASSUME Typed, Finishes
  PROVE  Typed'
<1> USE DEF Typed
<1>1. PICK e \in EventType : inbox' = Append(inbox, e)
  BY FinishesEffect
<1>2. InboxOK'
  BY <1>1, Added DEF InboxOK
<1>3. /\ UNCHANGED <<lifecycle, workspace, queue, worker_busy, slot, coordinator, editor, asked,
         client, analysed>>
      /\ work' = NoWork
  BY FinishesEffect
<1>4. QED
  BY <1>2, <1>3 DEF workspace, queue, coordinator, client, WorkspaceOK, IsOpen, QueueOK, WorkerOK,
     ControlOK,
     OutboxOK, EditorOK, ClientOK, HistoryOK

\* What the reader was allowed to send shrinks with what it sends.
ReaderKind(e) ==
    \/ /\ e.type \in Asking /\ e.id = editor.id /\ editor'.id = editor.id + 1
       /\ editor'.edits = editor.edits
    \/ /\ e.type \in Editing /\ editor'.id = editor.id /\ editor'.edits = editor.edits + 1
    \/ /\ e.type \in {"cancel", "exit", "eof", "failure", "garbage"}
       /\ editor'.id = editor.id /\ editor'.edits = editor.edits

\* The reader appends one event.
LEMMA ReaderEffect ==
  ASSUME EditorOK, Editor
  PROVE  /\ UNCHANGED <<lifecycle, workspace, queue, worker, coordinator, asked, client,
            analysed>>
         /\ pc # "ended" /\ EditorOK'
         /\ \E e \in EventType : inbox' = Append(inbox, e) /\ ReaderKind(e)
<1> USE DEF EditorOK
<1>1. CASE ReadRequest
  <2>1. PICK e \in Requests : editor.id \in Ids /\ Read(e, [editor EXCEPT !.id = @ + 1])
    BY <1>1 DEF ReadRequest
  <2>2. e \in EventType /\ e.type \in Asking /\ e.id = editor.id
    BY <2>1, Constants DEF Requests, EventType, Asking
  <2>3. /\ editor' \in [id : Nat, edits : 0..MaxEdits, cancels : Nat, open : BOOLEAN]
        /\ editor'.id = editor.id + 1 /\ editor'.edits = editor.edits
    BY <2>1 DEF Read
  <2>4. QED
    BY <2>1, <2>2, <2>3 DEF Read, ReaderKind
<1>2. CASE ReadEdit
  <2>1. PICK e \in Edits : editor.edits < MaxEdits /\ Read(e, [editor EXCEPT !.edits = @ + 1])
    BY <1>2 DEF ReadEdit
  <2>2. e \in EventType /\ e.type \in Editing
    <3>1. CASE e \in [type : {"open"}, uri : Uris, version : 1..MaxVersion]
      BY <3>1 DEF EventType, Editing
    <3>2. CASE e \in [type : {"change"}, uri : Uris, version : 0..MaxVersion]
      BY <3>2 DEF EventType, Editing
    <3>3. CASE e \in [type : {"close"}, uri : Uris, version : {0}]
      <4>1. e \in [type : {"change", "close"}, uri : Uris, version : 0..MaxVersion]
            /\ e.type = "close"
        BY <3>3, Constants
      <4>2. QED
        BY <4>1 DEF EventType, Editing
    <3>4. QED
      BY <2>1, <3>1, <3>2, <3>3 DEF Edits
  <2>3. editor.edits + 1 \in 0..MaxEdits
    BY <2>1, Constants
  <2>4. /\ editor' \in [id : Nat, edits : 0..MaxEdits, cancels : Nat, open : BOOLEAN]
        /\ editor'.id = editor.id /\ editor'.edits = editor.edits + 1
    BY <2>1, <2>3 DEF Read
  <2>5. QED
    BY <2>1, <2>2, <2>4 DEF Read, ReaderKind
<1>3. CASE ReadCancel
  <2>1. PICK e \in Cancels : Read(e, [editor EXCEPT !.cancels = @ + 1])
    BY <1>3 DEF ReadCancel
  <2>2. e \in EventType /\ e.type = "cancel"
    BY <2>1 DEF Cancels, EventType
  <2>3. /\ editor' \in [id : Nat, edits : 0..MaxEdits, cancels : Nat, open : BOOLEAN]
        /\ editor'.id = editor.id /\ editor'.edits = editor.edits
    BY <2>1 DEF Read
  <2>4. QED
    BY <2>1, <2>2, <2>3 DEF Read, ReaderKind
<1>4. CASE ReadLast
  <2>1. PICK type \in Endings : Read([type |-> type], [editor EXCEPT !.open = FALSE])
    BY <1>4 DEF ReadLast
  <2> DEFINE e == [type |-> type]
  <2>2. e \in EventType /\ e.type \in {"exit", "eof", "failure", "garbage"}
    BY <2>1, Constants DEF EventType
  <2>3. /\ editor' \in [id : Nat, edits : 0..MaxEdits, cancels : Nat, open : BOOLEAN]
        /\ editor'.id = editor.id /\ editor'.edits = editor.edits
    BY <2>1 DEF Read
  <2>4. ReaderKind(e) /\ inbox' = Append(inbox, e)
    BY <2>1, <2>2, <2>3 DEF Read, ReaderKind
  <2>5. /\ UNCHANGED <<lifecycle, workspace, queue, worker, coordinator, asked, client, analysed>>
        /\ pc # "ended"
    BY <2>1 DEF Read
  <2> HIDE DEF e
  <2>6. QED
    BY <2>2, <2>3, <2>4, <2>5
<1>5. QED
  BY <1>1, <1>2, <1>3, <1>4 DEF Editor

\* Types: the reader appends an event.
LEMMA TypedReader ==
  ASSUME Typed, Editor
  PROVE  Typed'
<1> USE DEF Typed
<1>1. PICK e \in EventType : inbox' = Append(inbox, e)
  BY ReaderEffect
<1>2. InboxOK' /\ EditorOK'
  BY <1>1, Added, ReaderEffect DEF InboxOK
<1>3. UNCHANGED <<lifecycle, workspace, queue, worker, coordinator, asked, client, analysed>>
  BY ReaderEffect
<1>4. WorkspaceOK' /\ QueueOK' /\ WorkerOK'
  BY <1>3 DEF workspace, queue, worker, WorkspaceOK, IsOpen, QueueOK, WorkerOK
<1>5. ControlOK' /\ OutboxOK' /\ ClientOK' /\ HistoryOK'
  BY <1>3 DEF coordinator, client, ControlOK, OutboxOK, ClientOK, HistoryOK
<1>6. QED
  BY <1>2, <1>4, <1>5

-----------------------------------------------------------------------------
(* The queue.                                                              *)

\* Steps that leave the queue alone keep its invariant.
LEMMA QueueQuiet ==
  ASSUME QueueInv, UNCHANGED queue, UNCHANGED generation,
         analysed'.published = analysed.published,
         lifecycle' = lifecycle \/ (lifecycle = "waiting" /\ lifecycle' = "running")
  PROVE  QueueInv'
  BY DEF QueueInv, queue, Issued

\* A request is queued under a serial not used before.
LEMMA QueueQueueRequest ==
  ASSUME Typed, QueueInv, QueueRequest
  PROVE  QueueInv'
<1> DEFINE n == next_serial
           c0 == Control(n, Event.id)
           j0 == Job(n, Event.id, documents, generation)
<1>1. /\ controls' = controls \cup {c0} /\ pending' = pending \cup {j0} /\ next_serial' = n + 1
      /\ UNCHANGED <<lifecycle, cancelled, invalidated, generation, analysed>>
         /\ lifecycle = "running"
  BY DEF QueueRequest, workspace
<1>2. c0.serial = n /\ c0.id = Event.id /\ j0.serial = n /\ j0.id = Event.id
  BY DEF Control, Job
<1>3. n \in Nat
  BY DEF Typed, QueueOK
<1>4. /\ \A c \in controls : c.serial \in Nat /\ c.serial \in 0..(n - 1)
      /\ \A x \in cancelled \cup invalidated : x \in 0..(n - 1)
  BY DEF Typed, QueueOK, QueueInv, Serials, Issued
<1>5. \A job \in pending : Control(job.serial, job.id) \in controls /\ job.serial \in 0..(n - 1)
  BY <1>4 DEF QueueInv, Control
<1>6. c0 = Control(j0.serial, j0.id)
  BY <1>2
<1> HIDE DEF n, c0, j0
<1>7. Issued' = 0..n
  BY <1>1, <1>3 DEF Issued
<1>8. (Serials(controls) \cup cancelled \cup invalidated)' \subseteq Issued'
  BY <1>1, <1>2, <1>3, <1>4, <1>7 DEF Serials
<1>9. \A c, d \in controls' : c.serial = d.serial => c = d
  <2>1. \A c, d \in controls : c.serial = d.serial => c = d
    BY DEF QueueInv
  <2>2. \A c \in controls : c.serial # n
    BY <1>3, <1>4
  <2>3. QED
    BY <1>1, <1>2, <2>1, <2>2
<1>10. \A a, b \in pending' : a.serial = b.serial => a = b
  <2>1. \A c, d \in pending : c.serial = d.serial => c = d
    BY DEF QueueInv
  <2>2. \A c \in pending : c.serial # n
    BY <1>3, <1>5
  <2>3. QED
    BY <1>1, <1>2, <2>1, <2>2
<1>11. \A job \in pending' : Control(job.serial, job.id) \in controls'
  BY <1>1, <1>5, <1>6
<1>12. QED
  BY <1>1, <1>8, <1>9, <1>10, <1>11 DEF QueueInv

\* The shutdown clears the queue.
LEMMA QueueShutdown ==
  ASSUME Typed, QueueInv, Shutdown, lifecycle = "running"
  PROVE  QueueInv'
<1>1. /\ controls' = {} /\ pending' = {} /\ UNCHANGED <<next_serial, invalidated>>
      /\ cancelled' = cancelled \cup Serials(controls) /\ lifecycle' = "shutdown"
  BY DEF Shutdown
<1>2. QED
  BY <1>1 DEF QueueInv, Issued, Serials

\* A cancelled serial was issued.
LEMMA QueueCancelRequest ==
  ASSUME Typed, QueueInv, CancelRequest
  PROVE  QueueInv'
<1>1. /\ UNCHANGED <<lifecycle, generation, pending, controls, next_serial, invalidated,
         analysed>>
      /\ cancelled' = cancelled \cup Serials({c \in controls : c.id = Event.id})
  BY DEF CancelRequest, workspace
<1>2. Serials({c \in controls : c.id = Event.id}) \subseteq Serials(controls)
  BY DEF Serials
<1>3. QED
  BY <1>1, <1>2 DEF QueueInv, Issued

\* The new diagnostics job has a serial of its own, and every other queued job keeps its control.
LEMMA QueueEdit ==
  ASSUME Typed, QueueInv, Edit
  PROVE  QueueInv'
<1>1. UNCHANGED <<lifecycle, worker, editor, asked, client, analysed>>
  BY EditEffect DEF Typed
<1>2. CASE UNCHANGED <<workspace, queue>>
  BY <1>1, <1>2, QueueQuiet DEF workspace
<1>3. CASE lifecycle = "running" /\ \E docs : Replaces(docs) /\ WorkspaceChanged(docs)
  <2>1. PICK docs : WorkspaceChanged(docs)
    BY <1>3
  <2>2. /\ invalidated' = invalidated \cup Serials(controls)
        /\ controls' = Kept \cup {NewControl} /\ pending' = Stay \cup {NewJob}
        /\ next_serial' = next_serial + 1 /\ cancelled' = cancelled
    BY <2>1, ChangeEffect
  <2> DEFINE n == next_serial
  <2>3. NewControl.serial = n /\ NewControl.id = NoId /\ NewJob.serial = n /\ NewJob.id = NoId
    BY DEF NewControl, NewJob, Control, Job
  <2>4. n \in Nat
    BY DEF Typed, QueueOK
  <2>5. /\ \A c \in controls : c.serial \in Nat /\ c.serial \in 0..(n - 1)
        /\ \A x \in cancelled \cup invalidated : x \in 0..(n - 1)
    BY DEF Typed, QueueOK, QueueInv, Serials, Issued
  <2>6. \A job \in pending : Control(job.serial, job.id) \in controls /\ job.serial \in 0..(n - 1)
    BY <2>5 DEF QueueInv, Control
  <2>7. NewControl = Control(NewJob.serial, NewJob.id)
    BY <2>3 DEF NewControl
  <2>8. Kept \subseteq controls /\ Stay \subseteq pending
    BY DEF Kept, Stay
  <2>9. \A job \in Stay : Control(job.serial, job.id) \in Kept
    <3> SUFFICES ASSUME NEW job \in Stay PROVE Control(job.serial, job.id) \in Kept
      OBVIOUS
    <3>1. job \in pending /\ ~IsDiagnostics(job)
          /\ Control(job.serial, job.id).serial = job.serial
      BY DEF Stay, Control
    <3>2. \A b \in pending : IsDiagnostics(b) => b.serial # job.serial
      BY <3>1 DEF QueueInv
    <3>3. job.serial \notin Serials({b \in pending : IsDiagnostics(b)})
      BY <3>2 DEF Serials
    <3>4. QED
      BY <2>6, <3>1, <3>3 DEF Kept
  <2> HIDE DEF n
  <2>10. Issued' = 0..n
    BY <2>2, <2>4 DEF Issued, n
  <2>11. (Serials(controls) \cup cancelled \cup invalidated)' \subseteq Issued'
    <3>1. \A c \in controls' : c.serial \in 0..n
      BY <2>2, <2>3, <2>4, <2>5, <2>8
    <3>2. \A x \in cancelled' \cup invalidated' : x \in 0..n
      BY <2>2, <2>4, <2>5 DEF Serials
    <3>3. QED
      BY <2>10, <3>1, <3>2 DEF Serials
  <2>12. \A c, d \in controls' : c.serial = d.serial => c = d
    <3>1. \A c, d \in Kept : c.serial = d.serial => c = d
      BY <2>8 DEF QueueInv
    <3>2. \A c \in Kept : c.serial # n
      BY <2>4, <2>5, <2>8
    <3>3. QED
      BY <2>2, <2>3, <3>1, <3>2
  <2>13. \A a, b \in pending' : a.serial = b.serial => a = b
    <3>1. \A c, d \in Stay : c.serial = d.serial => c = d
      BY <2>8 DEF QueueInv
    <3>2. \A c \in Stay : c.serial # n
      BY <2>4, <2>6, <2>8
    <3>3. QED
      BY <2>2, <2>3, <3>1, <3>2
  <2>14. \A job \in pending' : Control(job.serial, job.id) \in controls'
    BY <2>2, <2>7, <2>9
  <2>15. QED
    BY <1>1, <1>3, <2>11, <2>12, <2>13, <2>14 DEF QueueInv
<1>4. QED
  BY <1>2, <1>3, EditEffect DEF Typed

\* The server ends with the queue as it is, or cleared.
LEMMA QueueEnds ==
  ASSUME Typed, QueueInv, Ends
  PROVE  QueueInv'
<1>1. /\ UNCHANGED <<lifecycle, generation, analysed>>
      /\ UNCHANGED queue \/ CancelAll
  BY DEF Ends, EndOfInput, InputFailure, WriteFails, Leave, workspace
<1>2. CASE UNCHANGED queue
  BY <1>1, <1>2, QueueQuiet
<1>3. CASE CancelAll
  BY <1>1, <1>3 DEF QueueInv, Issued, Serials, CancelAll
<1>4. QED
  BY <1>1, <1>2, <1>3

\* A result is only taken while no queued job has its serial.
LEMMA QueueComplete ==
  ASSUME Typed, QueueInv, JobInv, OutInv, NEW t \in Returning, Receive(t), Untrack(Event.serial),
         UNCHANGED <<lifecycle, pending, next_serial, cancelled, invalidated, generation>>,
         analysed'.published = analysed.published \/ lifecycle # "waiting"
  PROVE  QueueInv'
<1>1. controls' = {c \in controls : c.serial # Event.serial}
  BY DEF Untrack
<1>2. 1 \in Returned /\ inbox[1] = Event
  BY Received DEF Returned, Typed
<1>3. \A job \in pending : job.serial # Event.serial
  BY <1>2 DEF JobInv, ResultSound, Unqueued, Serials
<1>4. \A job \in pending : Control(job.serial, job.id) \in controls'
  BY <1>1, <1>3 DEF QueueInv, Control
<1>5. QED
  BY <1>1, <1>4 DEF QueueInv, Issued, Serials

\* Only a running server publishes: a control is tracked.
LEMMA QueueCompleteDiagnostics ==
  ASSUME Typed, QueueInv, JobInv, OutInv, CompleteDiagnostics
  PROVE  QueueInv'
<1>1. /\ Receive("analysis") /\ Untrack(Event.serial)
      /\ UNCHANGED <<lifecycle, pending, next_serial, cancelled, invalidated, generation>>
  BY DEF CompleteDiagnostics
<1>2. analysed'.published = analysed.published \/ lifecycle # "waiting"
  <2>1. CASE Publishable(Event)
    BY <2>1 DEF Publishable, Tracked, Serials, QueueInv
  <2>2. CASE ~Publishable(Event)
    BY <2>2 DEF CompleteDiagnostics, Typed, HistoryOK
  <2>3. QED
    BY <2>1, <2>2
<1>3. QED
  BY <1>1, <1>2, QueueComplete DEF Returning

\* The result of a request takes no control of a queued job away.
LEMMA QueueCompleteRequest ==
  ASSUME Typed, QueueInv, JobInv, OutInv, CompleteRequest
  PROVE  QueueInv'
  BY QueueComplete DEF CompleteRequest, Returning, workspace

\* Starting a job takes it from the queue; its control stays.
LEMMA QueueProceed ==
  ASSUME Typed, QueueInv, Proceed
  PROVE  QueueInv'
<1>1. /\ UNCHANGED <<lifecycle, generation, controls, next_serial, cancelled, invalidated,
         analysed>>
      /\ pending' \subseteq pending
  BY ProceedEffect DEF workspace
<1>2. QED
  BY <1>1 DEF QueueInv, Issued

-----------------------------------------------------------------------------
(* The job that is out.                                                    *)

\* Taking an event other than a result leaves the job that is out where it is.
LEMMA OutReceive ==
  ASSUME Typed, OutInv, NEW t, t \notin Returning, Receive(t), UNCHANGED worker
  PROVE  OutInv'
<1>1. /\ \A i \in DOMAIN inbox' : inbox'[i] = inbox[i + 1] /\ i + 1 \in DOMAIN inbox
      /\ \A i \in DOMAIN inbox : i # 1 => i - 1 \in DOMAIN inbox' /\ inbox'[i - 1] = inbox[i]
      /\ inbox[1].type = t /\ DOMAIN inbox = 1..Len(inbox) /\ Len(inbox) \in Nat
      /\ DOMAIN inbox' = 1..(Len(inbox) - 1)
  BY Received DEF Typed
<1>2. 1 \notin Returned
  BY <1>1 DEF Returned
<1>3. \A i \in Returned : i - 1 \in Returned'
  BY <1>1, <1>2 DEF Returned
<1>4. \A i \in Returned' : i + 1 \in Returned /\ i \in Nat
  BY <1>1 DEF Returned
<1>5. (Returned' = {}) <=> (Returned = {})
  BY <1>3, <1>4
<1>6. (\A i, j \in Returned : i = j) => (\A i, j \in Returned' : i = j)
  BY <1>4
<1>7. QED
  BY <1>5, <1>6 DEF OutInv, worker

\* Taking the result ends the one job that was out.
LEMMA OutComplete ==
  ASSUME Typed, OutInv, NEW t \in Returning, Receive(t), worker_busy' = FALSE,
         UNCHANGED <<slot, work>>
  PROVE  OutInv'
<1>1. /\ \A i \in DOMAIN inbox' : inbox'[i] = inbox[i + 1] /\ i + 1 \in DOMAIN inbox
      /\ inbox[1].type = t /\ 1 \in DOMAIN inbox /\ DOMAIN inbox' = 1..(Len(inbox) - 1)
         /\ Len(inbox) \in Nat
  BY Received DEF Typed
<1>2. 1 \in Returned
  BY <1>1 DEF Returned
<1>3. slot = <<>> /\ ~work.busy /\ \A i, j \in Returned : i = j
  BY <1>2 DEF OutInv
<1>4. \A i \in Returned' : i + 1 \in Returned /\ i \in Nat /\ i # 0
  BY <1>1 DEF Returned
<1>5. Returned' = {}
  BY <1>2, <1>3, <1>4
<1>6. QED
  BY <1>3, <1>5 DEF OutInv

\* An event appended to the inbox is a result, or leaves the results as they are.
LEMMA OutAppend ==
  ASSUME InboxOK, NEW e \in EventType, inbox' = Append(inbox, e)
  PROVE  /\ \A i \in Returned : i \in Returned' /\ i # Len(inbox) + 1
         /\ \A i \in Returned' : i \in Returned \/ i = Len(inbox) + 1
         /\ Len(inbox) + 1 \in Returned' <=> e.type \in Returning
         /\ \A i \in Returned : inbox'[i] = inbox[i]
         /\ inbox'[Len(inbox) + 1] = e
  BY Added DEF InboxOK, Returned

\* The reader sends no results.
LEMMA OutReader ==
  ASSUME Typed, OutInv, Editor
  PROVE  OutInv'
<1>1. PICK e \in EventType : inbox' = Append(inbox, e) /\ ReaderKind(e)
  BY ReaderEffect DEF Typed
<1>2. e.type \notin Returning
  BY <1>1 DEF ReaderKind, Asking, Editing, Returning
<1>3. Returned' = Returned
  BY <1>1, <1>2, OutAppend DEF Typed
<1>4. UNCHANGED worker
  BY ReaderEffect DEF Typed
<1>5. QED
  BY <1>3, <1>4 DEF OutInv, worker

\* A job is started only while none is out.
LEMMA OutProceed ==
  ASSUME Typed, OutInv, Proceed
  PROVE  OutInv'
<1>1. UNCHANGED <<work, inbox>>
  BY ProceedEffect
<1>2. CASE UNCHANGED <<worker_busy, slot, pending>>
  BY <1>1, <1>2 DEF OutInv, Returned
<1>3. CASE /\ ~worker_busy /\ slot = <<>>
           /\ \E job \in pending : slot' = <<job>> /\ worker_busy' = TRUE
  <2>1. PICK job \in pending : slot' = <<job>> /\ worker_busy' = TRUE
    BY <1>3
  <2>2. Len(slot') = 1 /\ slot' # <<>>
    BY <2>1
  <2>3. ~work.busy /\ Returned = {}
    BY <1>3 DEF OutInv
  <2>4. QED
    BY <1>1, <2>1, <2>2, <2>3 DEF OutInv, Returned
<1>4. QED
  BY <1>2, <1>3, ProceedEffect

\* The job moves from the channel into the worker.
LEMMA OutTakes ==
  ASSUME Typed, OutInv, WorkerTakes
  PROVE  OutInv'
<1>1. /\ slot # <<>> /\ slot' = <<>> /\ work'.busy /\ UNCHANGED <<worker_busy, inbox>>
  BY TakesEffect DEF Typed
<1>2. QED
  BY <1>1 DEF OutInv, Returned

\* The job moves from the worker into the inbox, as a result.
LEMMA OutFinishes ==
  ASSUME Typed, OutInv, Finishes
  PROVE  OutInv'
<1>1. PICK e \in EventType : inbox' = Append(inbox, e) /\ (Prepared(e) \/ Analysed(e))
  BY FinishesEffect DEF Typed
<1>2. e.type \in Returning
  BY <1>1 DEF Prepared, Analysed, Returning
<1>3. work.busy /\ ~work'.busy /\ UNCHANGED <<worker_busy, slot>>
  BY FinishesEffect DEF Typed, NoWork
<1>4. Returned = {} /\ worker_busy /\ slot = <<>>
  BY <1>3 DEF OutInv
<1>5. Returned' = {Len(inbox) + 1}
  BY <1>1, <1>2, <1>4, OutAppend DEF Typed
<1>6. QED
  BY <1>3, <1>4, <1>5 DEF OutInv

-----------------------------------------------------------------------------
(* What is known of the jobs, and where they are.                          *)

\* Taking an event other than a result shifts the results by one.
LEMMA Shifted ==
  ASSUME InboxOK, NEW t, t \notin Returning, Receive(t)
  PROVE  /\ \A i \in Returned : i - 1 \in Returned' /\ inbox'[i - 1] = inbox[i]
         /\ \A i \in Returned' : i + 1 \in Returned /\ inbox'[i] = inbox[i + 1]
<1>1. /\ \A i \in DOMAIN inbox' : inbox'[i] = inbox[i + 1] /\ i + 1 \in DOMAIN inbox
      /\ \A i \in DOMAIN inbox : i # 1 => i - 1 \in DOMAIN inbox' /\ inbox'[i - 1] = inbox[i]
      /\ inbox[1].type = t
  BY Received
<1>2. 1 \notin Returned
  BY <1>1 DEF Returned
<1>3. QED
  BY <1>1, <1>2 DEF Returned

\* What is known of the jobs is kept, except of those in a set of serials.
Keeps(Gone) ==
    \A s, id, g : (Known(s, id, g) /\ s \notin Gone) =>
        Known(s, id, g)' /\ (g = generation' => g = generation /\ documents' = documents)

\* A job that is new in the queue is sound.
Queues(Gone) ==
    \A job \in pending' : \/ job \in pending /\ job.serial \notin Gone
                          \/ Sound(job)' /\ job.serial \notin Issued

\* Taking an event other than a result keeps what is known of the jobs.
LEMMA JobReceive ==
  ASSUME Typed, JobInv, NEW t, t \notin Returning, Receive(t), UNCHANGED worker,
         cancelled \subseteq cancelled', invalidated \subseteq invalidated',
         NEW Gone, Gone \subseteq Serials(pending), Keeps(Gone), Queues(Gone)
  PROVE  JobInv'
<1>1. ASSUME NEW job, Sound(job), job.serial \notin Gone
      PROVE  Sound(job)'
  BY <1>1 DEF Sound, Keeps
<1>2. ASSUME NEW s \in Issued, Unqueued(s)
      PROVE  Unqueued(s)' /\ s \notin Gone
  BY <1>2 DEF Unqueued, Serials, Queues
<1>3. \A job \in pending' : Sound(job)'
  BY <1>1 DEF JobInv, Queues
<1>4. (slot # <<>> => Sound(slot[1]) /\ Unqueued(slot[1].serial))'
  <2> SUFFICES ASSUME slot' # <<>> PROVE (Sound(slot[1]) /\ Unqueued(slot[1].serial))'
    OBVIOUS
  <2>1. slot' = slot /\ Sound(slot[1]) /\ Unqueued(slot[1].serial)
    BY DEF JobInv, worker
  <2>2. slot[1].serial \in Issued
    BY <2>1 DEF Sound, Known
  <2>3. QED
    BY <1>1, <1>2, <2>1, <2>2
<1>5. (work.busy => Sound(work.job) /\ Unqueued(work.job.serial)
                        /\ (work.refused => IsCancelled(work.job.serial)))'
  <2> SUFFICES ASSUME work'.busy
               PROVE  (Sound(work.job) /\ Unqueued(work.job.serial)
                        /\ (work.refused => IsCancelled(work.job.serial)))'
    OBVIOUS
  <2>1. /\ work' = work /\ Sound(work.job) /\ Unqueued(work.job.serial)
        /\ work.refused => IsCancelled(work.job.serial)
    BY DEF JobInv, worker
  <2>2. work.job.serial \in Issued
    BY <2>1 DEF Sound, Known
  <2>3. QED
    BY <1>1, <1>2, <2>1, <2>2 DEF IsCancelled
<1>6. \A i \in Returned' : ResultSound(inbox[i])'
  <2> SUFFICES ASSUME NEW i \in Returned' PROVE ResultSound(inbox[i])'
    OBVIOUS
  <2>0. PICK e : e = inbox[i + 1]
    OBVIOUS
  <2>1. inbox'[i] = e /\ ResultSound(e) /\ e.type \in Returning
    BY <2>0, Shifted DEF JobInv, Typed, Returned
  <2>2. CASE e.type = "prepared"
    <3>1. /\ Known(e.serial, e.id, e.generation) /\ Unqueued(e.serial)
          /\ e.generation = generation => e.basis = documents
          /\ e.outcome = "cancelled" => e.serial \in cancelled \cup invalidated
      BY <2>1, <2>2 DEF ResultSound
    <3>2. Unqueued(e.serial)' /\ e.serial \notin Gone
      BY <1>2, <3>1 DEF Known
    <3>3. /\ Known(e.serial, e.id, e.generation)'
          /\ e.generation = generation' => e.generation = generation /\ documents' = documents
      BY <3>1, <3>2 DEF Keeps
    <3>4. ResultSound(e)'
      BY <2>2, <3>1, <3>2, <3>3 DEF ResultSound
    <3>5. QED
      BY <2>1, <3>4
  <2>3. CASE e.type = "analysis"
    <3>1. /\ Known(e.serial, NoId, e.generation) /\ Unqueued(e.serial)
          /\ (e.generation = generation) =>
                  \A u \in Uris : e.documents[u].present
                    => e.documents[u].version = documents[u].version
      BY <2>1, <2>3 DEF ResultSound
    <3>2. Unqueued(e.serial)' /\ e.serial \notin Gone
      BY <1>2, <3>1 DEF Known
    <3>3. /\ Known(e.serial, NoId, e.generation)'
          /\ e.generation = generation' => e.generation = generation /\ documents' = documents
      BY <3>1, <3>2 DEF Keeps
    <3>4. ResultSound(e)'
      BY <2>3, <3>1, <3>2, <3>3 DEF ResultSound
    <3>5. QED
      BY <2>1, <3>4
  <2>4. QED
    BY <2>1, <2>2, <2>3 DEF Returning
<1>7. QED
  BY <1>3, <1>4, <1>5, <1>6 DEF JobInv

\* Taking an event other than a result keeps the place of every job that stays tracked.
LEMMA PlaceReceive ==
  ASSUME Typed, PlaceInv, NEW t, t \notin Returning, Receive(t), UNCHANGED worker,
         \A c \in controls' :
             \/ c.serial \in Serials(pending')
             \/ c \in controls /\ (c.serial \in Serials(pending)
                => c.serial \in Serials(pending'))
  PROVE  PlaceInv'
<1> SUFFICES ASSUME NEW c \in controls' PROVE Placed(c.serial)'
  BY DEF PlaceInv
<1>1. Serials(pending)' = Serials(pending')
  BY DEF Serials
<1>2. CASE c.serial \in Serials(pending')
  BY <1>1, <1>2 DEF Placed
<1>3. CASE c \in controls /\ c.serial \notin Serials(pending)
  <2>1. Placed(c.serial)
    BY <1>3 DEF PlaceInv
  <2>2. (\E i \in Returned : inbox[i].serial = c.serial)
        => (\E i \in Returned' : inbox'[i].serial = c.serial)
    BY Shifted DEF Typed
  <2>3. QED
    BY <1>3, <2>1, <2>2 DEF Placed, worker
<1>4. QED
  BY <1>2, <1>3

\* A request that has not been taken up is tracked nowhere and has no answer.
LEMMA NotTracked ==
  ASSUME InboxOK, InboxInv, RequestInv, NEW t \in Asking, Receive(t)
  PROVE  /\ Event.id \in Ids /\ asked[Event.id].state = "no" /\ ~Awaited(Event.id)
            /\ ~Due(Event.id)
         /\ answer[Event.id] = <<>> /\ Event.id # NoId
         /\ \A c \in controls : c.id # Event.id
<1>1. Event.id \in Ids /\ Event = inbox[1] /\ 1 \in DOMAIN inbox /\ Event.type = t
  BY Received, EventShape
<1>2. asked[Event.id].state = "no"
  BY <1>1 DEF InboxInv
<1>3. ~Awaited(Event.id) /\ ~Due(Event.id) /\ answer[Event.id] = <<>>
  BY <1>1, <1>2 DEF RequestInv
<1>4. QED
  BY <1>1, <1>2, <1>3, Constants DEF Awaited

\* A serial issued so far stays one.
LEMMA Below ==
  ASSUME NEW n \in Nat, NEW m \in Nat, n <= m, NEW s \in 0..(n - 1)
  PROVE  s \in 0..(m - 1)
  OBVIOUS

\* Taking up a request changes nothing that is known of a job: no job is of that request.
LEMMA KnownTakeUp ==
  ASSUME Typed, InboxInv, RequestInv, NEW t \in Asking, Receive(t), TakeUp(Event.id),
         next_serial' \in Nat, next_serial <= next_serial',
         UNCHANGED <<generation, cancelled, invalidated>>,
         controls \subseteq controls', \A c \in controls' : c \in controls
           \/ c.serial \notin Issued
  PROVE  \A s, id, g : Known(s, id, g) => Known(s, id, g)'
<1> SUFFICES ASSUME NEW s, NEW id, NEW g, Known(s, id, g) PROVE Known(s, id, g)'
  OBVIOUS
<1>1. /\ \A k \in Ids : k # Event.id => asked'[k] = asked[k]
      /\ Event.id \in Ids /\ \A c \in controls : c.id # Event.id
  BY NotTracked, TakenUp DEF Typed
<1>2. /\ s \in Issued /\ g \in 0..generation /\ (s \in invalidated => g # generation)
      /\ (Tracked(s) /\ g # generation) => s \in invalidated
      /\ \A c \in controls : c.serial = s => c.id = id
      /\ Tracked(s) \/ s \in cancelled
      /\ (id # NoId /\ Tracked(s)) => asked[id].edits = g
  BY DEF Known
<1>3. s \in Issued'
  <2>1. next_serial \in Nat /\ s \in 0..(next_serial - 1)
    BY <1>2 DEF Issued, Typed, QueueOK
  <2>2. s \in 0..(next_serial' - 1)
    BY <2>1, Below
  <2>3. QED
    BY <2>2 DEF Issued
<1>4. \A c \in controls' : c.serial = s => c \in controls
  BY <1>2
<1>5. Tracked(s)' <=> Tracked(s)
  BY <1>4 DEF Tracked, Serials
<1>6. ASSUME id # NoId, Tracked(s) PROVE asked'[id].edits = g
  <2>1. PICK c \in controls : c.serial = s
    BY <1>6 DEF Tracked, Serials
  <2>2. c.id = id /\ c.id \in Ids \cup {NoId}
    BY <1>2, <2>1 DEF Typed, QueueOK
  <2>3. asked'[id] = asked[id]
    BY <1>1, <1>6, <2>1, <2>2
  <2>4. QED
    BY <1>2, <1>6, <2>3
<1>7. QED
  BY <1>2, <1>3, <1>4, <1>5, <1>6 DEF Known

\* Jobs: a request answered at once.
LEMMA JobQuick ==
  ASSUME Typed, JobInv, PlaceInv, InboxInv, RequestInv, Quick
  PROVE  JobInv' /\ PlaceInv'
<1>1. PICK t \in Asking, kind \in {"initialized", "refused"} : Receive(t)
      /\ AnswersNow(Event.id, kind)
  BY DEF Quick
<1>2. TakeUp(Event.id) /\ UNCHANGED <<workspace, queue, worker>> /\ t \notin Returning
  BY <1>1 DEF AnswersNow, Asking, Returning
<1>3. UNCHANGED <<documents, generation, pending, controls, next_serial, cancelled, invalidated>>
  BY <1>2 DEF workspace, queue
<1>4. \A s, id, g : Known(s, id, g) => Known(s, id, g)'
  <2>1. /\ controls \subseteq controls' /\ next_serial' \in Nat /\ next_serial <= next_serial'
        /\ \A c \in controls' : c \in controls
    BY <1>3 DEF Typed, QueueOK
  <2>2. QED
    BY <1>1, <1>2, <1>3, <2>1, KnownTakeUp
<1>5. JobInv'
  <2>1. Queues({}) /\ Keeps({})
    BY <1>3, <1>4 DEF Queues, Keeps
  <2>2. {} \subseteq Serials(pending) /\ cancelled \subseteq cancelled'
        /\ invalidated \subseteq invalidated'
    BY <1>3
  <2>3. QED
    BY <1>1, <1>2, <2>1, <2>2, JobReceive
<1>6. PlaceInv'
  BY <1>1, <1>2, <1>3, PlaceReceive
<1>7. QED
  BY <1>5, <1>6

\* Jobs: the queued request has a snapshot of the current documents.
LEMMA JobQueueRequest ==
  ASSUME Typed, QueueInv, JobInv, PlaceInv, InboxInv, RequestInv, QueueRequest
  PROVE  JobInv' /\ PlaceInv'
<1>0. PICK n, c0, j0 : /\ n = next_serial /\ c0 = Control(n, Event.id)
                       /\ j0 = Job(n, Event.id, documents, generation)
  OBVIOUS
<1>1. /\ Receive("request") /\ TakeUp(Event.id) /\ "request" \in Asking
         /\ "request" \notin Returning
      /\ controls' = controls \cup {c0} /\ pending' = pending \cup {j0} /\ next_serial' = n + 1
      /\ UNCHANGED <<documents, generation, cancelled, invalidated, worker>>
  BY <1>0 DEF QueueRequest, Asking, Returning, workspace
<1>2. /\ c0.serial = n /\ c0.id = Event.id /\ j0.serial = n /\ j0.id = Event.id
      /\ j0.snapshot.documents = documents /\ j0.snapshot.generation = generation
  BY <1>0 DEF Control, Job
<1>3. n \in Nat /\ n \notin Issued /\ generation \in Nat
  BY <1>0 DEF Typed, QueueOK, Issued, WorkspaceOK
<1>4. \A s, id, g : Known(s, id, g) => Known(s, id, g)'
  <2>1. /\ next_serial' \in Nat /\ next_serial <= next_serial' /\ controls \subseteq controls'
        /\ \A c \in controls' : c \in controls \/ c.serial \notin Issued
    BY <1>0, <1>1, <1>2, <1>3
  <2>2. QED
    BY <1>1, <2>1, KnownTakeUp
<1>5. Sound(j0)'
  <2>1. n \in Issued' /\ generation \in 0..generation'
    BY <1>1, <1>3 DEF Issued
  <2>2. n \notin invalidated'
    BY <1>1, <1>3 DEF QueueInv
  <2>3. \A c \in controls' : c.serial = n => c.id = Event.id
    BY <1>1, <1>2, <1>3 DEF QueueInv, Serials
  <2>4. Tracked(n)'
    BY <1>1, <1>2 DEF Tracked, Serials
  <2>5. asked'[Event.id].edits = generation
    BY <1>1, NotTracked, TakenUp DEF Typed
  <2>6. QED
    BY <1>1, <1>2, <2>1, <2>2, <2>3, <2>4, <2>5 DEF Sound, Known
<1>6. JobInv'
  <2>1. Queues({}) /\ Keeps({})
    BY <1>1, <1>2, <1>3, <1>4, <1>5 DEF Queues, Keeps
  <2>2. {} \subseteq Serials(pending) /\ cancelled \subseteq cancelled'
        /\ invalidated \subseteq invalidated'
    BY <1>1
  <2>3. QED
    BY <1>1, <2>1, <2>2, JobReceive
<1>7. PlaceInv'
  <2>1. \A c \in controls' :
             \/ c.serial \in Serials(pending')
             \/ c \in controls /\ (c.serial \in Serials(pending)
                => c.serial \in Serials(pending'))
    BY <1>1, <1>2 DEF Serials
  <2>2. QED
    BY <1>1, <2>1, PlaceReceive
<1>8. QED
  BY <1>6, <1>7

\* Jobs: what is out at a shutdown is cancelled.
LEMMA JobShutdown ==
  ASSUME Typed, QueueInv, JobInv, PlaceInv, Shutdown, lifecycle = "running"
  PROVE  JobInv' /\ PlaceInv'
<1>1. /\ Receive("shutdown") /\ "shutdown" \notin Returning
      /\ controls' = {} /\ pending' = {} /\ cancelled' = cancelled \cup Serials(controls)
      /\ UNCHANGED <<documents, generation, next_serial, invalidated, worker>>
  BY DEF Shutdown, Returning, workspace
<1>2. \A s, id, g : Known(s, id, g) => Known(s, id, g)'
  BY <1>1 DEF Known, Tracked, Issued, Serials
<1>3. JobInv'
  <2>1. Queues({}) /\ Keeps({})
    BY <1>1, <1>2 DEF Queues, Keeps
  <2>2. {} \subseteq Serials(pending) /\ cancelled \subseteq cancelled'
        /\ invalidated \subseteq invalidated'
    BY <1>1
  <2>3. QED
    BY <1>1, <2>1, <2>2, JobReceive
<1>4. PlaceInv'
  BY <1>1 DEF PlaceInv
<1>5. QED
  BY <1>3, <1>4

\* Jobs: a cancelled job is still known.
LEMMA JobCancelRequest ==
  ASSUME Typed, JobInv, PlaceInv, CancelRequest
  PROVE  JobInv' /\ PlaceInv'
<1>1. /\ Receive("cancel") /\ "cancel" \notin Returning /\ cancelled \subseteq cancelled'
      /\ UNCHANGED <<documents, generation, pending, controls, next_serial, invalidated, worker>>
  BY DEF CancelRequest, Returning, workspace
<1>2. \A id \in Ids : asked'[id].edits = asked[id].edits
  <2>1. Event.id \in Ids
    BY <1>1, Received, EventShape DEF Typed
  <2>2. PICK st : asked' = [asked EXCEPT ![Event.id].state = st]
    BY DEF CancelRequest
  <2>3. QED
    BY <2>1, <2>2 DEF Typed, ClientOK
<1>3. \A s, id, g : Known(s, id, g) => Known(s, id, g)'
  <2> SUFFICES ASSUME NEW s, NEW id, NEW g, Known(s, id, g) PROVE Known(s, id, g)'
    OBVIOUS
  <2>1. Tracked(s)' <=> Tracked(s)
    BY <1>1 DEF Tracked, Serials
  <2>2. ASSUME id # NoId, Tracked(s) PROVE asked'[id].edits = asked[id].edits
    <3>1. PICK c \in controls : c.serial = s
      BY <2>2 DEF Tracked, Serials
    <3>2. c.id = id /\ c.id \in Ids \cup {NoId}
      BY <3>1 DEF Known, Typed, QueueOK
    <3>3. QED
      BY <1>2, <2>2, <3>2
  <2>3. QED
    BY <1>1, <2>1, <2>2 DEF Known, Issued
<1>4. JobInv'
  <2>1. {} \subseteq Serials(pending)
    OBVIOUS
  <2>2. QED
    <3>1. Queues({}) /\ Keeps({})
      BY <1>1, <1>3 DEF Queues, Keeps
    <3>2. cancelled \subseteq cancelled' /\ invalidated \subseteq invalidated'
      BY <1>1
    <3>3. QED
      BY <1>1, <2>1, <3>1, <3>2, JobReceive
<1>5. PlaceInv'
  BY <1>1, PlaceReceive
<1>6. QED
  BY <1>4, <1>5

\* Jobs: a notification that touches neither the workspace nor the queue.
LEMMA JobNote ==
  ASSUME Typed, JobInv, PlaceInv, NEW t, t \notin Returning, Receive(t),
         UNCHANGED <<workspace, queue, worker, asked>>
  PROVE  JobInv' /\ PlaceInv'
<1>1. UNCHANGED <<documents, generation, pending, controls, next_serial, cancelled, invalidated>>
  BY DEF workspace, queue
<1>2. \A s, id, g : Known(s, id, g) => Known(s, id, g)'
  BY <1>1 DEF Known, Tracked, Issued
<1>3. Queues({}) /\ Keeps({})
  BY <1>1, <1>2 DEF Queues, Keeps
<1>4. {} \subseteq Serials(pending) /\ cancelled \subseteq cancelled'
      /\ invalidated \subseteq invalidated'
  BY <1>1
<1>5. JobInv'
  BY <1>3, <1>4, JobReceive
<1>6. PlaceInv'
  BY <1>1, PlaceReceive
<1>7. QED
  BY <1>5, <1>6

\* Jobs: after an edit every tracked job is of an earlier generation and invalidated, but the new
\* one.
LEMMA JobEdit ==
  ASSUME Typed, QueueInv, JobInv, PlaceInv, Edit
  PROVE  JobInv' /\ PlaceInv'
<1>1. PICK t \in Editing : Receive(t)
  BY EditEffect DEF Typed
<1>2. t \notin Returning /\ UNCHANGED <<worker, asked>>
  BY <1>1, EditEffect DEF Typed, Editing, Returning
<1>3. CASE UNCHANGED <<workspace, queue>>
  BY <1>1, <1>2, <1>3, JobNote
<1>4. CASE lifecycle = "running" /\ \E docs : Replaces(docs) /\ WorkspaceChanged(docs)
  <2>0. PICK docs : WorkspaceChanged(docs)
    BY <1>4
  <2>1. PICK n, c0, j0, Gone : /\ n = next_serial /\ c0 = NewControl /\ j0 = NewJob
                               /\ Gone = Serials({job \in pending : IsDiagnostics(job)})
    OBVIOUS
  <2>2. /\ generation' = generation + 1
        /\ invalidated' = invalidated \cup Serials(controls)
        /\ controls' = Kept \cup {c0} /\ pending' = Stay \cup {j0}
        /\ next_serial' = n + 1 /\ cancelled' = cancelled
    BY <2>0, <2>1, ChangeEffect
  <2>3. /\ c0.serial = n /\ c0.id = NoId /\ j0.serial = n /\ j0.id = NoId
        /\ j0.snapshot.documents = documents' /\ j0.snapshot.generation = generation + 1
    BY <2>1 DEF NewControl, NewJob, Control, Job
  <2>4. n \in Nat /\ n \notin Issued /\ generation \in Nat /\ Issued = 0..(n - 1)
        /\ Issued' = 0..n
    BY <2>1, <2>2 DEF Typed, QueueOK, Issued, WorkspaceOK
  <2>5. Kept = {c \in controls : c.serial \notin Gone} /\ Gone \subseteq Serials(pending)
    BY <2>1 DEF Kept, Serials
  <2>6. Keeps(Gone)
    <3> SUFFICES ASSUME NEW s, NEW id, NEW g, Known(s, id, g), s \notin Gone
                 PROVE  Known(s, id, g)' /\ g # generation'
      BY DEF Keeps
    <3>1. /\ s \in Issued /\ g \in 0..generation
          /\ \A c \in controls : c.serial = s => c.id = id
          /\ Tracked(s) \/ s \in cancelled
          /\ (id # NoId /\ Tracked(s)) => asked[id].edits = g
      BY DEF Known
    <3>2. g \in 0..generation' /\ g # generation' /\ s \in Issued' /\ s # n
      BY <2>2, <2>4, <3>1
    <3>3. \A c \in controls' : c.serial = s => c \in controls
      BY <2>2, <2>3, <2>5, <3>2
    <3>4. Tracked(s)' <=> Tracked(s)
      <4>1. Tracked(s)' => Tracked(s)
        BY <3>3 DEF Tracked, Serials
      <4>2. ASSUME Tracked(s) PROVE Tracked(s)'
        <5>1. PICK c \in controls : c.serial = s
          BY <4>2 DEF Tracked, Serials
        <5>2. c \in controls'
          BY <2>2, <2>5, <5>1
        <5>3. QED
          BY <5>1, <5>2 DEF Tracked, Serials
      <4>3. QED
        BY <4>1, <4>2
    <3>5. Tracked(s) => s \in invalidated'
      BY <2>2 DEF Tracked
    <3>6. QED
      BY <1>2, <2>2, <3>1, <3>2, <3>3, <3>4, <3>5 DEF Known
  <2>7. Sound(j0)'
    <3>1. n \in Issued' /\ generation + 1 \in 0..generation'
      BY <2>2, <2>4
    <3>2. n \notin invalidated'
      BY <2>2, <2>4 DEF QueueInv
    <3>3. \A c \in controls' : c.serial = n => c.id = NoId
      BY <2>2, <2>3, <2>4, <2>5 DEF QueueInv, Serials
    <3>4. Tracked(n)'
      BY <2>2, <2>3 DEF Tracked, Serials
    <3>5. QED
      BY <2>2, <2>3, <3>1, <3>2, <3>3, <3>4 DEF Sound, Known
  <2>8. Queues(Gone)
    <3> SUFFICES ASSUME NEW job \in Stay PROVE job \in pending /\ job.serial \notin Gone
      BY <2>2, <2>3, <2>4, <2>7 DEF Queues
    <3>1. job \in pending /\ ~IsDiagnostics(job)
      BY DEF Stay
    <3>2. \A b \in pending : IsDiagnostics(b) => b.serial # job.serial
      BY <3>1 DEF QueueInv
    <3>3. QED
      BY <2>1, <3>1, <3>2 DEF Serials
  <2>9. JobInv'
    <3>1. cancelled \subseteq cancelled' /\ invalidated \subseteq invalidated'
      BY <2>2
    <3>2. QED
      BY <1>1, <1>2, <2>5, <2>6, <2>8, <3>1, JobReceive
  <2>10. PlaceInv'
    <3>1. ASSUME NEW c \in controls'
          PROVE  \/ c.serial \in Serials(pending')
                 \/ c \in controls /\ (c.serial \in Serials(pending)
                    => c.serial \in Serials(pending'))
      <4>1. CASE c = c0
        BY <2>2, <2>3, <4>1 DEF Serials
      <4>2. CASE c \in Kept
        <5>1. c \in controls /\ c.serial \notin Gone
          BY <2>5, <4>2
        <5>2. ASSUME NEW job \in pending, job.serial = c.serial PROVE job \in pending'
          BY <2>1, <2>2, <5>1, <5>2 DEF Serials, Stay
        <5>3. QED
          BY <5>1, <5>2 DEF Serials
      <4>3. QED
        BY <2>2, <3>1, <4>1, <4>2
    <3>2. QED
      BY <1>1, <1>2, <3>1, PlaceReceive
  <2>11. QED
    BY <2>9, <2>10
<1>5. QED
  BY <1>3, <1>4, EditEffect DEF Typed

\* A result is taken: nothing else is out, and the queue is as it was.
LEMMA JobComplete ==
  ASSUME Typed, QueueInv, OutInv, JobInv, PlaceInv, NEW t \in Returning, Receive(t),
         Untrack(Event.serial),
         worker_busy' = FALSE, UNCHANGED <<slot, work, documents, generation, pending,
         next_serial,
                                           cancelled, invalidated, asked>>
  PROVE  JobInv' /\ PlaceInv'
<1>1. 1 \in Returned /\ inbox[1] = Event
  BY Received DEF Returned, Typed
<1>2. slot = <<>> /\ ~work.busy /\ \A i, j \in Returned : i = j
  BY <1>1 DEF OutInv
<1>3. Returned' = {}
  <2>1. OutInv' /\ ~worker_busy'
    BY OutComplete
  <2>2. QED
    BY <2>1 DEF OutInv
<1>4. PICK r : r = Event.serial
  OBVIOUS
<1>5. controls' = {c \in controls : c.serial # r}
  BY <1>4 DEF Untrack
<1>6. \A job \in pending : job.serial # r
  BY <1>1, <1>4 DEF JobInv, ResultSound, Unqueued, Serials
<1>7. ASSUME NEW job \in pending PROVE Sound(job)'
  <2>1. Sound(job) /\ job.serial # r
    BY <1>6 DEF JobInv
  <2>2. Tracked(job.serial)' <=> Tracked(job.serial)
    BY <1>5, <2>1 DEF Tracked, Serials
  <2>3. Known(job.serial, job.id, job.snapshot.generation)'
    BY <1>5, <2>1, <2>2 DEF Sound, Known, Issued
  <2>4. QED
    BY <2>1, <2>3 DEF Sound
<1>8. JobInv'
  BY <1>2, <1>3, <1>7 DEF JobInv
<1>9. ASSUME NEW c \in controls' PROVE c.serial \in Serials(pending)
  <2>1. c \in controls /\ c.serial # r
    BY <1>5, <1>9
  <2>2. Placed(c.serial)
    BY <2>1 DEF PlaceInv
  <2>3. QED
    BY <1>1, <1>2, <1>4, <2>1, <2>2 DEF Placed
<1>10. PlaceInv'
  BY <1>9 DEF PlaceInv, Placed, Serials
<1>11. QED
  BY <1>8, <1>10

\* Jobs: a job goes from the queue into the channel.
LEMMA JobProceed ==
  ASSUME Typed, QueueInv, OutInv, JobInv, PlaceInv, Proceed
  PROVE  JobInv' /\ PlaceInv'
<1>1. UNCHANGED <<documents, generation, controls, next_serial, cancelled, invalidated, work,
      inbox, asked>>
  BY ProceedEffect DEF workspace
<1>2. \A s, id, g : Known(s, id, g) => Known(s, id, g)'
  BY <1>1 DEF Known, Tracked, Issued
<1>3. \A job : Sound(job) => Sound(job)'
  BY <1>1, <1>2 DEF Sound
<1>4. CASE UNCHANGED <<worker_busy, slot, pending>>
  <2>1. \A e : ResultSound(e) => ResultSound(e)'
    BY <1>1, <1>2, <1>4 DEF ResultSound, Unqueued
  <2>2. JobInv'
    BY <1>1, <1>3, <1>4, <2>1 DEF JobInv, Returned, Unqueued, IsCancelled
  <2>3. PlaceInv'
    BY <1>1, <1>4 DEF PlaceInv, Placed, Returned
  <2>4. QED
    BY <2>2, <2>3
<1>5. CASE /\ ~worker_busy /\ slot = <<>>
           /\ \E job \in pending : slot' = <<job>> /\ pending' = pending \ {job}
  <2>1. PICK job \in pending : slot' = <<job>> /\ pending' = pending \ {job}
    BY <1>5
  <2>2. ~work.busy /\ Returned = {} /\ slot'[1] = job
    BY <1>5, <2>1 DEF OutInv
  <2>3. Returned' = {} /\ ~work'.busy
    BY <1>1, <2>2 DEF Returned
  <2>4. Unqueued(job.serial)'
    BY <2>1 DEF Unqueued, Serials, QueueInv
  <2>5. JobInv'
    <3>1. Sound(job)' /\ \A b \in pending' : Sound(b)'
      BY <1>3, <2>1 DEF JobInv
    <3>2. (slot # <<>> => Sound(slot[1]) /\ Unqueued(slot[1].serial))'
      BY <2>2, <2>4, <3>1
    <3>3. QED
      BY <2>3, <3>1, <3>2 DEF JobInv
  <2>6. PlaceInv'
    <3> SUFFICES ASSUME NEW c \in controls PROVE Placed(c.serial)'
      BY <1>1 DEF PlaceInv
    <3>1. PICK b \in pending : b.serial = c.serial
      BY <1>5, <2>2 DEF PlaceInv, Placed, Serials
    <3>2. CASE b = job
      BY <2>1, <2>2, <3>1, <3>2 DEF Placed
    <3>3. CASE b # job
      BY <2>1, <3>1, <3>3 DEF Placed, Serials
    <3>4. QED
      BY <3>2, <3>3
  <2>7. QED
    BY <2>5, <2>6
<1>6. QED
  BY <1>4, <1>5, ProceedEffect

\* Jobs: the worker refuses a job only if a flag is up.
LEMMA JobTakes ==
  ASSUME Typed, OutInv, JobInv, PlaceInv, WorkerTakes
  PROVE  JobInv' /\ PlaceInv'
<1>1. /\ slot # <<>> /\ slot' = <<>> /\ work'.busy /\ work'.job = slot[1]
      /\ work'.refused <=> (slot[1].id # NoId /\ IsCancelled(slot[1].serial))
      /\ UNCHANGED <<workspace, queue, inbox, asked>>
  BY TakesEffect DEF Typed
<1>2. UNCHANGED <<documents, generation, pending, controls, next_serial, cancelled, invalidated>>
  BY <1>1 DEF workspace, queue
<1>3. Returned' = {} /\ Returned = {}
  BY <1>1 DEF OutInv, Returned
<1>4. \A s, id, g : Known(s, id, g) => Known(s, id, g)'
  BY <1>1, <1>2 DEF Known, Tracked, Issued
<1>5. \A job : Sound(job) => Sound(job)'
  BY <1>2, <1>4 DEF Sound
<1>6. PICK job : job = slot[1]
  OBVIOUS
<1>7. Sound(job) /\ Unqueued(job.serial)
  BY <1>1, <1>6 DEF JobInv
<1>8. Sound(job)' /\ Unqueued(job.serial)' /\ (work'.refused => IsCancelled(job.serial)')
  BY <1>1, <1>2, <1>5, <1>6, <1>7 DEF Unqueued, IsCancelled
<1>9. (work.busy => Sound(work.job) /\ Unqueued(work.job.serial)
                        /\ (work.refused => IsCancelled(work.job.serial)))'
  BY <1>1, <1>6, <1>8
<1>10. \A b \in pending' : Sound(b)'
  BY <1>2, <1>5 DEF JobInv
<1>11. JobInv'
  BY <1>1, <1>3, <1>9, <1>10 DEF JobInv
<1>12. PlaceInv'
  BY <1>1, <1>2, <1>3 DEF PlaceInv, Placed, OutInv
<1>13. QED
  BY <1>11, <1>12

\* Jobs: the result says what was known of the job.
LEMMA JobFinishes ==
  ASSUME Typed, OutInv, JobInv, PlaceInv, Finishes
  PROVE  JobInv' /\ PlaceInv'
<1>1. PICK e \in EventType : /\ inbox' = Append(inbox, e) /\ e.serial = work.job.serial
                             /\ e.generation = work.job.snapshot.generation
                             /\ Prepared(e) \/ Analysed(e)
  BY FinishesEffect DEF Typed
<1>2. /\ work.busy /\ ~work'.busy /\ work.job \in JobType
      /\ UNCHANGED <<workspace, queue, slot, asked>>
  BY FinishesEffect DEF Typed, NoWork
<1>3. UNCHANGED <<documents, generation, pending, controls, next_serial, cancelled, invalidated>>
  BY <1>2 DEF workspace, queue
<1>4. slot = <<>> /\ Returned = {}
  BY <1>2 DEF OutInv
<1>5. e.type \in Returning
  BY <1>1 DEF Prepared, Analysed, Returning
<1>6. Returned' = {Len(inbox) + 1} /\ inbox'[Len(inbox) + 1] = e
  BY <1>1, <1>4, <1>5, OutAppend DEF Typed
<1>7. \A s, id, g : Known(s, id, g) => Known(s, id, g)'
  BY <1>2, <1>3 DEF Known, Tracked, Issued
<1>8. \A job : Sound(job) => Sound(job)'
  BY <1>3, <1>7 DEF Sound
<1>9. PICK job : job = work.job
  OBVIOUS
<1>10. Sound(job) /\ Unqueued(job.serial)
  BY <1>2, <1>9 DEF JobInv
<1>11. ResultSound(e)'
  <2>1. Sound(job)' /\ Unqueued(job.serial)' /\ e.serial = job.serial
    BY <1>1, <1>3, <1>8, <1>9, <1>10 DEF Unqueued
  <2>2. CASE Prepared(e)
    <3>1. /\ e.type = "prepared" /\ e.id = job.id /\ e.basis = job.snapshot.documents
          /\ e.generation = job.snapshot.generation
          /\ e.outcome = "cancelled" => e.serial \in cancelled \cup invalidated
      BY <1>1, <1>9, <2>2 DEF Prepared, IsCancelled
    <3>2. QED
      BY <1>3, <2>1, <3>1 DEF ResultSound, Sound
  <2>3. CASE Analysed(e)
    <3>1. /\ e.type = "analysis" /\ job.id = NoId /\ e.generation = job.snapshot.generation
          /\ \A u \in Uris : e.documents[u].present =>
                 e.documents[u].version = job.snapshot.documents[u].version
      BY <1>1, <1>9, <2>3 DEF Analysed
    <3>2. QED
      BY <1>3, <2>1, <3>1 DEF ResultSound, Sound
  <2>4. QED
    BY <1>1, <2>2, <2>3
<1>12. \A b \in pending' : Sound(b)'
  BY <1>3, <1>8 DEF JobInv
<1>13. \A i \in Returned' : ResultSound(inbox[i])'
  <2> SUFFICES ASSUME NEW i \in Returned' PROVE ResultSound(inbox[i])'
    OBVIOUS
  <2>1. inbox'[i] = e
    BY <1>6
  <2>2. QED
    BY <1>11, <2>1
<1>14. JobInv'
  BY <1>2, <1>4, <1>12, <1>13 DEF JobInv
<1>15. PlaceInv'
  <2> SUFFICES ASSUME NEW c \in controls PROVE Placed(c.serial)'
    BY <1>3 DEF PlaceInv
  <2>1. c.serial \in Serials(pending) \/ c.serial = e.serial
    BY <1>1, <1>4 DEF PlaceInv, Placed
  <2>2. CASE c.serial \in Serials(pending)
    BY <1>3, <2>2 DEF Placed
  <2>3. CASE c.serial = e.serial
    BY <1>6, <2>3 DEF Placed
  <2>4. QED
    BY <2>1, <2>2, <2>3
<1>16. QED
  BY <1>14, <1>15

\* Jobs: the reader appends an event that is no result.
LEMMA JobReader ==
  ASSUME Typed, JobInv, PlaceInv, Editor
  PROVE  JobInv' /\ PlaceInv'
<1>1. PICK e \in EventType : inbox' = Append(inbox, e) /\ ReaderKind(e)
  BY ReaderEffect DEF Typed
<1>2. e.type \notin Returning
  BY <1>1 DEF ReaderKind, Asking, Editing, Returning
<1>3. Returned' = Returned /\ \A i \in Returned : inbox'[i] = inbox[i]
  BY <1>1, <1>2, OutAppend DEF Typed
<1>4. UNCHANGED <<workspace, queue, worker, asked>>
  BY ReaderEffect DEF Typed
<1>5. UNCHANGED <<documents, generation, pending, controls, next_serial, cancelled, invalidated,
      slot, work>>
  BY <1>4 DEF workspace, queue, worker
<1>6. \A s, id, g : Known(s, id, g) => Known(s, id, g)'
  BY <1>4, <1>5 DEF Known, Tracked, Issued
<1>7. \A job : Sound(job) => Sound(job)'
  BY <1>5, <1>6 DEF Sound
<1>8. \A b : ResultSound(b) => ResultSound(b)'
  BY <1>5, <1>6 DEF ResultSound, Unqueued
<1>9. \A i \in Returned' : ResultSound(inbox[i])'
  <2> SUFFICES ASSUME NEW i \in Returned' PROVE ResultSound(inbox[i])'
    OBVIOUS
  <2>1. PICK b : b = inbox[i]
    OBVIOUS
  <2>2. ResultSound(b)' /\ inbox'[i] = b
    BY <1>3, <1>8, <2>1 DEF JobInv
  <2>3. QED
    BY <2>2
<1>10. JobInv'
  BY <1>5, <1>7, <1>9 DEF JobInv, Unqueued, IsCancelled
<1>11. PlaceInv'
  BY <1>3, <1>5 DEF PlaceInv, Placed
<1>12. QED
  BY <1>10, <1>11

\* Steps that leave the jobs and the inbox alone.
LEMMA JobStutter ==
  ASSUME JobInv, PlaceInv, UNCHANGED <<workspace, queue, worker, inbox, asked>>
  PROVE  JobInv' /\ PlaceInv'
  BY DEF JobInv, PlaceInv, workspace, queue, worker, Placed, Returned, Sound, Known, Tracked,
     Issued,
         ResultSound, Unqueued, IsCancelled

-----------------------------------------------------------------------------
(* What the editor has sent.                                               *)

\* The edits that wait in the inbox.
EditsIn == {i \in DOMAIN inbox : inbox[i].type \in Editing}

\* The handler takes up at most the request it received, and applies at most one edit.
LEMMA InboxReceive ==
  ASSUME Typed, InboxInv, NEW t, Receive(t), UNCHANGED editor,
         \A id \in Ids : asked[id].state = "no" =>
             asked'[id].state = "no" \/ (t \in Asking /\ id = Event.id),
         generation' = generation \/ (t \in Editing /\ generation' = generation + 1)
  PROVE  InboxInv'
<1>1. /\ \A i \in DOMAIN inbox' : inbox'[i] = inbox[i + 1] /\ i + 1 \in DOMAIN inbox /\ i + 1 # 1
      /\ inbox[1] = Event /\ Event.type = t /\ Event \in EventType /\ 1 \in DOMAIN inbox
      /\ Len(inbox) \in Nat /\ Len(inbox) >= 1 /\ DOMAIN inbox = 1..Len(inbox)
      /\ DOMAIN inbox' = 1..(Len(inbox) - 1) /\ inbox \in Seq(EventType)
  BY Received DEF Typed, InboxOK
<1>2. \A i \in DOMAIN inbox : inbox[i].type \in Asking => inbox[i].id \in Ids
  BY <1>1, EventShape
<1>3. \A i \in DOMAIN inbox' : inbox'[i].type \in Asking =>
           inbox'[i].id < editor'.id /\ asked'[inbox'[i].id].state = "no"
  <2> SUFFICES ASSUME NEW i \in DOMAIN inbox', inbox'[i].type \in Asking
               PROVE  inbox'[i].id < editor'.id /\ asked'[inbox'[i].id].state = "no"
    OBVIOUS
  <2>1. i + 1 \in DOMAIN inbox /\ inbox'[i] = inbox[i + 1] /\ i \in 1..(Len(inbox) - 1)
    BY <1>1
  <2>2. inbox[i + 1].id < editor.id /\ asked[inbox[i + 1].id].state = "no"
        /\ inbox[i + 1].id \in Ids
    BY <1>2, <2>1 DEF InboxInv
  <2>3. t \in Asking => inbox[i + 1].id # Event.id
    <3>1. 1 < i + 1
      BY <1>1, <2>1
    <3>2. QED
      BY <1>1, <2>1, <3>1 DEF InboxInv
  <2>4. QED
    BY <2>1, <2>2, <2>3
<1>4. \A i, j \in DOMAIN inbox' : (i < j /\ inbox'[i].type \in Asking
      /\ inbox'[j].type \in Asking)
           => inbox'[i].id # inbox'[j].id
  <2> SUFFICES ASSUME NEW i \in DOMAIN inbox', NEW j \in DOMAIN inbox', i < j,
                      inbox'[i].type \in Asking, inbox'[j].type \in Asking
               PROVE  inbox'[i].id # inbox'[j].id
    OBVIOUS
  <2>1. i + 1 \in DOMAIN inbox /\ j + 1 \in DOMAIN inbox /\ inbox'[i] = inbox[i + 1]
        /\ inbox'[j] = inbox[j + 1]
    BY <1>1
  <2>2. i + 1 < j + 1
    BY <1>1
  <2>3. QED
    BY <2>1, <2>2 DEF InboxInv
<1>5. \A id \in Ids : id >= editor'.id => asked'[id].state = "no"
  <2> SUFFICES ASSUME NEW id \in Ids, id >= editor.id PROVE asked'[id].state = "no"
    OBVIOUS
  <2>1. asked[id].state = "no"
    BY DEF InboxInv
  <2>2. t \in Asking => id # Event.id
    <3> SUFFICES ASSUME t \in Asking PROVE id # Event.id
      OBVIOUS
    <3>1. Event.id < editor.id /\ Event.id \in Ids
      BY <1>1, <1>2 DEF InboxInv
    <3>2. editor.id \in Nat /\ Event.id \in Nat /\ id \in Nat
      BY <3>1, Constants DEF Typed, EditorOK
    <3>3. QED
      BY <3>1, <3>2
  <2>3. QED
    BY <2>1, <2>2
<1>6. generation' + Cardinality(EditsIn') <= editor'.edits
  <2>1. EditsIn \in SUBSET (1..Len(inbox)) /\ (1 \in EditsIn <=> t \in Editing)
    BY <1>1 DEF EditsIn
  <2>2. EditsIn' = {i \in 1..(Len(inbox) - 1) : i + 1 \in EditsIn}
    BY <1>1 DEF EditsIn
  <2>3. Cardinality(EditsIn') = Cardinality(EditsIn) - (IF 1 \in EditsIn THEN 1 ELSE 0)
        /\ IsFiniteSet(EditsIn)
    <3>1. Len(inbox) \in Nat /\ Len(inbox) > 0
      BY <1>1
    <3>2. QED
      BY <2>1, <2>2, <3>1, Counted
  <2>4. Cardinality(EditsIn) \in Nat
    BY <2>3, FS_CardinalityType
  <2>5. generation + Cardinality(EditsIn) <= editor.edits
    BY DEF InboxInv, EditsIn
  <2>6. generation \in Nat /\ editor.edits \in Nat
    BY Constants DEF Typed, WorkspaceOK, EditorOK
  <2>7. QED
    BY <2>1, <2>3, <2>4, <2>5, <2>6
<1>7. QED
  BY <1>3, <1>4, <1>5, <1>6 DEF InboxInv, EditsIn

\* The reader uses a new id for every request and counts every edit.
LEMMA InboxAppend ==
  ASSUME Typed, InboxInv, NEW e \in EventType, inbox' = Append(inbox, e),
         UNCHANGED <<asked, generation>>,
         ReaderKind(e) \/ (UNCHANGED editor /\ e.type \in Returning)
  PROVE  InboxInv'
<1> DEFINE n == Len(inbox)
<1>1. /\ inbox \in Seq(EventType) /\ n \in Nat /\ DOMAIN inbox = 1..n
         /\ DOMAIN inbox' = 1..(n + 1)
      /\ \A i \in DOMAIN inbox : inbox'[i] = inbox[i] /\ i # n + 1
      /\ inbox'[n + 1] = e
  BY Added DEF Typed, InboxOK
<1>2. editor.id \in Nat /\ editor.edits \in Nat /\ generation \in Nat
  BY Constants DEF Typed, WorkspaceOK, EditorOK
<1>3. /\ editor'.id \in Nat /\ editor'.id >= editor.id
      /\ e.type \in Asking => e.id = editor.id /\ editor'.id = editor.id + 1 /\ e.id \in Ids
      /\ e.type \in Editing => editor'.edits = editor.edits + 1
      /\ e.type \notin Editing => editor'.edits = editor.edits
  <2>1. e.type \in Asking => e.id \in Ids
    BY EventShape
  <2>2. QED
    BY <1>2, <2>1 DEF ReaderKind, Asking, Editing, Returning
<1>4. \A i \in DOMAIN inbox : inbox[i].type \in Asking => inbox[i].id \in Ids
      /\ inbox[i].id \in Nat
  <2> SUFFICES ASSUME NEW i \in DOMAIN inbox, inbox[i].type \in Asking
               PROVE  inbox[i].id \in Ids /\ inbox[i].id \in Nat
    OBVIOUS
  <2>1. inbox[i] \in EventType
    BY <1>1
  <2>2. inbox[i].id \in Ids
    BY <2>1, EventShape
  <2>3. QED
    BY <2>2, Constants
<1> HIDE DEF n
<1>5. \A i \in DOMAIN inbox' : inbox'[i].type \in Asking =>
           inbox'[i].id < editor'.id /\ asked'[inbox'[i].id].state = "no"
  <2> SUFFICES ASSUME NEW i \in DOMAIN inbox', inbox'[i].type \in Asking
               PROVE  inbox'[i].id < editor'.id /\ asked'[inbox'[i].id].state = "no"
    OBVIOUS
  <2>1. CASE i \in DOMAIN inbox
    <3>1. inbox[i].id < editor.id /\ asked[inbox[i].id].state = "no" /\ inbox[i].id \in Nat
      BY <1>1, <1>4, <2>1 DEF InboxInv
    <3>2. QED
      BY <1>1, <1>2, <1>3, <2>1, <3>1
  <2>2. CASE i = n + 1
    <3>1. e.id = editor.id /\ editor'.id = editor.id + 1 /\ e.id \in Ids
      BY <1>1, <1>3, <2>2
    <3>2. asked[e.id].state = "no"
      BY <1>2, <3>1 DEF InboxInv
    <3>3. QED
      BY <1>1, <1>2, <2>2, <3>1, <3>2
  <2>3. QED
    BY <1>1, <2>1, <2>2
<1>6. \A i, j \in DOMAIN inbox' : (i < j /\ inbox'[i].type \in Asking
      /\ inbox'[j].type \in Asking)
           => inbox'[i].id # inbox'[j].id
  <2> SUFFICES ASSUME NEW i \in DOMAIN inbox', NEW j \in DOMAIN inbox', i < j,
                      inbox'[i].type \in Asking, inbox'[j].type \in Asking
               PROVE  inbox'[i].id # inbox'[j].id
    OBVIOUS
  <2>1. i \in DOMAIN inbox
    BY <1>1
  <2>2. CASE j \in DOMAIN inbox
    BY <1>1, <2>1, <2>2 DEF InboxInv
  <2>3. CASE j = n + 1
    <3>1. e.id = editor.id
      BY <1>1, <1>3, <2>3
    <3>2. inbox[i].id < editor.id /\ inbox[i].id \in Nat
      BY <1>1, <1>4, <2>1 DEF InboxInv
    <3>3. inbox[i].id # e.id
      BY <1>2, <3>1, <3>2
    <3>4. QED
      BY <1>1, <2>1, <2>3, <3>3
  <2>4. QED
    BY <1>1, <2>2, <2>3
<1>7. \A id \in Ids : id >= editor'.id => asked'[id].state = "no"
  <2> SUFFICES ASSUME NEW id \in Ids, id >= editor'.id PROVE asked[id].state = "no"
    OBVIOUS
  <2>1. id \in Nat
    BY Constants
  <2>2. id >= editor.id
    BY <1>2, <1>3, <2>1
  <2>3. QED
    BY <2>2 DEF InboxInv
<1>8. generation' + Cardinality(EditsIn') <= editor'.edits
  <2>1. generation + Cardinality(EditsIn) <= editor.edits
    BY DEF InboxInv, EditsIn
  <2>2. IsFiniteSet(EditsIn) /\ Cardinality(EditsIn) \in Nat /\ n + 1 \notin EditsIn
    <3>1. EditsIn \subseteq 1..n /\ IsFiniteSet(1..n)
      <4>1. 1 \in Int /\ n \in Int
        BY <1>1
      <4>2. IsFiniteSet(1..n)
        BY <4>1, FS_Interval
      <4>3. QED
        BY <1>1, <4>2 DEF EditsIn
    <3>2. QED
      BY <1>1, <3>1, FS_Subset, FS_CardinalityType DEF EditsIn
  <2>3. CASE e.type \in Editing
    <3>1. EditsIn' = EditsIn \cup {n + 1}
      BY <1>1, <2>3 DEF EditsIn
    <3>2. Cardinality(EditsIn') = Cardinality(EditsIn) + 1
      BY <2>2, <3>1, FS_AddElement
    <3>3. QED
      BY <1>2, <1>3, <2>1, <2>2, <2>3, <3>2
  <2>4. CASE e.type \notin Editing
    <3>1. EditsIn' = EditsIn
      BY <1>1, <2>4 DEF EditsIn
    <3>2. QED
      BY <1>2, <1>3, <2>1, <2>4, <3>1
  <2>5. QED
    BY <2>3, <2>4
<1>9. QED
  BY <1>5, <1>6, <1>7, <1>8 DEF InboxInv, EditsIn

\* Steps that leave the inbox and the requests alone.
LEMMA InboxStutter ==
  ASSUME InboxInv, UNCHANGED <<inbox, editor, asked, generation>>
  PROVE  InboxInv'
  BY DEF InboxInv

\* A handler that takes a request up leaves the other requests alone.
LEMMA TakenUpOthers ==
  ASSUME Typed, NEW t \in Asking, Receive(t), TakeUp(Event.id)
  PROVE  \A id \in Ids : asked[id].state = "no" =>
             asked'[id].state = "no" \/ (t \in Asking /\ id = Event.id)
<1>1. Event.id \in Ids
  BY Received, EventShape DEF Typed
<1>2. QED
  BY <1>1, TakenUp DEF Typed

-----------------------------------------------------------------------------
(* Requests and their answers.                                             *)

\* Nothing is being written while the coordinator takes an event.
LEMMA Idle ==
  ASSUME ViewInv, pc = "receive"
  PROVE  outbox = <<>> /\ (\A id : ~Due(id)) /\ \A u \in Uris : Shows(view[u], published[u])
<1>1. outbox = <<>> /\ DOMAIN outbox = {}
  BY DEF ViewInv
<1>2. QED
  BY <1>1 DEF ViewInv, Due, Publishing

\* No answer is about to be written.
NoAnswers == \A i \in DOMAIN outbox : ~Answers(i)

\* A step that answers nothing and keeps every tracked request.
LEMMA RequestIdle ==
  ASSUME Typed, RequestInv, \A id : ~Due(id), NoAnswers', UNCHANGED <<asked, answer, cancelled>>,
         \A c \in controls' : c \in controls \/ c.id = NoId,
         \A c \in controls : c.id # NoId => c \in controls'
  PROVE  RequestInv'
<1>1. \A id \in Ids : ~Due(id)' /\ id # NoId
  BY Constants DEF NoAnswers, Due
<1>2. \A id \in Ids : Awaited(id)' <=> Awaited(id)
  BY <1>1 DEF Awaited
<1>3. \A c, d \in controls' : c.id = d.id /\ c.id # NoId => c = d
  BY DEF RequestInv
<1>4. \A i, j \in DOMAIN outbox' :
           (Answers(i)' /\ Answers(j)' /\ outbox'[i].id = outbox'[j].id) => i = j
  BY DEF NoAnswers
<1>5. \A c \in controls' : c.id # NoId
      => (asked'[c.id].state = "revoked" <=> c.serial \in cancelled')
  BY DEF RequestInv
<1>6. \A id \in Ids :
           /\ asked'[id].state = "no" => ~Awaited(id)' /\ ~Due(id)' /\ answer'[id] = <<>>
           /\ asked'[id].state # "no" => Awaited(id)' \/ Due(id)' \/ Len(answer'[id]) = 1
           /\ Awaited(id)' => ~Due(id)' /\ answer'[id] = <<>>
           /\ Due(id)' => answer'[id] = <<>>
  BY <1>1, <1>2 DEF RequestInv
<1>7. QED
  BY <1>3, <1>4, <1>5, <1>6 DEF RequestInv, Answers

\* A request is answered at once, and by nothing else.
LEMMA RequestQuick ==
  ASSUME Typed, InboxInv, RequestInv, ViewInv, Quick
  PROVE  RequestInv' /\ AnswerInv'
<1>1. PICK t \in Asking, kind \in {"initialized", "refused"} : Receive(t)
      /\ AnswersNow(Event.id, kind)
  BY DEF Quick
<1>2. PICK k : k = Event.id
  OBVIOUS
<1>3. /\ k \in Ids /\ asked[k].state = "no" /\ ~Awaited(k) /\ answer[k] = <<>> /\ k # NoId
      /\ \A c \in controls : c.id # k
  BY <1>1, <1>2, NotTracked DEF Typed
<1>4. /\ asked'[k].state = "open" /\ \A id \in Ids : id # k => asked'[id] = asked[id]
  BY <1>1, <1>2, <1>3, TakenUp DEF Typed, AnswersNow
<1>5. UNCHANGED <<controls, cancelled, answer>>
  BY <1>1 DEF AnswersNow, queue, client
<1>6. /\ outbox' = <<Reply(k, kind)>>
      /\ lifecycle' = IF kind = "initialized" THEN "running" ELSE lifecycle
  BY <1>1, <1>2 DEF AnswersNow, Act
<1>7. PICK m : m = Reply(k, kind)
  OBVIOUS
<1>8. m.type = "response" /\ m.id = k /\ m.kind = kind /\ m.basis = NoDocuments
  BY <1>1, <1>3, <1>7, ReplyIn DEF Kinds
<1>9. outbox' = <<m>> /\ DOMAIN outbox' = {1} /\ outbox'[1] = m /\ Len(outbox') = 1
  BY <1>6, <1>7
<1>10. Answers(1)' /\ \A id : Due(id)' <=> id = k
  BY <1>3, <1>8, <1>9 DEF Answers, Due
<1>11. pc = "receive" /\ \A id : ~Due(id)
  BY <1>1, Received, Idle DEF Typed
<1>12. \A id \in Ids : Awaited(id)' <=> Awaited(id)
  BY <1>5 DEF Awaited
<1>13. RequestInv'
  <2>1. \A c, d \in controls' : c.id = d.id /\ c.id # NoId => c = d
    BY <1>5 DEF RequestInv
  <2>2. \A i, j \in DOMAIN outbox' :
           (Answers(i)' /\ Answers(j)' /\ outbox'[i].id = outbox'[j].id) => i = j
    BY <1>9
  <2>3. \A c \in controls' : c.id # NoId
        => (asked'[c.id].state = "revoked" <=> c.serial \in cancelled')
    BY <1>3, <1>4, <1>5 DEF RequestInv, Typed, QueueOK
  <2>4. \A id \in Ids :
           /\ asked'[id].state = "no" => ~Awaited(id)' /\ ~Due(id)' /\ answer'[id] = <<>>
           /\ asked'[id].state # "no" => Awaited(id)' \/ Due(id)' \/ Len(answer'[id]) = 1
           /\ Awaited(id)' => ~Due(id)' /\ answer'[id] = <<>>
           /\ Due(id)' => answer'[id] = <<>>
    <3> SUFFICES ASSUME NEW id \in Ids
                 PROVE  /\ asked'[id].state = "no" => ~Awaited(id)' /\ ~Due(id)'
                           /\ answer'[id] = <<>>
                        /\ asked'[id].state # "no" => Awaited(id)' \/ Due(id)'
                           \/ Len(answer'[id]) = 1
                        /\ Awaited(id)' => ~Due(id)' /\ answer'[id] = <<>>
                        /\ Due(id)' => answer'[id] = <<>>
      OBVIOUS
    <3>1. CASE id = k
      BY <1>3, <1>4, <1>5, <1>10, <1>12, <3>1
    <3>2. CASE id # k
      <4>1. /\ asked[id].state = "no" => ~Awaited(id) /\ answer[id] = <<>>
            /\ asked[id].state # "no" => Awaited(id) \/ Len(answer[id]) = 1
            /\ Awaited(id) => answer[id] = <<>>
        BY <1>11 DEF RequestInv
      <4>2. QED
        BY <1>4, <1>5, <1>10, <1>12, <3>2, <4>1
    <3>3. QED
      BY <3>1, <3>2
  <2>5. QED
    BY <2>1, <2>2, <2>3, <2>4 DEF RequestInv, Answers
<1>14. AnswerInv'
  <2>1. TrueAnswer(m)'
    BY <1>1, <1>4, <1>6, <1>8 DEF TrueAnswer, NoDocuments
  <2>2. m.kind # "shutdown"
    BY <1>1, <1>8
  <2>3. QED
    BY <1>9, <2>1, <2>2 DEF AnswerInv
<1>15. QED
  BY <1>13, <1>14

\* An output without answers has no false one.
LEMMA AnswerNone ==
  ASSUME NoAnswers'
  PROVE  AnswerInv'
  BY DEF NoAnswers, AnswerInv, Answers

\* What a handler computes when it answers nothing.
LEMMA Silent ==
  ASSUME outbox' = <<>> \/ outbox' = <<Reply(NoId, "refused")>>
  PROVE  NoAnswers' /\ \A u : ~Publishing(u)'
         /\ \A i \in DOMAIN outbox' : outbox'[i].type # "publish"
<1>1. CASE outbox' = <<>>
  BY <1>1 DEF NoAnswers, Publishing
<1>2. CASE outbox' = <<Reply(NoId, "refused")>>
  <2>1. DOMAIN outbox' = {1} /\ outbox'[1] = Reply(NoId, "refused")
    BY <1>2
  <2>2. Reply(NoId, "refused").id = NoId /\ Reply(NoId, "refused").type = "response"
    BY ReplyIn DEF Kinds
  <2>3. QED
    BY <2>1, <2>2 DEF NoAnswers, Publishing, Answers
<1>3. QED
  BY <1>1, <1>2

\* A queued request is tracked, once.
LEMMA RequestQueueRequest ==
  ASSUME Typed, QueueInv, InboxInv, RequestInv, ViewInv, QueueRequest
  PROVE  RequestInv' /\ AnswerInv'
<1>1. Receive("request") /\ "request" \in Asking /\ TakeUp(Event.id)
  BY DEF QueueRequest, Asking
<1>2. PICK k, c0 : k = Event.id /\ c0 = Control(next_serial, k)
  OBVIOUS
<1>3. /\ k \in Ids /\ asked[k].state = "no" /\ ~Awaited(k) /\ answer[k] = <<>> /\ k # NoId
      /\ \A c \in controls : c.id # k
  BY <1>1, <1>2, NotTracked DEF Typed
<1>4. /\ asked'[k].state = "open" /\ \A id \in Ids : id # k => asked'[id] = asked[id]
  BY <1>1, <1>2, <1>3, TakenUp DEF Typed
<1>5. UNCHANGED <<cancelled, answer>> /\ controls' = controls \cup {c0} /\ outbox' = <<>>
  BY <1>2 DEF QueueRequest, client, Act
<1>6. c0.id = k /\ c0.serial = next_serial /\ next_serial \notin cancelled
  BY <1>2 DEF Control, QueueInv, Issued, Typed, QueueOK
<1>7. NoAnswers' /\ \A id : ~Due(id)'
  BY <1>5, Silent DEF NoAnswers, Due
<1>8. pc = "receive" /\ \A id : ~Due(id)
  BY <1>1, Received, Idle DEF Typed
<1>9. \A id \in Ids : Awaited(id)' <=> Awaited(id) \/ id = k
  BY <1>5, <1>6 DEF Awaited
<1>10. RequestInv'
  <2>1. \A c, d \in controls' : c.id = d.id /\ c.id # NoId => c = d
    BY <1>3, <1>5, <1>6 DEF RequestInv
  <2>2. \A i, j \in DOMAIN outbox' :
           (Answers(i)' /\ Answers(j)' /\ outbox'[i].id = outbox'[j].id) => i = j
    BY <1>7 DEF NoAnswers
  <2>3. ASSUME NEW c \in controls', c.id # NoId
               PROVE asked'[c.id].state = "revoked" <=> c.serial \in cancelled'
    <3>1. CASE c = c0
      BY <1>4, <1>5, <1>6, <3>1
    <3>2. CASE c \in controls
      <4>1. asked'[c.id] = asked[c.id]
        BY <1>3, <1>4, <2>3, <3>2 DEF Typed, QueueOK
      <4>2. QED
        BY <1>5, <2>3, <3>2, <4>1 DEF RequestInv
    <3>3. QED
      BY <1>5, <2>3, <3>1, <3>2
  <2>4. ASSUME NEW id \in Ids
        PROVE  /\ asked'[id].state = "no" => ~Awaited(id)' /\ ~Due(id)' /\ answer'[id] = <<>>
               /\ asked'[id].state # "no" => Awaited(id)' \/ Due(id)' \/ Len(answer'[id]) = 1
               /\ Awaited(id)' => ~Due(id)' /\ answer'[id] = <<>>
               /\ Due(id)' => answer'[id] = <<>>
    <3>1. CASE id = k
      BY <1>3, <1>4, <1>5, <1>7, <1>9, <3>1
    <3>2. CASE id # k
      <4>1. /\ asked[id].state = "no" => ~Awaited(id) /\ answer[id] = <<>>
            /\ asked[id].state # "no" => Awaited(id) \/ Len(answer[id]) = 1
            /\ Awaited(id) => answer[id] = <<>>
        BY <1>8 DEF RequestInv
      <4>2. QED
        BY <1>4, <1>5, <1>7, <1>9, <3>2, <4>1
    <3>3. QED
      BY <3>1, <3>2
  <2>5. QED
    BY <2>1, <2>2, <2>3, <2>4 DEF RequestInv, Answers
<1>11. QED
  BY <1>7, <1>10, AnswerNone

\* A tracked request is revoked exactly when its control is cancelled.
LEMMA RequestCancelRequest ==
  ASSUME Typed, QueueInv, RequestInv, ViewInv, CancelRequest
  PROVE  RequestInv' /\ AnswerInv'
<1>1. Receive("cancel")
  BY DEF CancelRequest
<1>2. PICK k, tracked : k = Event.id /\ tracked = {c \in controls : c.id = k}
  OBVIOUS
<1>3. k \in Ids /\ k # NoId
  BY <1>1, <1>2, Received, EventShape, Constants DEF Typed
<1>4. /\ cancelled' = cancelled \cup Serials(tracked)
      /\ asked' = [asked EXCEPT ![k].state = IF tracked # {} THEN "revoked" ELSE @]
      /\ UNCHANGED <<controls, answer>> /\ outbox' = <<>>
  BY <1>2 DEF CancelRequest, client, Act
<1>5. /\ \A id \in Ids : id # k => asked'[id] = asked[id]
      /\ tracked = {} => asked'[k] = asked[k]
      /\ tracked # {} => asked'[k].state = "revoked"
  BY <1>3, <1>4 DEF Typed, ClientOK
<1>6. NoAnswers' /\ \A id : ~Due(id)'
  BY <1>4, Silent DEF NoAnswers, Due
<1>7. pc = "receive" /\ \A id : ~Due(id)
  BY <1>1, Received, Idle DEF Typed
<1>8. (\A id \in Ids : Awaited(id)' <=> Awaited(id)) /\ (tracked # {} <=> Awaited(k))
  BY <1>2, <1>4 DEF Awaited
<1>9. ASSUME NEW c \in controls, c.id # NoId
             PROVE asked'[c.id].state = "revoked" <=> c.serial \in cancelled'
  <2>1. c.id \in Ids
    BY <1>9 DEF Typed, QueueOK
  <2>2. asked[c.id].state = "revoked" <=> c.serial \in cancelled
    BY <1>9 DEF RequestInv
  <2>3. CASE c.id = k
    BY <1>2, <1>4, <1>5, <2>3 DEF Serials
  <2>4. CASE c.id # k
    <3>1. \A d \in tracked : d.serial # c.serial
      BY <1>2, <2>4 DEF QueueInv
    <3>2. c.serial \notin Serials(tracked)
      BY <3>1 DEF Serials
    <3>3. QED
      BY <1>4, <1>5, <2>1, <2>2, <2>4, <3>2
  <2>5. QED
    BY <2>3, <2>4
<1>10. ASSUME NEW id \in Ids
       PROVE  /\ asked'[id].state = "no" => ~Awaited(id)' /\ ~Due(id)' /\ answer'[id] = <<>>
              /\ asked'[id].state # "no" => Awaited(id)' \/ Due(id)' \/ Len(answer'[id]) = 1
              /\ Awaited(id)' => ~Due(id)' /\ answer'[id] = <<>>
              /\ Due(id)' => answer'[id] = <<>>
  <2>1. /\ asked[id].state = "no" => ~Awaited(id) /\ answer[id] = <<>>
        /\ asked[id].state # "no" => Awaited(id) \/ Len(answer[id]) = 1
        /\ Awaited(id) => answer[id] = <<>>
    BY <1>7 DEF RequestInv
  <2>2. asked'[id].state = "no" <=> asked[id].state = "no"
    BY <1>5, <1>8, <2>1
  <2>3. QED
    BY <1>4, <1>6, <1>8, <2>1, <2>2
<1>11. \A i, j \in DOMAIN outbox' :
           (Answers(i)' /\ Answers(j)' /\ outbox'[i].id = outbox'[j].id) => i = j
  BY <1>6 DEF NoAnswers
<1>12. RequestInv'
  BY <1>4, <1>9, <1>10, <1>11 DEF RequestInv, Answers
<1>13. QED
  BY <1>6, <1>12, AnswerNone

\* The answers of a shutdown: one per tracked request, and its own at the end.
LEMMA RequestShutdown ==
  ASSUME Typed, QueueInv, InboxInv, RequestInv, ViewInv, Shutdown, lifecycle = "running"
  PROVE  RequestInv' /\ AnswerInv'
<1>1. Receive("shutdown") /\ "shutdown" \in Asking /\ TakeUp(Event.id)
  BY DEF Shutdown, Asking
<1>2. PICK k, n, s, q, last : /\ k = Event.id /\ n = Cardinality(Requested)
      /\ s = InOrder(Requested)
                              /\ q = CancelPendingRequests /\ last = Reply(k, "shutdown")
  OBVIOUS
<1>3. /\ k \in Ids /\ asked[k].state = "no" /\ ~Awaited(k) /\ answer[k] = <<>> /\ k # NoId
      /\ \A c \in controls : c.id # k
  BY <1>1, <1>2, NotTracked DEF Typed
<1>4. /\ asked'[k].state = "open" /\ \A id \in Ids : id # k => asked'[id] = asked[id]
  BY <1>1, <1>2, <1>3, TakenUp DEF Typed
<1>5. /\ UNCHANGED answer /\ controls' = {} /\ outbox' = Append(q, last)
         /\ lifecycle' = "shutdown"
  BY <1>2 DEF Shutdown, client, Act
<1>6. /\ q \in Seq(MessageType) /\ n \in Nat /\ Len(q) = n /\ s \in [1..n -> Requested]
      /\ \A i \in 1..n : q[i] = Reply(s[i].id, "cancelled")
      /\ \A c \in Requested : \E i \in 1..n : s[i] = c
      /\ \A i, j \in 1..n : s[i] = s[j] => i = j
  BY <1>2, CancelsOf
<1>7. last.type = "response" /\ last.id = k /\ last.kind = "shutdown" /\ last.basis = NoDocuments
      /\ last \in MessageType
  BY <1>2, <1>3, ReplyIn DEF Kinds
<1>8. /\ DOMAIN outbox' = 1..(n + 1) /\ Len(outbox') = n + 1 /\ outbox'[n + 1] = last
      /\ \A i \in 1..n : outbox'[i] = q[i] /\ i # n + 1
  BY <1>5, <1>6, <1>7, Added
<1>9. \A i \in 1..n : s[i] \in controls /\ s[i].id \in Ids /\ s[i].id # k
  BY <1>3, <1>6 DEF Requested, Typed, QueueOK
<1>10. \A i \in 1..n : /\ outbox'[i].type = "response" /\ outbox'[i].id = s[i].id
                       /\ outbox'[i].kind = "cancelled" /\ outbox'[i].basis = NoDocuments
  BY <1>6, <1>8, <1>9, ReplyIn DEF Kinds
<1>11. \A i \in DOMAIN outbox' : Answers(i)' /\ (i \in 1..n \/ i = n + 1)
  BY <1>3, <1>6, <1>7, <1>8, <1>9, <1>10, Constants DEF Answers
<1>12. \A i, j \in DOMAIN outbox' : outbox'[i].id = outbox'[j].id => i = j
  <2> SUFFICES ASSUME NEW i \in DOMAIN outbox', NEW j \in DOMAIN outbox',
      outbox'[i].id = outbox'[j].id
               PROVE  i = j
    OBVIOUS
  <2>1. CASE i \in 1..n /\ j \in 1..n
    <3>1. s[i] \in controls /\ s[j] \in controls /\ s[i].id = s[j].id /\ s[i].id # NoId
      BY <1>9, <1>10, <2>1, Constants
    <3>2. s[i] = s[j]
      BY <3>1 DEF RequestInv
    <3>3. QED
      BY <1>6, <2>1, <3>2
  <2>2. CASE i \in 1..n /\ j = n + 1
    BY <1>7, <1>8, <1>9, <1>10, <2>2
  <2>3. CASE j \in 1..n /\ i = n + 1
    BY <1>7, <1>8, <1>9, <1>10, <2>3
  <2>4. QED
    BY <1>11, <2>1, <2>2, <2>3
<1>13. pc = "receive" /\ \A id : ~Due(id)
  BY <1>1, Received, Idle DEF Typed
<1>14. \A id \in Ids : ~Awaited(id)'
  BY <1>5 DEF Awaited
<1>15. \A id \in Ids : Due(id)' <=> Awaited(id) \/ id = k
  <2> SUFFICES ASSUME NEW id \in Ids PROVE Due(id)' <=> Awaited(id) \/ id = k
    OBVIOUS
  <2>1. ASSUME Awaited(id) PROVE Due(id)'
    <3>1. PICK c \in controls : c.id = id
      BY <2>1 DEF Awaited
    <3>2. c \in Requested
      BY <3>1, Constants DEF Requested
    <3>3. PICK i \in 1..n : s[i] = c
      BY <1>6, <3>2
    <3>4. i \in DOMAIN outbox' /\ outbox'[i].id = id
      BY <1>6, <1>8, <1>10, <3>1, <3>3
    <3>5. QED
      BY <1>11, <3>4 DEF Due, Answers
  <2>2. id = k => Due(id)'
    <3>1. n + 1 \in DOMAIN outbox'
      BY <1>6, <1>8
    <3>2. QED
      BY <1>7, <1>8, <1>11, <3>1 DEF Due, Answers
  <2>3. ASSUME Due(id)' PROVE Awaited(id) \/ id = k
    <3>1. PICK i \in DOMAIN outbox' : outbox'[i].id = id
      BY <2>3 DEF Due
    <3>2. CASE i \in 1..n
      BY <1>9, <1>10, <3>1, <3>2 DEF Awaited
    <3>3. CASE i = n + 1
      BY <1>7, <1>8, <3>1, <3>3
    <3>4. QED
      BY <1>11, <3>2, <3>3
  <2>4. QED
    BY <2>1, <2>2, <2>3
<1>16. ASSUME NEW id \in Ids
       PROVE  /\ asked'[id].state = "no" => ~Awaited(id)' /\ ~Due(id)' /\ answer'[id] = <<>>
              /\ asked'[id].state # "no" => Awaited(id)' \/ Due(id)' \/ Len(answer'[id]) = 1
              /\ Awaited(id)' => ~Due(id)' /\ answer'[id] = <<>>
              /\ Due(id)' => answer'[id] = <<>>
  <2>1. /\ asked[id].state = "no" => ~Awaited(id) /\ answer[id] = <<>>
        /\ asked[id].state # "no" => Awaited(id) \/ Len(answer[id]) = 1
        /\ Awaited(id) => answer[id] = <<>>
    BY <1>13 DEF RequestInv
  <2>2. CASE id = k
    BY <1>3, <1>4, <1>5, <1>14, <1>15, <2>2
  <2>3. CASE id # k
    BY <1>4, <1>5, <1>14, <1>15, <2>1, <2>3
  <2>4. QED
    BY <2>2, <2>3
<1>17. RequestInv'
  <2>1. \A i, j \in DOMAIN outbox' :
           (Answers(i)' /\ Answers(j)' /\ outbox'[i].id = outbox'[j].id) => i = j
    BY <1>12
  <2>2. QED
    BY <1>5, <1>16, <2>1 DEF RequestInv, Answers
<1>18. AnswerInv'
  <2>1. ASSUME NEW i \in DOMAIN outbox'
        PROVE  TrueAnswer(outbox[i])' /\ (outbox'[i].kind = "shutdown" => i = Len(outbox'))
    <3>1. CASE i \in 1..n
      BY <1>5, <1>10, <3>1 DEF TrueAnswer, NoDocuments
    <3>2. CASE i = n + 1
      BY <1>5, <1>7, <1>8, <3>2 DEF TrueAnswer, NoDocuments
    <3>3. QED
      BY <1>11, <2>1, <3>1, <3>2
  <2>2. QED
    BY <2>1 DEF AnswerInv
<1>19. QED
  BY <1>17, <1>18

\* An edit loses no request: only diagnostics jobs are dropped.
LEMMA RequestEdit ==
  ASSUME Typed, QueueInv, RequestInv, ViewInv, Edit
  PROVE  RequestInv' /\ AnswerInv'
<1>1. /\ \E t \in Editing : Receive(t)
      /\ Act(<<>>, "start") /\ UNCHANGED <<asked, client>>
  BY EditEffect DEF Typed
<1>2. \A id : ~Due(id)
  BY <1>1, Received, Idle DEF Typed
<1>3. NoAnswers' /\ answer' = answer
  BY <1>1, Silent DEF Act, client
<1>4. CASE UNCHANGED <<workspace, queue>>
  BY <1>1, <1>2, <1>3, <1>4, RequestIdle, AnswerNone DEF queue
<1>5. CASE \E docs : Replaces(docs) /\ WorkspaceChanged(docs)
  <2>1. PICK docs : WorkspaceChanged(docs)
    BY <1>5
  <2>2. controls' = Kept \cup {NewControl} /\ cancelled' = cancelled
    BY <2>1, ChangeEffect
  <2>3. \A c \in controls' : c \in controls \/ c.id = NoId
    BY <2>2 DEF Kept, NewControl, Control
  <2>4. \A c \in controls : c.id # NoId => c \in controls'
    <3> SUFFICES ASSUME NEW c \in controls, c.id # NoId PROVE c \in Kept
      BY <2>2
    <3>1. ASSUME NEW job \in pending, IsDiagnostics(job), job.serial = c.serial PROVE FALSE
      <4>1. Control(job.serial, job.id) \in controls /\ job.id = NoId
        BY <3>1 DEF QueueInv, IsDiagnostics
      <4>2. Control(job.serial, job.id).serial = c.serial /\ Control(job.serial, job.id).id = NoId
        BY <3>1, <4>1 DEF Control
      <4>3. QED
        BY <4>1, <4>2 DEF QueueInv
    <3>2. QED
      BY <3>1 DEF Kept, Serials
  <2>5. QED
    BY <1>1, <1>2, <1>3, <2>2, <2>3, <2>4, RequestIdle, AnswerNone
<1>6. QED
  BY <1>4, <1>5, EditEffect DEF Typed

\* A notification answers no request.
LEMMA RequestNote ==
  ASSUME Typed, RequestInv, ViewInv, ExitNotification \/ ParseError
  PROVE  RequestInv' /\ AnswerInv'
<1>1. /\ \E t : Receive(t)
      /\ outbox' = <<>> \/ outbox' = <<Reply(NoId, "refused")>>
      /\ UNCHANGED <<queue, asked, client>>
  BY DEF ExitNotification, ParseError, Act
<1>2. \A id : ~Due(id)
  BY <1>1, Received, Idle DEF Typed
<1>3. NoAnswers' /\ UNCHANGED <<answer, controls, cancelled>>
  BY <1>1, Silent DEF client, queue
<1>4. QED
  BY <1>1, <1>2, <1>3, RequestIdle, AnswerNone

\* The answer of a result is true when it is computed, and its request is no longer tracked.
LEMMA RequestCompleteRequest ==
  ASSUME Typed, QueueInv, OutInv, JobInv, RequestInv, ViewInv, CompleteRequest
  PROVE  RequestInv' /\ AnswerInv'
<1>1. Receive("prepared") /\ UNCHANGED <<lifecycle, documents, generation, cancelled, asked,
      answer>>
  BY DEF CompleteRequest, workspace, client
<1>2. \A id : ~Due(id)
  BY <1>1, Received, Idle DEF Typed
<1>3. PICK e : e = Event
  OBVIOUS
<1>4. /\ e \in EventType /\ e.type = "prepared" /\ ResultSound(e) /\ e.id \in Ids /\ e.id # NoId
      /\ e.outcome \in {"ok", "failed", "cancelled"}
  <2>1. Event = inbox[1] /\ 1 \in DOMAIN inbox /\ Event \in EventType /\ Event.type = "prepared"
    BY <1>1, Received DEF Typed
  <2>2. ResultSound(Event)
    BY <2>1 DEF JobInv, Returned, Returning
  <2>3. QED
    BY <1>3, <2>1, <2>2, EventShape, Constants
<1>5. /\ Known(e.serial, e.id, e.generation)
      /\ e.generation = generation => e.basis = documents
      /\ e.outcome = "cancelled" => e.serial \in cancelled \cup invalidated
  BY <1>4 DEF ResultSound
<1>6. /\ controls' = {c \in controls : c.serial # e.serial}
      /\ outbox' = IF Tracked(e.serial) THEN <<Finish(e)>> ELSE <<>>
  BY <1>3 DEF CompleteRequest, Untrack, Act
<1>7. CASE ~Tracked(e.serial)
  <2>1. controls' = controls
    BY <1>6, <1>7 DEF Tracked, Serials
  <2>2. NoAnswers'
    BY <1>6, <1>7, Silent
  <2>3. QED
    BY <1>1, <1>2, <2>1, <2>2, RequestIdle, AnswerNone
<1>8. CASE Tracked(e.serial)
  <2>1. PICK c \in controls : c.serial = e.serial
    BY <1>8 DEF Tracked, Serials
  <2>2. c.id = e.id /\ Awaited(e.id) /\ lifecycle = "running"
    BY <1>5, <2>1 DEF Known, Awaited, QueueInv
  <2>3. asked[e.id].state = "revoked" <=> e.serial \in cancelled
    BY <1>4, <2>1, <2>2 DEF RequestInv
  <2>4. controls' = controls \ {c}
    BY <1>6, <2>1 DEF QueueInv
  <2>5. \A d \in controls' : d.id # e.id
    BY <1>4, <2>1, <2>2, <2>4 DEF RequestInv
  <2>6. PICK m : m = Finish(e)
    OBVIOUS
  <2>7. /\ m.type = "response" /\ m.id = e.id
           /\ m.kind \in {"ok", "failed", "modified", "cancelled"}
        /\ e.serial \in cancelled => m.kind = "cancelled"
        /\ e.serial \notin cancelled /\ e.generation # generation => m.kind = "modified"
        /\ e.serial \notin cancelled /\ e.generation = generation => m.kind = e.outcome
        /\ m.basis = IF m.kind = "ok" THEN e.basis ELSE NoDocuments
    BY <1>4, <2>6, FinishIn DEF Typed
  <2>8. DOMAIN outbox' = {1} /\ outbox'[1] = m
    BY <1>6, <1>8, <2>6
  <2>9. Answers(1)' /\ \A id : Due(id)' <=> id = e.id
    BY <1>4, <2>7, <2>8 DEF Answers, Due
  <2>10. \A id \in Ids : Awaited(id)' <=> Awaited(id) /\ id # e.id
    BY <2>1, <2>2, <2>4, <2>5 DEF Awaited
  <2>11. ASSUME NEW id \in Ids
         PROVE  /\ asked'[id].state = "no" => ~Awaited(id)' /\ ~Due(id)' /\ answer'[id] = <<>>
                /\ asked'[id].state # "no" => Awaited(id)' \/ Due(id)' \/ Len(answer'[id]) = 1
                /\ Awaited(id)' => ~Due(id)' /\ answer'[id] = <<>>
                /\ Due(id)' => answer'[id] = <<>>
    <3>1. /\ asked[id].state = "no" => ~Awaited(id) /\ answer[id] = <<>>
          /\ asked[id].state # "no" => Awaited(id) \/ Len(answer[id]) = 1
          /\ Awaited(id) => answer[id] = <<>>
      BY <1>2 DEF RequestInv
    <3>2. QED
      BY <1>1, <2>2, <2>9, <2>10, <3>1
  <2>12. RequestInv'
    <3>1. \A a, b \in controls' : a.id = b.id /\ a.id # NoId => a = b
      BY <2>4 DEF RequestInv
    <3>2. \A i, j \in DOMAIN outbox' :
           (Answers(i)' /\ Answers(j)' /\ outbox'[i].id = outbox'[j].id) => i = j
      BY <2>8
    <3>3. \A d \in controls' : d.id # NoId
          => (asked'[d.id].state = "revoked" <=> d.serial \in cancelled')
      BY <1>1, <2>4 DEF RequestInv
    <3>4. QED
      BY <2>11, <3>1, <3>2, <3>3 DEF RequestInv, Answers
  <2>13. TrueAnswer(m)'
    <3>1. asked[e.id].edits = e.generation
      BY <1>4, <1>5, <1>8 DEF Known
    <3>2. e.serial \notin cancelled /\ e.generation = generation => e.outcome # "cancelled"
          /\ e.basis = documents
      BY <1>5 DEF Known
    <3>3. TrueAnswer(m)
      <4>1. CASE e.serial \in cancelled
        BY <2>2, <2>3, <2>7, <4>1 DEF TrueAnswer
      <4>2. CASE e.serial \notin cancelled /\ e.generation # generation
        BY <2>2, <2>3, <2>7, <3>1, <4>2 DEF TrueAnswer
      <4>3. CASE e.serial \notin cancelled /\ e.generation = generation
        <5>1. m.kind \in {"ok", "failed"} /\ asked[m.id].state # "revoked"
              /\ asked[m.id].edits = generation
          BY <1>4, <2>3, <2>7, <3>1, <3>2, <4>3
        <5>2. m.basis = IF m.kind = "ok" THEN documents ELSE NoDocuments
          BY <2>7, <3>2, <4>3
        <5>3. QED
          BY <2>2, <5>1, <5>2 DEF TrueAnswer
      <4>4. QED
        BY <4>1, <4>2, <4>3
    <3>4. QED
      BY <1>1, <3>3 DEF TrueAnswer, NoDocuments
  <2>14. AnswerInv'
    <3>1. m.kind # "shutdown"
      BY <2>7
    <3>2. QED
      BY <2>8, <2>13, <3>1 DEF AnswerInv
  <2>15. QED
    BY <2>12, <2>14
<1>9. QED
  BY <1>7, <1>8

\* An analysis answers no request and takes none away.
LEMMA RequestCompleteDiagnostics ==
  ASSUME Typed, QueueInv, OutInv, JobInv, RequestInv, ViewInv, CompleteDiagnostics
  PROVE  RequestInv' /\ AnswerInv'
<1>1. Receive("analysis") /\ UNCHANGED <<cancelled, asked, answer>>
  BY DEF CompleteDiagnostics, client
<1>2. \A id : ~Due(id)
  BY <1>1, Received, Idle DEF Typed
<1>3. PICK e : e = Event
  OBVIOUS
<1>4. e.type = "analysis" /\ ResultSound(e) /\ e.documents \in AnalysisType
  <2>1. Event = inbox[1] /\ 1 \in DOMAIN inbox /\ Event \in EventType /\ Event.type = "analysis"
    BY <1>1, Received DEF Typed
  <2>2. ResultSound(Event)
    BY <2>1 DEF JobInv, Returned, Returning
  <2>3. QED
    BY <1>3, <2>1, <2>2, EventShape
<1>5. \A c \in controls : c.serial = e.serial => c.id = NoId
  BY <1>4 DEF ResultSound, Known
<1>6. controls' = {c \in controls : c.serial # e.serial}
  BY <1>3 DEF CompleteDiagnostics, Untrack
<1>7. NoAnswers'
  <2>1. CASE outbox' = <<>>
    BY <2>1, Silent
  <2>2. CASE outbox' = Changes(e.documents)
    BY <1>4, <2>2, ChangesOf DEF NoAnswers, Answers, Typed
  <2>3. QED
    BY <1>3, <2>1, <2>2 DEF CompleteDiagnostics, Act
<1>8. QED
  BY <1>1, <1>2, <1>5, <1>6, <1>7, RequestIdle, AnswerNone

\* A written answer is the only one, and the others stay true.
LEMMA RequestWrite ==
  ASSUME Typed, RequestInv, AnswerInv, Write
  PROVE  RequestInv' /\ AnswerInv'
<1>1. /\ 1 \in DOMAIN outbox /\ Len(outbox) \in Nat /\ outbox[1] \in MessageType
      /\ DOMAIN outbox = 1..Len(outbox) /\ DOMAIN outbox' = 1..(Len(outbox) - 1)
         /\ outbox' \in Seq(MessageType)
      /\ \A i \in DOMAIN outbox' : outbox'[i] = outbox[i + 1] /\ i + 1 \in DOMAIN outbox
         /\ i + 1 # 1
      /\ \A i \in DOMAIN outbox : i # 1 => i - 1 \in DOMAIN outbox' /\ outbox'[i - 1] = outbox[i]
  BY WriteEffect DEF Typed
<1>2. UNCHANGED <<lifecycle, documents, generation, controls, cancelled, asked>>
  BY WriteEffect DEF Typed, workspace, queue
<1>3. \A i \in DOMAIN outbox' : Answers(i)' <=> Answers(i + 1)
  BY <1>1 DEF Answers
<1>4. \A i, j \in DOMAIN outbox' :
           (Answers(i)' /\ Answers(j)' /\ outbox'[i].id = outbox'[j].id) => i = j
  <2> SUFFICES ASSUME NEW i \in DOMAIN outbox', NEW j \in DOMAIN outbox', Answers(i)',
      Answers(j)',
                      outbox'[i].id = outbox'[j].id
               PROVE  i = j
    OBVIOUS
  <2>1. i + 1 \in DOMAIN outbox /\ j + 1 \in DOMAIN outbox /\ Answers(i + 1) /\ Answers(j + 1)
        /\ outbox[i + 1].id = outbox[j + 1].id
    BY <1>1, <1>3
  <2>2. i + 1 = j + 1
    BY <2>1 DEF RequestInv
  <2>3. QED
    BY <1>1, <2>2
<1>5. \A id \in Ids : Awaited(id)' <=> Awaited(id)
  BY <1>2 DEF Awaited
<1>6. \A id : Due(id)' => Due(id)
  BY <1>1, <1>3 DEF Due
<1>7. \A id : Due(id) => Due(id)' \/ (Answers(1) /\ outbox[1].id = id)
  <2> SUFFICES ASSUME NEW id, Due(id), ~(Answers(1) /\ outbox[1].id = id) PROVE Due(id)'
    OBVIOUS
  <2>1. PICK i \in DOMAIN outbox : Answers(i) /\ outbox[i].id = id
    BY DEF Due
  <2>2. i # 1
    BY <2>1
  <2>3. i - 1 \in DOMAIN outbox' /\ outbox'[i - 1] = outbox[i]
    BY <1>1, <2>2
  <2>4. QED
    BY <2>1, <2>3 DEF Due, Answers
<1>8. ASSUME NEW id \in Ids
      PROVE  /\ asked'[id].state = "no" => ~Awaited(id)' /\ ~Due(id)' /\ answer'[id] = <<>>
             /\ asked'[id].state # "no" => Awaited(id)' \/ Due(id)' \/ Len(answer'[id]) = 1
             /\ Awaited(id)' => ~Due(id)' /\ answer'[id] = <<>>
             /\ Due(id)' => answer'[id] = <<>>
  <2>1. /\ asked[id].state = "no" => ~Awaited(id) /\ ~Due(id) /\ answer[id] = <<>>
        /\ asked[id].state # "no" => Awaited(id) \/ Due(id) \/ Len(answer[id]) = 1
        /\ Awaited(id) => ~Due(id) /\ answer[id] = <<>>
        /\ Due(id) => answer[id] = <<>>
    BY DEF RequestInv
  <2>2. CASE Answers(1) /\ outbox[1].id = id
    <3>1. Due(id)
      BY <1>1, <2>2 DEF Due
    <3>2. ~Due(id)'
      <4> SUFFICES ASSUME NEW i \in DOMAIN outbox', Answers(i)', outbox'[i].id = id PROVE FALSE
        BY DEF Due
      <4>1. i + 1 \in DOMAIN outbox /\ Answers(i + 1) /\ outbox[i + 1].id = id /\ i + 1 # 1
        BY <1>1, <1>3
      <4>2. QED
        BY <1>1, <2>2, <4>1 DEF RequestInv
    <3>3. Len(answer'[id]) = 1
      <4>1. answer[id] = <<>> /\ \E x : answer' = [answer EXCEPT ![id] = Append(@, x)]
        BY <2>1, <2>2, <3>1, WriteEffect DEF Typed
      <4>2. PICK x : answer' = [answer EXCEPT ![id] = Append(@, x)]
        BY <4>1
      <4>3. answer'[id] = Append(answer[id], x)
        BY <4>2 DEF Typed, ClientOK
      <4>4. answer'[id] = <<x>>
        BY <4>1, <4>3
      <4>5. QED
        BY <4>4
    <3>4. QED
      BY <1>2, <1>5, <2>1, <3>1, <3>2, <3>3
  <2>3. CASE ~(Answers(1) /\ outbox[1].id = id)
    <3>1. answer'[id] = answer[id]
      BY <2>3, WriteEffect DEF Typed, ClientOK
    <3>2. Due(id)' <=> Due(id)
      BY <1>6, <1>7, <2>3
    <3>3. QED
      BY <1>2, <1>5, <2>1, <3>1, <3>2
  <2>4. QED
    BY <2>2, <2>3
<1>9. RequestInv'
  BY <1>2, <1>4, <1>8 DEF RequestInv, Answers
<1>10. AnswerInv'
  <2> SUFFICES ASSUME NEW i \in DOMAIN outbox', Answers(i)'
               PROVE  TrueAnswer(outbox[i])' /\ (outbox'[i].kind = "shutdown" => i = Len(outbox'))
    BY DEF AnswerInv, Answers
  <2>1. i + 1 \in DOMAIN outbox /\ Answers(i + 1) /\ outbox'[i] = outbox[i + 1]
    BY <1>1, <1>3
  <2>2. TrueAnswer(outbox[i + 1]) /\ (outbox[i + 1].kind = "shutdown" => i + 1 = Len(outbox))
    BY <2>1 DEF AnswerInv
  <2>3. TrueAnswer(outbox[i])'
    BY <1>2, <2>1, <2>2 DEF TrueAnswer, NoDocuments
  <2>4. Len(outbox') = Len(outbox) - 1
    <3>1. outbox' = Tail(outbox) /\ outbox # <<>> /\ outbox \in Seq(MessageType)
      BY WriteEffect DEF Typed, OutboxOK
    <3>2. QED
      BY <3>1, Taken
  <2>5. QED
    BY <1>1, <2>1, <2>2, <2>3, <2>4
<1>11. QED
  BY <1>9, <1>10

\* Steps that leave the requests, the documents and the output alone.
LEMMA RequestStutter ==
  ASSUME RequestInv, AnswerInv,
         UNCHANGED <<lifecycle, documents, generation, controls, cancelled, asked, answer,
           outbox>>
  PROVE  RequestInv' /\ AnswerInv'
  BY DEF RequestInv, AnswerInv, Awaited, Due, Answers, TrueAnswer, NoDocuments

-----------------------------------------------------------------------------
(* What the editor shows.                                                  *)

\* An event that publishes nothing.
LEMMA ViewReceive ==
  ASSUME ViewInv, pc = "receive", pc' = "write", UNCHANGED <<published, view>>,
         \A i \in DOMAIN outbox' : outbox'[i].type # "publish"
  PROVE  ViewInv'
<1>1. \A u \in Uris : Shows(view[u], published[u])
  BY Idle
<1>2. \A u \in Uris : Shows(view[u], published[u])'
  BY <1>1 DEF Shows
<1>3. QED
  BY <1>2 DEF ViewInv

\* View: a request answered at once.
LEMMA ViewQuick ==
  ASSUME Typed, ViewInv, Quick
  PROVE  ViewInv'
<1>1. PICK t \in Asking, kind \in {"initialized", "refused"} : Receive(t)
      /\ AnswersNow(Event.id, kind)
  BY DEF Quick
<1>2. pc = "receive" /\ Event.id \in Ids
  BY <1>1, Received, EventShape DEF Typed
<1>3. /\ outbox' = <<Reply(Event.id, kind)>> /\ pc' = "write" /\ UNCHANGED <<published, view>>
  BY <1>1 DEF AnswersNow, Act, workspace, client
<1>4. Reply(Event.id, kind).type = "response"
  BY <1>1, <1>2, ReplyIn DEF Kinds
<1>5. \A i \in DOMAIN outbox' : outbox'[i].type # "publish"
  BY <1>3, <1>4
<1>6. QED
  BY <1>2, <1>3, <1>5, ViewReceive

\* View: an event that is not answered.
LEMMA ViewSilent ==
  ASSUME Typed, ViewInv, NEW t, Receive(t), pc' = "write", UNCHANGED <<published, view>>,
         outbox' = <<>> \/ outbox' = <<Reply(NoId, "refused")>>
  PROVE  ViewInv'
<1>1. pc = "receive"
  BY Received DEF Typed
<1>2. QED
  BY <1>1, Silent, ViewReceive

\* View: a request is queued.
LEMMA ViewQueueRequest ==
  ASSUME Typed, ViewInv, QueueRequest
  PROVE  ViewInv'
  BY ViewSilent DEF QueueRequest, Act, workspace, client

\* View: $/cancelRequest.
LEMMA ViewCancelRequest ==
  ASSUME Typed, ViewInv, CancelRequest
  PROVE  ViewInv'
  BY ViewSilent DEF CancelRequest, Act, workspace, client

\* View: the exit notification and a parse error.
LEMMA ViewNote ==
  ASSUME Typed, ViewInv, ExitNotification \/ ParseError
  PROVE  ViewInv'
  BY ViewSilent DEF ExitNotification, ParseError, Act, workspace, client

\* View: an edit publishes nothing by itself.
LEMMA ViewEdit ==
  ASSUME Typed, ViewInv, Edit
  PROVE  ViewInv'
<1>1. /\ \E t : Receive(t)
      /\ pc' = "write" /\ outbox' = <<>> /\ view' = view
  BY EditEffect DEF Typed, Act, client
<1>2. published' = published
  <2>1. CASE UNCHANGED <<workspace, queue>>
    BY <2>1 DEF workspace
  <2>2. CASE \E docs : Replaces(docs) /\ WorkspaceChanged(docs)
    BY <2>2, ChangeEffect
  <2>3. QED
    BY <2>1, <2>2, EditEffect DEF Typed
<1>3. QED
  BY <1>1, <1>2, ViewSilent

\* View: the shutdown publishes nothing.
LEMMA ViewShutdown ==
  ASSUME Typed, QueueInv, ViewInv, Shutdown, lifecycle = "running"
  PROVE  ViewInv'
<1>1. Receive("shutdown") /\ pc' = "write" /\ UNCHANGED <<published, view>>
      /\ outbox' = Append(CancelPendingRequests, Reply(Event.id, "shutdown"))
  BY DEF Shutdown, Act, workspace, client
<1>2. pc = "receive" /\ Event.id \in Ids
  BY <1>1, Received, EventShape DEF Typed, Asking
<1>3. Reply(Event.id, "shutdown") \in MessageType /\ Reply(Event.id, "shutdown").type = "response"
  BY <1>2, ReplyIn DEF Kinds
<1>4. PICK q, last : q = CancelPendingRequests /\ last = Reply(Event.id, "shutdown")
  OBVIOUS
<1>5. q \in Seq(MessageType) /\ \A i \in DOMAIN q : q[i].type = "response"
  <2>1. /\ q \in Seq(MessageType) /\ Len(q) = Cardinality(Requested)
        /\ InOrder(Requested) \in [1..Cardinality(Requested) -> Requested]
        /\ \A i \in 1..Cardinality(Requested) : q[i] = Reply(InOrder(Requested)[i].id,
           "cancelled")
    BY <1>4, CancelsOf
  <2>2. \A i \in 1..Cardinality(Requested) : InOrder(Requested)[i].id \in Ids
    BY <2>1 DEF Requested, Typed, QueueOK
  <2>3. \A i \in 1..Cardinality(Requested) : q[i].type = "response"
    BY <2>1, <2>2, ReplyIn DEF Kinds
  <2>4. QED
    BY <2>1, <2>3
<1>6. \A i \in DOMAIN outbox' : outbox'[i].type # "publish"
  BY <1>1, <1>3, <1>4, <1>5, Added
<1>7. QED
  BY <1>1, <1>2, <1>6, ViewReceive

\* View: the result of a request publishes nothing.
LEMMA ViewCompleteRequest ==
  ASSUME Typed, ViewInv, CompleteRequest
  PROVE  ViewInv'
<1>1. /\ Receive("prepared") /\ pc' = "write" /\ UNCHANGED <<published, view>>
      /\ outbox' = <<>> \/ outbox' = <<Finish(Event)>>
  BY DEF CompleteRequest, Act, workspace, client
<1>2. pc = "receive" /\ Event \in EventType /\ Event.type = "prepared"
  BY <1>1, Received DEF Typed
<1>3. Finish(Event).type = "response"
  BY <1>2, FinishIn DEF Typed
<1>4. \A i \in DOMAIN outbox' : outbox'[i].type # "publish"
  <2>1. CASE outbox' = <<>>
    BY <2>1
  <2>2. CASE outbox' = <<Finish(Event)>>
    BY <1>3, <2>2
  <2>3. QED
    BY <1>1, <2>1, <2>2
<1>5. QED
  BY <1>1, <1>2, <1>4, ViewReceive

\* View: what differs from the published diagnostics is about to be written, of the current
\* versions; the rest is shown already.
LEMMA ViewCompleteDiagnostics ==
  ASSUME Typed, QueueInv, JobInv, ViewInv, CompleteDiagnostics
  PROVE  ViewInv'
<1>1. /\ Receive("analysis") /\ pc' = "write" /\ UNCHANGED <<view, lifecycle, documents>>
  BY DEF CompleteDiagnostics, Act, client
<1>2. /\ pc = "receive" /\ Event \in EventType /\ Event.type = "analysis" /\ ResultSound(Event)
  <2>1. /\ pc = "receive" /\ Event \in EventType /\ Event.type = "analysis"
        /\ Event = inbox[1] /\ 1 \in DOMAIN inbox
    BY <1>1, Received DEF Typed
  <2>2. QED
    BY <2>1 DEF JobInv, Returned, Returning
<1>3. CASE ~Publishable(Event)
  <2>1. outbox' = <<>> /\ published' = published
    BY <1>3 DEF CompleteDiagnostics, Act
  <2>2. QED
    BY <1>1, <2>1, ViewSilent
<1>4. CASE Publishable(Event)
  <2>1. PICK next : next = Event.documents
    OBVIOUS
  <2>2. /\ next \in AnalysisType /\ lifecycle = "running"
        /\ \A u \in Uris : next[u].present => next[u].version = documents[u].version
    BY <1>2, <1>4, <2>1, EventShape DEF Publishable, Tracked, Serials, QueueInv, ResultSound
  <2>3. published' = next /\ outbox' = Changes(next)
    BY <1>4, <2>1 DEF CompleteDiagnostics, Act
  <2>4. PICK s : s = Changed(next)
    OBVIOUS
  <2>5. /\ DOMAIN outbox' = 1..Len(s)
        /\ \A i \in 1..Len(s) :
                /\ outbox'[i].type = "publish" /\ outbox'[i].uri = s[i] /\ s[i] \in Uris
                /\ next[s[i]].present =>
                      outbox'[i].version = next[s[i]].version
                        /\ outbox'[i].diagnostics = next[s[i]].diagnostics
                /\ ~next[s[i]].present =>
                      outbox'[i].version = documents[s[i]].version /\ outbox'[i].diagnostics = {}
        /\ \A u \in Uris : next[u] # published[u] => \E i \in 1..Len(s) : s[i] = u
    BY <2>2, <2>3, <2>4, ChangesOf DEF Typed
  <2>6. \A u \in Uris : ~next[u].present => next[u].diagnostics = {}
    <3> SUFFICES ASSUME NEW u \in Uris, ~next[u].present PROVE next[u].diagnostics = {}
      OBVIOUS
    <3>1. next[u] \in PublishedType
      BY <2>2 DEF AnalysisType
    <3>2. next[u] = Absent
      BY <3>1 DEF PublishedType
    <3>3. QED
      BY <3>2 DEF Absent
  <2>7. ASSUME NEW i \in DOMAIN outbox'
        PROVE  /\ lifecycle' = "running"
                  /\ outbox'[i].version = documents'[outbox'[i].uri].version
               /\ Shows(outbox'[i], published'[outbox'[i].uri])
    <3>1. /\ i \in 1..Len(s) /\ outbox'[i].uri = s[i] /\ s[i] \in Uris
          /\ published'[s[i]] = next[s[i]] /\ documents' = documents /\ lifecycle' = "running"
      BY <1>1, <2>2, <2>3, <2>5
    <3>2. CASE next[s[i]].present
      <4>1. /\ outbox'[i].version = next[s[i]].version
            /\ outbox'[i].diagnostics = next[s[i]].diagnostics
        BY <2>5, <3>1, <3>2
      <4>2. next[s[i]].version = documents[s[i]].version
        BY <2>2, <3>1, <3>2
      <4>3. QED
        BY <3>1, <4>1, <4>2 DEF Shows
    <3>3. CASE ~next[s[i]].present
      <4>1. outbox'[i].version = documents[s[i]].version /\ outbox'[i].diagnostics = {}
        BY <2>5, <3>1, <3>3
      <4>2. next[s[i]].diagnostics = {}
        BY <2>6, <3>1, <3>3
      <4>3. QED
        BY <3>1, <3>3, <4>1, <4>2 DEF Shows
    <3>4. QED
      BY <3>2, <3>3
  <2>8. \A u \in Uris : Publishing(u)' \/ Shows(view[u], published[u])'
    <3> SUFFICES ASSUME NEW u \in Uris PROVE Publishing(u)' \/ Shows(view'[u], published'[u])
      OBVIOUS
    <3>1. CASE next[u] = published[u]
      BY <1>1, <1>2, <2>3, <3>1, Idle
    <3>2. CASE next[u] # published[u]
      BY <2>5, <3>2 DEF Publishing
    <3>3. QED
      BY <3>1, <3>2
  <2>9. QED
    BY <1>1, <2>7, <2>8 DEF ViewInv
<1>5. QED
  BY <1>3, <1>4

\* View: a written publication is shown, and no other is lost.
LEMMA ViewWrite ==
  ASSUME Typed, ViewInv, Write
  PROVE  ViewInv'
<1>1. /\ pc = "write" /\ UNCHANGED <<lifecycle, documents, published, pc>> /\ 1 \in DOMAIN outbox
      /\ \A i \in DOMAIN outbox' : outbox'[i] = outbox[i + 1] /\ i + 1 \in DOMAIN outbox
         /\ i + 1 # 1
      /\ \A i \in DOMAIN outbox : i # 1 => i - 1 \in DOMAIN outbox' /\ outbox'[i - 1] = outbox[i]
  BY WriteEffect DEF Typed, workspace
<1>2. ASSUME NEW i \in DOMAIN outbox', outbox'[i].type = "publish"
      PROVE  /\ lifecycle' = "running" /\ outbox'[i].version = documents'[outbox'[i].uri].version
             /\ Shows(outbox'[i], published'[outbox'[i].uri])
  <2>1. i + 1 \in DOMAIN outbox /\ outbox'[i] = outbox[i + 1] /\ outbox[i + 1].type = "publish"
    BY <1>1, <1>2
  <2>2. /\ lifecycle = "running" /\ outbox[i + 1].version = documents[outbox[i + 1].uri].version
        /\ Shows(outbox[i + 1], published[outbox[i + 1].uri])
    BY <2>1 DEF ViewInv
  <2>3. QED
    BY <1>1, <2>1, <2>2
<1>3. ASSUME NEW u \in Uris PROVE Publishing(u)' \/ Shows(view'[u], published'[u])
  <2>1. CASE outbox[1].type = "publish" /\ outbox[1].uri = u
    <3>1. view'[u] = [version |-> outbox[1].version, diagnostics |-> outbox[1].diagnostics]
      BY <2>1, WriteEffect DEF Typed, ClientOK, Answers
    <3>2. Shows(outbox[1], published[u])
      BY <1>1, <2>1 DEF ViewInv
    <3>3. QED
      BY <1>1, <3>1, <3>2 DEF Shows
  <2>2. CASE ~(outbox[1].type = "publish" /\ outbox[1].uri = u)
    <3>1. view'[u] = view[u]
      BY <2>2, WriteEffect DEF Typed, ClientOK
    <3>2. CASE Publishing(u)
      <4>1. PICK i \in DOMAIN outbox : outbox[i].type = "publish" /\ outbox[i].uri = u
        BY <3>2 DEF Publishing
      <4>2. i - 1 \in DOMAIN outbox' /\ outbox'[i - 1] = outbox[i]
        BY <1>1, <2>2, <4>1
      <4>3. QED
        BY <4>1, <4>2 DEF Publishing
    <3>3. CASE Shows(view[u], published[u])
      BY <1>1, <3>1, <3>3
    <3>4. QED
      BY <3>2, <3>3 DEF ViewInv
  <2>3. QED
    BY <2>1, <2>2
<1>4. QED
  BY <1>1, <1>2, <1>3 DEF ViewInv

\* View: steps that leave the output and the publications alone.
LEMMA ViewStutter ==
  ASSUME ViewInv, UNCHANGED <<lifecycle, documents, published, view, outbox>>,
         pc' = pc \/ outbox = <<>>
  PROVE  ViewInv'
  BY DEF ViewInv, Publishing, Shows

-----------------------------------------------------------------------------
(* The analysis that is owed.                                              *)

\* The analysis that is owed: as a job, and as a result.
DueJob(job) == IsDiagnostics(job) /\ job.snapshot.generation = generation
  /\ ~IsCancelled(job.serial)
DueResult(e) == e.type = "analysis" /\ e.generation = generation /\ ~IsCancelled(e.serial)

\* It has been published or has failed.
Settled == analysed.published = generation \/ analysed.failed = generation

\* It is queued, running or returned.
Owed ==
    \/ \E job \in pending : DueJob(job)
    \/ \E i \in DOMAIN slot : DueJob(slot[i])
    \/ work.busy /\ DueJob(work.job)
    \/ \E i \in DOMAIN inbox : DueResult(inbox[i])

\* NewestIsOwed in the terms of the proof.
LEMMA OwedIs ==
  NewestIsOwed <=> (lifecycle = "running" /\ pc # "ended" => Settled \/ Owed)
  BY DEF NewestIsOwed, Settled, Owed, DueJob, DueResult

\* Every job the coordinator may still hear of is known.
LEMMA DueKnown ==
  ASSUME Typed, OutInv, JobInv
  PROVE  /\ \A job \in pending : DueJob(job) => Known(job.serial, NoId, generation)
         /\ \A i \in DOMAIN slot : DueJob(slot[i]) => Known(slot[i].serial, NoId, generation)
         /\ work.busy /\ DueJob(work.job) => Known(work.job.serial, NoId, generation)
         /\ \A i \in DOMAIN inbox : DueResult(inbox[i])
            => Known(inbox[i].serial, NoId, generation)
<1>1. \A job : Sound(job) /\ DueJob(job) => Known(job.serial, NoId, generation)
  BY DEF Sound, DueJob, IsDiagnostics
<1>2. \A i \in DOMAIN slot : i = 1 /\ slot # <<>>
  <2>1. slot \in Seq(JobType) /\ (slot # <<>> => Len(slot) = 1)
    BY DEF Typed, WorkerOK, OutInv
  <2>2. QED
    BY <2>1
<1>3. \A i \in DOMAIN slot : Sound(slot[i])
  BY <1>2 DEF JobInv
<1>4. \A i \in DOMAIN inbox : DueResult(inbox[i]) => Known(inbox[i].serial, NoId, generation)
  BY DEF DueResult, JobInv, Returned, Returning, ResultSound
<1>5. QED
  BY <1>1, <1>3, <1>4 DEF JobInv

\* A step that keeps the jobs of the queue, cancels none that is due and takes no analysis.
LEMMA OwedReceive ==
  ASSUME Typed, OutInv, JobInv, NewestIsOwed, NEW t, Receive(t), t # "analysis",
         UNCHANGED <<slot, work, generation, analysed>>, pending \subseteq pending',
         lifecycle' = "running" => lifecycle = "running" \/ analysed.published = generation,
         \A s : (Known(s, NoId, generation) /\ ~IsCancelled(s)) => ~IsCancelled(s)'
  PROVE  NewestIsOwed'
<1> SUFFICES ASSUME lifecycle' = "running", pc' # "ended" PROVE Settled' \/ Owed'
  BY OwedIs DEF NewestIsOwed, Settled, Owed, DueJob, DueResult
<1>1. /\ pc = "receive" /\ inbox[1].type = t
      /\ \A i \in DOMAIN inbox : i # 1 => i - 1 \in DOMAIN inbox' /\ inbox'[i - 1] = inbox[i]
  BY Received DEF Typed
<1>2. Settled \/ Owed
  BY <1>1, OwedIs DEF Settled
<1>3. CASE Settled
  BY <1>3 DEF Settled
<1>4. \A job : DueJob(job) /\ Known(job.serial, NoId, generation) => DueJob(job)'
  BY DEF DueJob
<1>5. CASE \E job \in pending : DueJob(job)
  BY <1>4, <1>5, DueKnown DEF Owed
<1>6. CASE \E i \in DOMAIN slot : DueJob(slot[i])
  <2>1. PICK i \in DOMAIN slot : DueJob(slot[i])
    BY <1>6
  <2>2. PICK job : job = slot[i]
    OBVIOUS
  <2>3. DueJob(job)' /\ slot'[i] = job /\ i \in DOMAIN slot'
    BY <1>4, <2>1, <2>2, DueKnown
  <2>4. DueJob(slot[i])'
    BY <2>3 DEF DueJob
  <2>5. QED
    BY <2>3, <2>4 DEF Owed
<1>7. CASE work.busy /\ DueJob(work.job)
  <2>1. PICK job : job = work.job
    OBVIOUS
  <2>2. DueJob(job)' /\ work'.job = job /\ work'.busy
    BY <1>4, <1>7, <2>1, DueKnown
  <2>3. DueJob(work.job)'
    BY <2>2 DEF DueJob
  <2>4. QED
    BY <2>2, <2>3 DEF Owed
<1>8. CASE \E i \in DOMAIN inbox : DueResult(inbox[i])
  <2>1. PICK i \in DOMAIN inbox : DueResult(inbox[i])
    BY <1>8
  <2>2. PICK e : e = inbox[i]
    OBVIOUS
  <2>3. i - 1 \in DOMAIN inbox' /\ inbox'[i - 1] = e
    BY <1>1, <2>1, <2>2 DEF DueResult
  <2>4. DueResult(e)'
    BY <2>1, <2>2, DueKnown DEF DueResult
  <2>5. DueResult(inbox[i - 1])'
    BY <2>3, <2>4 DEF DueResult
  <2>6. QED
    BY <2>3, <2>5 DEF Owed
<1>9. QED
  BY <1>2, <1>3, <1>5, <1>6, <1>7, <1>8 DEF Owed

\* A server that has just been initialized has nothing to analyse.
LEMMA OwedQuick ==
  ASSUME Typed, QueueInv, OutInv, JobInv, NewestIsOwed, Quick
  PROVE  NewestIsOwed'
<1>1. PICK t \in Asking, kind \in {"initialized", "refused"} : Receive(t)
      /\ AnswersNow(Event.id, kind)
  BY DEF Quick
<1>2. /\ UNCHANGED <<slot, work, generation, analysed, pending, cancelled, invalidated>>
      /\ lifecycle' = lifecycle \/ lifecycle = "waiting"
  BY <1>1 DEF AnswersNow, workspace, worker, queue, Asking
<1>3. lifecycle' = "running" => lifecycle = "running" \/ analysed.published = generation
  BY <1>2 DEF QueueInv
<1>4. \A s : ~IsCancelled(s) => ~IsCancelled(s)'
  BY <1>2 DEF IsCancelled
<1>5. t # "analysis"
  BY <1>1 DEF Asking
<1>6. QED
  BY <1>1, <1>2, <1>3, <1>4, <1>5, OwedReceive

\* Events that change neither the flags of the queue nor the documents.
LEMMA OwedNote ==
  ASSUME Typed, OutInv, JobInv, NewestIsOwed, NEW t, Receive(t), t # "analysis",
         UNCHANGED <<lifecycle, slot, work, generation, analysed, cancelled, invalidated>>,
         pending \subseteq pending'
  PROVE  NewestIsOwed'
<1>1. \A s : ~IsCancelled(s) => ~IsCancelled(s)'
  BY DEF IsCancelled
<1>2. QED
  BY <1>1, OwedReceive

\* The analysis has no request id: $/cancelRequest never cancels it.
LEMMA OwedCancelRequest ==
  ASSUME Typed, QueueInv, OutInv, JobInv, NewestIsOwed, CancelRequest
  PROVE  NewestIsOwed'
<1>1. /\ Receive("cancel") /\ UNCHANGED <<lifecycle, slot, work, generation, analysed, pending,
         invalidated>>
      /\ cancelled' = cancelled \cup Serials({c \in controls : c.id = Event.id})
  BY DEF CancelRequest, workspace, worker
<1>2. Event.id # NoId
  BY <1>1, Received, EventShape, Constants DEF Typed
<1>3. ASSUME NEW s, Known(s, NoId, generation), ~IsCancelled(s)
      PROVE  ~IsCancelled(s)'
  <2>1. \A c \in controls : c.serial = s => c.id = NoId
    BY <1>3 DEF Known
  <2>2. s \notin Serials({c \in controls : c.id = Event.id})
    BY <1>2, <2>1 DEF Serials
  <2>3. QED
    BY <1>1, <1>3, <2>2 DEF IsCancelled
<1>4. QED
  BY <1>1, <1>3, OwedReceive

\* After an edit the new diagnostics job is due.
LEMMA OwedEdit ==
  ASSUME Typed, QueueInv, OutInv, JobInv, NewestIsOwed, Edit
  PROVE  NewestIsOwed'
<1>1. PICK t \in Editing : Receive(t)
  BY EditEffect DEF Typed
<1>2. t # "analysis" /\ UNCHANGED <<lifecycle, slot, work, analysed>>
  BY <1>1, EditEffect DEF Typed, Editing, worker
<1>3. CASE UNCHANGED <<workspace, queue>>
  BY <1>1, <1>2, <1>3, OwedNote DEF workspace, queue
<1>4. CASE \E docs : Replaces(docs) /\ WorkspaceChanged(docs)
  <2>1. PICK docs : WorkspaceChanged(docs)
    BY <1>4
  <2>2. PICK j0 : j0 = NewJob
    OBVIOUS
  <2>3. /\ j0 \in pending' /\ generation' = generation + 1 /\ cancelled' = cancelled
        /\ invalidated' = invalidated \cup Serials(controls)
    BY <2>1, <2>2, ChangeEffect
  <2>4. j0.id = NoId /\ j0.serial = next_serial /\ j0.snapshot.generation = generation + 1
    BY <2>2 DEF NewJob, Job
  <2>5. next_serial \notin cancelled' \cup invalidated'
    BY <2>3 DEF QueueInv, Issued, Typed, QueueOK
  <2>6. DueJob(j0)'
    BY <2>3, <2>4, <2>5 DEF DueJob, IsDiagnostics, IsCancelled
  <2>7. Owed'
    BY <2>3, <2>6 DEF Owed
  <2>8. QED
    BY <2>7 DEF NewestIsOwed, Owed, DueJob, DueResult
<1>5. QED
  BY <1>3, <1>4, EditEffect DEF Typed

\* After a shutdown nothing is owed.
LEMMA OwedShutdown ==
  ASSUME Shutdown, lifecycle = "running"
  PROVE  NewestIsOwed'
<1>1. lifecycle' = "shutdown"
  BY DEF Shutdown
<1>2. QED
  BY <1>1 DEF NewestIsOwed

\* The result of a request is not the analysis that is due.
LEMMA OwedCompleteRequest ==
  ASSUME Typed, OutInv, JobInv, NewestIsOwed, CompleteRequest
  PROVE  NewestIsOwed'
<1>1. Receive("prepared") /\ UNCHANGED <<lifecycle, slot, work, generation, analysed, pending,
      cancelled, invalidated>>
  BY DEF CompleteRequest, workspace
<1>2. QED
  BY <1>1, OwedNote

\* The analysis that is due is published, or has failed.
LEMMA OwedCompleteDiagnostics ==
  ASSUME Typed, OutInv, JobInv, NewestIsOwed, CompleteDiagnostics
  PROVE  NewestIsOwed'
<1>1. /\ Receive("analysis") /\ pc' = "write"
      /\ UNCHANGED <<lifecycle, slot, work, generation, pending, cancelled, invalidated>>
  BY DEF CompleteDiagnostics, Act
<1>2. PICK e : e = Event
  OBVIOUS
<1>3. /\ e \in EventType /\ e.type = "analysis" /\ pc = "receive" /\ e = inbox[1]
         /\ 1 \in DOMAIN inbox
  BY <1>1, <1>2, Received DEF Typed
<1>4. 1 \in Returned
  BY <1>3 DEF Returned, Returning
<1>5. /\ slot = <<>> /\ ~work.busy /\ \A i \in Returned : i = 1
      /\ Known(e.serial, NoId, e.generation)
  BY <1>3, <1>4 DEF OutInv, JobInv, ResultSound
<1>6. e.none \in BOOLEAN
  BY <1>3, EventShape
<1> SUFFICES ASSUME lifecycle' = "running" PROVE Settled' \/ Owed'
  BY OwedIs DEF NewestIsOwed, Settled, Owed, DueJob, DueResult
<1>7. Settled \/ Owed
  BY <1>1, <1>3, OwedIs
<1>8. CASE \E job \in pending : DueJob(job)
  BY <1>1, <1>8 DEF Owed, DueJob, IsCancelled
<1>9. CASE Publishable(e)
  <2>1. analysed'.published = e.generation /\ e.generation = generation
    BY <1>2, <1>9 DEF CompleteDiagnostics, Publishable, Typed, HistoryOK
  <2>2. QED
    BY <1>1, <2>1 DEF Settled
<1>10. CASE ~Publishable(e) /\ e.none /\ Tracked(e.serial) /\ ~IsCancelled(e.serial)
  <2>1. analysed'.failed = e.generation
    BY <1>2, <1>10 DEF CompleteDiagnostics, Typed, HistoryOK
  <2>2. e.generation = generation
    BY <1>5, <1>10 DEF Known, IsCancelled
  <2>3. QED
    BY <1>1, <2>1, <2>2 DEF Settled
<1>11. CASE ~Publishable(e) /\ ~(e.none /\ Tracked(e.serial) /\ ~IsCancelled(e.serial))
  <2>1. analysed' = analysed
    BY <1>2, <1>11 DEF CompleteDiagnostics
  <2>2. CASE Settled
    BY <1>1, <2>1, <2>2 DEF Settled
  <2>3. CASE Owed
    <3>2. CASE \E i \in DOMAIN inbox : DueResult(inbox[i])
      <4>1. PICK i \in DOMAIN inbox : DueResult(inbox[i])
        BY <3>2
      <4>2. i = 1
        BY <1>5, <4>1 DEF Returned, Returning, DueResult
      <4>3. e.generation = generation /\ ~IsCancelled(e.serial)
        BY <1>3, <4>1, <4>2 DEF DueResult
      <4>4. Tracked(e.serial)
        BY <1>5, <4>3 DEF Known, IsCancelled
      <4>5. QED
        BY <1>6, <1>11, <4>3, <4>4 DEF Publishable
    <3>3. QED
      BY <1>5, <1>8, <2>3, <3>2 DEF Owed
  <2>4. QED
    BY <1>7, <2>2, <2>3
<1>12. QED
  BY <1>9, <1>10, <1>11

\* The job that is due goes from the queue into the channel.
LEMMA OwedProceed ==
  ASSUME Typed, OutInv, NewestIsOwed, Proceed
  PROVE  NewestIsOwed'
<1>1. /\ pc = "write" /\ UNCHANGED <<lifecycle, generation, cancelled, invalidated, work, inbox,
         analysed>>
  BY ProceedEffect DEF workspace
<1>2. \A job : DueJob(job)' <=> DueJob(job)
  BY <1>1 DEF DueJob, IsCancelled
<1> SUFFICES ASSUME lifecycle = "running" PROVE Settled' \/ Owed'
  BY <1>1, OwedIs DEF NewestIsOwed, Settled, Owed, DueJob, DueResult
<1>3. Settled \/ Owed
  BY <1>1, OwedIs
<1>4. CASE Settled
  BY <1>1, <1>4 DEF Settled
<1>5. CASE Owed /\ UNCHANGED <<worker_busy, slot, pending>>
  BY <1>1, <1>5 DEF Owed, DueJob, DueResult, IsCancelled
<1>6. CASE Owed /\ ~UNCHANGED <<worker_busy, slot, pending>>
  <2>1. PICK job \in pending : slot' = <<job>> /\ pending' = pending \ {job} /\ slot = <<>>
        /\ ~worker_busy
    BY <1>6, ProceedEffect
  <2>2. ~work.busy /\ Returned = {}
    BY <2>1 DEF OutInv
  <2>3. PICK b \in pending : DueJob(b)
    BY <1>6, <2>1, <2>2 DEF Owed, Returned, Returning, DueResult
  <2>4. CASE b = job
    <3>1. 1 \in DOMAIN slot' /\ slot'[1] = job
      BY <2>1
    <3>2. DueJob(slot[1])'
      BY <1>1, <2>3, <2>4, <3>1 DEF DueJob, IsCancelled
    <3>3. QED
      BY <3>1, <3>2 DEF Owed
  <2>5. CASE b # job
    BY <1>2, <2>1, <2>3, <2>5 DEF Owed
  <2>6. QED
    BY <2>4, <2>5
<1>7. QED
  BY <1>3, <1>4, <1>5, <1>6

\* The job that is due goes from the channel into the worker.
LEMMA OwedTakes ==
  ASSUME Typed, OutInv, NewestIsOwed, WorkerTakes
  PROVE  NewestIsOwed'
<1>1. /\ pc # "ended" /\ slot # <<>> /\ work'.busy /\ work'.job = slot[1] /\ ~work.busy
      /\ UNCHANGED <<lifecycle, generation, pending, cancelled, invalidated, inbox, analysed>>
  BY TakesEffect DEF Typed, workspace, queue
<1>2. \A i \in DOMAIN slot : i = 1
  <2>1. slot \in Seq(JobType) /\ Len(slot) = 1
    BY <1>1 DEF Typed, WorkerOK, OutInv
  <2>2. QED
    BY <2>1
<1> SUFFICES ASSUME lifecycle = "running" PROVE Settled' \/ Owed'
  BY <1>1, OwedIs DEF NewestIsOwed, Settled, Owed, DueJob, DueResult
<1>3. Settled \/ Owed
  BY <1>1, OwedIs
<1>4. CASE Settled
  BY <1>1, <1>4 DEF Settled
<1>5. CASE \E i \in DOMAIN slot : DueJob(slot[i])
  <2>1. DueJob(slot[1])
    BY <1>2, <1>5
  <2>2. DueJob(work.job)'
    BY <1>1, <2>1 DEF DueJob, IsCancelled
  <2>3. QED
    BY <1>1, <2>2 DEF Owed
<1>6. CASE Owed /\ ~\E i \in DOMAIN slot : DueJob(slot[i])
  BY <1>1, <1>6 DEF Owed, DueJob, DueResult, IsCancelled
<1>7. QED
  BY <1>3, <1>4, <1>5, <1>6

\* An event arrives, from the reader or from the worker.
LEMMA OwedArrives ==
  ASSUME Typed, OutInv, NewestIsOwed, NEW e \in EventType, inbox' = Append(inbox, e),
         pc # "ended",
         UNCHANGED <<lifecycle, generation, pending, cancelled, invalidated, slot, analysed>>,
         work' = work \/ (~work'.busy /\ (work.busy /\ DueJob(work.job) => DueResult(e)))
  PROVE  NewestIsOwed'
<1> SUFFICES ASSUME lifecycle = "running" PROVE Settled' \/ Owed'
  BY OwedIs DEF NewestIsOwed, Settled, Owed, DueJob, DueResult
<1>1. /\ \A i \in DOMAIN inbox : i \in DOMAIN inbox' /\ inbox'[i] = inbox[i]
      /\ Len(inbox) + 1 \in DOMAIN inbox' /\ inbox'[Len(inbox) + 1] = e
  BY Added DEF Typed, InboxOK
<1>2. Settled \/ Owed
  BY OwedIs
<1>3. CASE Settled
  BY <1>3 DEF Settled
<1>4. CASE \E job \in pending : DueJob(job)
  BY <1>4 DEF Owed, DueJob, IsCancelled
<1>5. CASE \E i \in DOMAIN slot : DueJob(slot[i])
  BY <1>5 DEF Owed, DueJob, IsCancelled
<1>6. CASE \E i \in DOMAIN inbox : DueResult(inbox[i])
  BY <1>1, <1>6 DEF Owed, DueResult, IsCancelled
<1>7. CASE work.busy /\ DueJob(work.job) /\ work' = work
  BY <1>7 DEF Owed, DueJob, IsCancelled
<1>8. CASE work.busy /\ DueJob(work.job) /\ DueResult(e)
  BY <1>1, <1>8 DEF Owed, DueResult, IsCancelled
<1>9. QED
  BY <1>2, <1>3, <1>4, <1>5, <1>6, <1>7, <1>8 DEF Owed

\* The job that is due comes back as the analysis that is due.
LEMMA OwedFinishes ==
  ASSUME Typed, OutInv, NewestIsOwed, Finishes
  PROVE  NewestIsOwed'
<1>1. PICK e \in EventType : /\ inbox' = Append(inbox, e) /\ e.serial = work.job.serial
                             /\ e.generation = work.job.snapshot.generation
                             /\ Prepared(e) \/ Analysed(e)
  BY FinishesEffect DEF Typed
<1>2. /\ pc # "ended" /\ ~work'.busy
      /\ UNCHANGED <<lifecycle, generation, pending, cancelled, invalidated, slot, analysed>>
  BY FinishesEffect DEF Typed, NoWork, workspace, queue
<1>3. DueJob(work.job) => DueResult(e)
  BY <1>1 DEF DueJob, DueResult, IsDiagnostics, Prepared, Analysed
<1>4. QED
  BY <1>1, <1>2, <1>3, OwedArrives

\* The reader takes nothing away.
LEMMA OwedReader ==
  ASSUME Typed, OutInv, NewestIsOwed, Editor
  PROVE  NewestIsOwed'
<1>1. PICK e \in EventType : inbox' = Append(inbox, e)
  BY ReaderEffect DEF Typed
<1>2. /\ pc # "ended"
      /\ UNCHANGED <<lifecycle, generation, pending, cancelled, invalidated, slot, work,
         analysed>>
  BY ReaderEffect DEF Typed, workspace, queue, worker
<1>3. QED
  BY <1>1, <1>2, OwedArrives

\* Steps that leave the jobs, the inbox and the publications alone.
LEMMA OwedStutter ==
  ASSUME NewestIsOwed, UNCHANGED <<lifecycle, workspace, queue, worker, inbox, analysed>>,
         pc # "ended"
  PROVE  NewestIsOwed'
  BY DEF NewestIsOwed, workspace, queue, worker, IsCancelled

-----------------------------------------------------------------------------
(* Every step keeps the invariant.                                         *)

\* The invariant of a serving server after a step.
StillHolds == /\ Typed' /\ QueueInv' /\ OutInv' /\ JobInv' /\ PlaceInv' /\ InboxInv'
  /\ RequestInv'
         /\ AnswerInv' /\ ViewInv' /\ NewestIsOwed'

\* The invariant of a serving server.
Holds == Typed /\ QueueInv /\ OutInv /\ Serving

\* The invariant: the reader appends an event.
LEMMA StepReader ==
  ASSUME Holds, Editor
  PROVE  StillHolds
<1> USE DEF Holds, Serving
<1>1. PICK e \in EventType : inbox' = Append(inbox, e) /\ ReaderKind(e)
  BY ReaderEffect DEF Typed
<1>2. UNCHANGED <<lifecycle, workspace, queue, worker, coordinator, asked, client, analysed>>
  BY ReaderEffect DEF Typed
<1>3. UNCHANGED <<lifecycle, documents, generation, published, queue, asked, answer, view, outbox,
      pc,
                  controls, cancelled, analysed>>
  BY <1>2 DEF workspace, queue, coordinator, client
<1>4. Typed'
  BY TypedReader
<1>5. QueueInv'
  BY <1>3, QueueQuiet
<1>6. OutInv' /\ JobInv' /\ PlaceInv' /\ NewestIsOwed'
  BY OutReader, JobReader, OwedReader
<1>7. InboxInv'
  BY <1>1, <1>3, InboxAppend
<1>8. RequestInv' /\ AnswerInv'
  BY <1>3, RequestStutter
<1>9. ViewInv'
  BY <1>3, ViewStutter
<1>10. QED
  BY <1>4, <1>5, <1>6, <1>7, <1>8, <1>9 DEF StillHolds

\* The invariant: a request answered at once.
LEMMA StepQuick ==
  ASSUME Holds, Quick
  PROVE  StillHolds
<1> USE DEF Holds, Serving
<1>1. PICK t \in Asking, kind \in {"initialized", "refused"} : Receive(t)
      /\ AnswersNow(Event.id, kind)
  BY DEF Quick
<1>2. /\ TakeUp(Event.id) /\ UNCHANGED <<worker, editor, generation, queue, analysed>>
      /\ lifecycle' = lifecycle \/ (lifecycle = "waiting" /\ lifecycle' = "running")
  BY <1>1 DEF AnswersNow, workspace
<1>3. t \notin Returning
  BY DEF Asking, Returning
<1>4. OutInv'
  BY <1>1, <1>2, <1>3, OutReceive
<1>5. QueueInv'
  BY <1>2, QueueQuiet
<1>6. InboxInv'
  BY <1>1, <1>2, InboxReceive, TakenUpOthers
<1>7. QED
  BY <1>4, <1>5, <1>6, TypedQuick, JobQuick, RequestQuick, ViewQuick, OwedQuick DEF StillHolds

\* The invariant: a request is queued.
LEMMA StepQueueRequest ==
  ASSUME Holds, QueueRequest
  PROVE  StillHolds
<1> USE DEF Holds, Serving
<1>1. /\ Receive("request") /\ TakeUp(Event.id)
      /\ UNCHANGED <<lifecycle, worker, editor, generation, analysed, slot, work, cancelled,
         invalidated>>
      /\ pending \subseteq pending'
  BY DEF QueueRequest, workspace, worker
<1>2. "request" \in Asking /\ "request" \notin Returning /\ "request" # "analysis"
  BY DEF Asking, Returning
<1>3. OutInv'
  BY <1>1, <1>2, OutReceive
<1>4. InboxInv'
  BY <1>1, <1>2, InboxReceive, TakenUpOthers
<1>5. NewestIsOwed'
  BY <1>1, <1>2, OwedNote
<1>6. QED
  BY <1>3, <1>4, <1>5, TypedQueueRequest, QueueQueueRequest, JobQueueRequest, RequestQueueRequest,
     ViewQueueRequest DEF StillHolds

\* The invariant: a running server shuts down.
LEMMA StepShutdown ==
  ASSUME Holds, Shutdown, lifecycle = "running"
  PROVE  StillHolds
<1> USE DEF Holds, Serving
<1>1. /\ Receive("shutdown") /\ TakeUp(Event.id) /\ UNCHANGED <<worker, editor, generation>>
  BY DEF Shutdown, workspace
<1>2. "shutdown" \in Asking /\ "shutdown" \notin Returning
  BY DEF Asking, Returning
<1>3. OutInv'
  BY <1>1, <1>2, OutReceive
<1>4. InboxInv'
  BY <1>1, <1>2, InboxReceive, TakenUpOthers
<1>5. QED
  BY <1>3, <1>4, TypedShutdown, QueueShutdown, JobShutdown, RequestShutdown, ViewShutdown,
     OwedShutdown DEF StillHolds

\* The invariant: $/cancelRequest.
LEMMA StepCancelRequest ==
  ASSUME Holds, CancelRequest
  PROVE  StillHolds
<1> USE DEF Holds, Serving
<1>1. /\ Receive("cancel") /\ UNCHANGED <<worker, editor, generation>>
      /\ asked' = [asked EXCEPT ![Event.id].state =
                      IF {c \in controls : c.id = Event.id} # {} THEN "revoked" ELSE @]
  BY DEF CancelRequest, workspace
<1>2. "cancel" \notin Returning
  BY DEF Returning
<1>3. OutInv'
  BY <1>1, <1>2, OutReceive
<1>4. Event.id \in Ids
  BY <1>1, Received, EventShape DEF Typed
<1>5. ASSUME NEW id \in Ids, asked[id].state = "no"
      PROVE  asked'[id].state = "no"
  <2>1. ~Awaited(id)
    BY <1>5 DEF RequestInv
  <2>2. asked \in [Ids -> [state : {"no", "open", "revoked"}, edits : Nat]]
    BY DEF Typed, ClientOK
  <2>3. CASE id = Event.id
    <3>1. {c \in controls : c.id = Event.id} = {}
      BY <2>1, <2>3 DEF Awaited
    <3>2. QED
      BY <1>1, <1>4, <1>5, <2>2, <2>3, <3>1
  <2>4. CASE id # Event.id
    BY <1>1, <1>5, <2>2, <2>4
  <2>5. QED
    BY <2>3, <2>4
<1>6. InboxInv'
  BY <1>1, <1>5, InboxReceive
<1>7. QED
  BY <1>3, <1>6, TypedCancelRequest, QueueCancelRequest, JobCancelRequest, RequestCancelRequest,
     ViewCancelRequest, OwedCancelRequest DEF StillHolds

\* The invariant: a document notification.
LEMMA StepEdit ==
  ASSUME Holds, Edit
  PROVE  StillHolds
<1> USE DEF Holds, Serving
<1>1. PICK t \in Editing : Receive(t)
  BY EditEffect DEF Typed
<1>2. UNCHANGED <<worker, editor, asked>>
  BY EditEffect DEF Typed
<1>3. generation' = generation \/ generation' = generation + 1
  BY EditEffect DEF Typed, WorkspaceChanged, workspace
<1>4. t \notin Returning
  BY DEF Editing, Returning
<1>5. OutInv'
  BY <1>1, <1>2, <1>4, OutReceive
<1>6. InboxInv'
  BY <1>1, <1>2, <1>3, InboxReceive
<1>7. QED
  BY <1>5, <1>6, TypedEdit, QueueEdit, JobEdit, RequestEdit, ViewEdit, OwedEdit DEF StillHolds

\* The invariant: the exit notification and a parse error.
LEMMA StepNote ==
  ASSUME Holds, ExitNotification \/ ParseError
  PROVE  StillHolds
<1> USE DEF Holds, Serving
<1>1. PICK t \in {"exit", "garbage"} : Receive(t)
  BY DEF ExitNotification, ParseError
<1>2. UNCHANGED <<lifecycle, workspace, queue, worker, editor, asked, client, analysed>>
  BY DEF ExitNotification, ParseError
<1>3. UNCHANGED <<generation, slot, work, cancelled, invalidated, pending>>
  BY <1>2 DEF workspace, worker, queue
<1>4. t \notin Returning /\ t # "analysis"
  BY DEF Returning
<1>5. OutInv'
  BY <1>1, <1>2, <1>4, OutReceive
<1>6. QueueInv'
  BY <1>2, <1>3, QueueQuiet
<1>7. InboxInv'
  BY <1>1, <1>2, <1>3, InboxReceive
<1>8. JobInv' /\ PlaceInv'
  BY <1>1, <1>2, <1>4, JobNote
<1>9. NewestIsOwed'
  BY <1>1, <1>2, <1>3, <1>4, OwedNote
<1>10. QED
  BY <1>5, <1>6, <1>7, <1>8, <1>9, TypedNote, RequestNote, ViewNote DEF StillHolds

\* The invariant: a result of the worker is taken.
LEMMA StepComplete ==
  ASSUME Holds, CompleteRequest \/ CompleteDiagnostics
  PROVE  StillHolds
<1> USE DEF Holds, Serving
<1>1. PICK t \in Returning : Receive(t) /\ Untrack(Event.serial)
  BY DEF CompleteRequest, CompleteDiagnostics, Returning
<1>2. /\ worker_busy' = FALSE
      /\ UNCHANGED <<slot, work, documents, generation, pending, next_serial, cancelled,
         invalidated,
                     editor, asked>>
  BY DEF CompleteRequest, CompleteDiagnostics, workspace
<1>3. OutInv'
  BY <1>1, <1>2, OutComplete
<1>4. JobInv' /\ PlaceInv'
  BY <1>1, <1>2, JobComplete
<1>5. InboxInv'
  BY <1>1, <1>2, InboxReceive
<1>6. CASE CompleteRequest
  BY <1>3, <1>4, <1>5, <1>6, TypedCompleteRequest, QueueCompleteRequest, RequestCompleteRequest,
     ViewCompleteRequest, OwedCompleteRequest DEF StillHolds
<1>7. CASE CompleteDiagnostics
  BY <1>3, <1>4, <1>5, <1>7, TypedCompleteDiagnostics, QueueCompleteDiagnostics,
     RequestCompleteDiagnostics, ViewCompleteDiagnostics, OwedCompleteDiagnostics DEF StillHolds
<1>8. QED
  BY <1>6, <1>7

\* The invariant: a message is written.
LEMMA StepWrite ==
  ASSUME Holds, Write
  PROVE  StillHolds
<1> USE DEF Holds, Serving
<1>1. UNCHANGED <<lifecycle, workspace, queue, worker, inbox, pc, after, exit, editor, asked,
      analysed>>
  BY DEF Write
<1>2. generation' = generation /\ pc # "ended"
  BY <1>1 DEF workspace, Write
<1>3. QueueInv'
  BY <1>1, <1>2, QueueQuiet
<1>4. OutInv'
  BY <1>1 DEF OutInv, Returned, worker
<1>5. JobInv' /\ PlaceInv'
  BY <1>1, JobStutter
<1>6. InboxInv'
  BY <1>1, <1>2, InboxStutter
<1>7. NewestIsOwed'
  BY <1>1, <1>2, OwedStutter
<1>8. QED
  BY <1>3, <1>4, <1>5, <1>6, <1>7, TypedWrite, RequestWrite, ViewWrite DEF StillHolds

\* The invariant: the coordinator goes on.
LEMMA StepProceed ==
  ASSUME Holds, Proceed
  PROVE  StillHolds
<1> USE DEF Holds, Serving
<1>1. /\ outbox = <<>>
      /\ UNCHANGED <<lifecycle, workspace, controls, next_serial, cancelled, invalidated, work,
         inbox,
                     outbox, after, exit, editor, asked, client, analysed>>
  BY ProceedEffect
<1>2. UNCHANGED <<documents, generation, published, answer, view>>
  BY <1>1 DEF workspace, client
<1>3. InboxInv'
  BY <1>1, <1>2, InboxStutter
<1>4. RequestInv' /\ AnswerInv'
  BY <1>1, <1>2, RequestStutter
<1>5. ViewInv'
  BY <1>1, <1>2, ViewStutter
<1>6. QED
  BY <1>3, <1>4, <1>5, TypedProceed, QueueProceed, OutProceed, JobProceed, OwedProceed
     DEF StillHolds

\* The invariant: the worker takes a job.
LEMMA StepTakes ==
  ASSUME Holds, WorkerTakes
  PROVE  StillHolds
<1> USE DEF Holds, Serving
<1>1. UNCHANGED <<lifecycle, workspace, queue, worker_busy, inbox, coordinator, editor, asked,
      client, analysed>>
  BY DEF WorkerTakes
<1>2. UNCHANGED <<documents, generation, published, controls, cancelled, answer, view, outbox,
      pc>>
  BY <1>1 DEF workspace, queue, coordinator, client
<1>3. QueueInv'
  BY <1>1, <1>2, QueueQuiet
<1>4. InboxInv'
  BY <1>1, <1>2, InboxStutter
<1>5. RequestInv' /\ AnswerInv'
  BY <1>1, <1>2, RequestStutter
<1>6. ViewInv'
  BY <1>1, <1>2, ViewStutter
<1>7. QED
  BY <1>3, <1>4, <1>5, <1>6, TypedTakes, OutTakes, JobTakes, OwedTakes DEF StillHolds

\* The invariant: the worker sends a result.
LEMMA StepFinishes ==
  ASSUME Holds, Finishes
  PROVE  StillHolds
<1> USE DEF Holds, Serving
<1>1. UNCHANGED <<lifecycle, workspace, queue, worker_busy, slot, coordinator, editor, asked,
      client, analysed>>
  BY FinishesEffect DEF Typed
<1>2. PICK e \in EventType : inbox' = Append(inbox, e) /\ (Prepared(e) \/ Analysed(e))
  BY FinishesEffect DEF Typed
<1>3. e.type \in Returning
  BY <1>2 DEF Prepared, Analysed, Returning
<1>4. UNCHANGED <<documents, generation, published, controls, cancelled, answer, view, outbox,
      pc>>
  BY <1>1 DEF workspace, queue, coordinator, client
<1>5. QueueInv'
  BY <1>1, <1>4, QueueQuiet
<1>6. InboxInv'
  BY <1>1, <1>2, <1>3, <1>4, InboxAppend
<1>7. RequestInv' /\ AnswerInv'
  BY <1>1, <1>4, RequestStutter
<1>8. ViewInv'
  BY <1>1, <1>4, ViewStutter
<1>9. QED
  BY <1>5, <1>6, <1>7, <1>8, TypedFinishes, OutFinishes, JobFinishes, OwedFinishes DEF StillHolds

\* The invariant: the server ends.
LEMMA StepEnds ==
  ASSUME Holds, Ends
  PROVE  Typed' /\ QueueInv' /\ OutInv' /\ pc' = "ended"
<1> USE DEF Holds, Serving
<1>1. pc' = "ended" /\ UNCHANGED worker
  BY DEF Ends, EndOfInput, InputFailure, WriteFails, Leave, End
<1>2. CASE EndOfInput \/ InputFailure
  <2>1. PICK t \in {"eof", "failure"} : Receive(t)
    BY <1>2 DEF EndOfInput, InputFailure
  <2>2. t \notin Returning
    BY DEF Returning
  <2>3. OutInv'
    BY <1>1, <2>1, <2>2, OutReceive
  <2>4. QED
    BY <1>1, <2>3, TypedEnds, QueueEnds
<1>3. CASE WriteFails \/ Leave
  <2>1. inbox' = inbox
    BY <1>3 DEF WriteFails, Leave
  <2>2. OutInv'
    BY <1>1, <2>1 DEF OutInv, Returned, worker
  <2>3. QED
    BY <1>1, <2>2, TypedEnds, QueueEnds
<1>4. QED
  BY <1>2, <1>3 DEF Ends

\* The invariant: nothing changes.
LEMMA Unmoved ==
  ASSUME IInv, UNCHANGED vars
  PROVE  IInv'
<1>1. UNCHANGED <<lifecycle, documents, generation, published, pending, controls, worker_busy,
      next_serial,
                  cancelled, invalidated, inbox, slot, work, pc, outbox, after, exit, editor,
                  asked, answer,
                  view, analysed>>
  BY DEF vars, workspace, queue, worker, coordinator, client
<1>2. Typed'
  <2>1. Typed
    BY DEF IInv
  <2>2. WorkspaceOK' /\ QueueOK' /\ WorkerOK'
    BY <1>1, <2>1 DEF Typed, WorkspaceOK, IsOpen, QueueOK, WorkerOK
  <2>3. InboxOK' /\ ControlOK' /\ OutboxOK'
    BY <1>1, <2>1 DEF Typed, InboxOK, ControlOK, OutboxOK
  <2>4. EditorOK' /\ ClientOK' /\ HistoryOK'
    BY <1>1, <2>1 DEF Typed, EditorOK, ClientOK, HistoryOK
  <2>5. QED
    BY <2>2, <2>3, <2>4 DEF Typed
<1>3. QueueInv'
  BY <1>1, QueueQuiet DEF IInv, queue
<1>4. OutInv'
  BY <1>1 DEF IInv, OutInv, Returned
<1>5. ASSUME pc' # "ended"
      PROVE  Serving'
  <2>1. Serving /\ pc # "ended"
    BY <1>1, <1>5 DEF IInv
  <2>2. JobInv' /\ PlaceInv'
    BY <1>1, <2>1, JobStutter DEF Serving, workspace, queue, worker
  <2>3. InboxInv'
    BY <1>1, <2>1, InboxStutter DEF Serving
  <2>4. RequestInv' /\ AnswerInv'
    BY <1>1, <2>1, RequestStutter DEF Serving
  <2>5. ViewInv'
    BY <1>1, <2>1, ViewStutter DEF Serving
  <2>6. NewestIsOwed'
    BY <1>1, <2>1, OwedStutter DEF Serving, workspace, queue, worker
  <2>7. QED
    BY <2>2, <2>3, <2>4, <2>5, <2>6 DEF Serving
<1>6. QED
  BY <1>2, <1>3, <1>4, <1>5 DEF IInv

\* Every step keeps the invariant.
LEMMA Steps ==
  ASSUME IInv, Next
  PROVE  IInv'
<1>1. pc # "ended"
  BY DEF Next, Editor, ReadRequest, ReadEdit, ReadCancel, ReadLast, Read, Coordinate, Handle,
     Initialize,
     Refuse, QueueRequest, RefuseRequest, Shutdown, CancelRequest, DidOpen, DidChange, DidClose,
     ExitNotification, ParseError, EndOfInput, InputFailure, CompleteRequest, CompleteDiagnostics,
     Receive, Write, Proceed, Leave, Written, WriteFails, Work, WorkerTakes, WorkerPrepares,
       WorkerAnalyses
<1>2. Holds /\ InboxOK
  BY <1>1 DEF IInv, Holds, Typed
<1>3. StillHolds => IInv'
  BY DEF StillHolds, IInv, Serving
<1>4. CASE Editor
  BY <1>2, <1>3, <1>4, StepReader
<1>5. CASE Handle
  <2>1. CASE Initialize \/ Refuse \/ RefuseRequest \/ (Shutdown /\ lifecycle # "running")
    BY <1>2, <1>3, <2>1, QuickSteps, StepQuick
  <2>2. CASE QueueRequest
    BY <1>2, <1>3, <2>2, StepQueueRequest
  <2>3. CASE Shutdown /\ lifecycle = "running"
    BY <1>2, <1>3, <2>3, StepShutdown
  <2>4. CASE CancelRequest
    BY <1>2, <1>3, <2>4, StepCancelRequest
  <2>5. CASE Edit
    BY <1>2, <1>3, <2>5, StepEdit
  <2>6. CASE ExitNotification \/ ParseError
    BY <1>2, <1>3, <2>6, StepNote
  <2>7. CASE CompleteRequest \/ CompleteDiagnostics
    BY <1>2, <1>3, <2>7, StepComplete
  <2>8. CASE EndOfInput \/ InputFailure
    BY <1>2, <2>8, StepEnds DEF Ends, IInv
  <2>9. QED
    BY <1>5, <2>1, <2>2, <2>3, <2>4, <2>5, <2>6, <2>7, <2>8 DEF Handle, Edit
<1>6. CASE Write
  BY <1>2, <1>3, <1>6, StepWrite
<1>7. CASE Proceed
  BY <1>2, <1>3, <1>7, StepProceed
<1>8. CASE Leave \/ WriteFails
  BY <1>2, <1>8, StepEnds DEF Ends, IInv
<1>9. CASE WorkerTakes
  BY <1>2, <1>3, <1>9, StepTakes
<1>10. CASE WorkerPrepares \/ WorkerAnalyses
  BY <1>2, <1>3, <1>10, StepFinishes DEF Finishes
<1>11. QED
  BY <1>4, <1>5, <1>6, <1>7, <1>8, <1>9, <1>10 DEF Next, Coordinate, Work

-----------------------------------------------------------------------------
(* The theorems.                                                           *)

\* The invariant holds at the start.
LEMMA Starts ==
  ASSUME Init
  PROVE  IInv
<1> USE Constants DEF Init
<1>1. WorkspaceOK
  BY DEF WorkspaceOK, DocsType, DocumentType, NoDocuments, AnalysisType, PublishedType, IsOpen
<1>2. QueueOK
  BY FS_EmptySet DEF QueueOK
<1>3. WorkerOK /\ InboxOK /\ OutboxOK /\ ControlOK /\ HistoryOK
  <2>1. WorkerOK
    <3>1. worker_busy \in BOOLEAN
      OBVIOUS
    <3>2. slot \in Seq(JobType)
      OBVIOUS
    <3>3. QED
      BY <3>1, <3>2 DEF WorkerOK
  <2>2. InboxOK /\ OutboxOK
    BY DEF InboxOK, OutboxOK
  <2>3. ControlOK
    BY DEF ControlOK
  <2>4. HistoryOK
    BY DEF HistoryOK
  <2>5. QED
    BY <2>1, <2>2, <2>3, <2>4
<1>4. EditorOK
  BY DEF EditorOK
<1>5. ClientOK
  BY DEF ClientOK, NoView
<1>6. QueueInv
  BY DEF QueueInv, Serials
<1>7. Returned = {} /\ ~work.busy /\ DOMAIN inbox = {} /\ DOMAIN outbox = {}
  BY DEF Returned, NoWork
<1>8. OutInv
  BY <1>7 DEF OutInv
<1>9. JobInv /\ PlaceInv
  BY <1>7 DEF JobInv, PlaceInv
<1>10. InboxInv
  <2>1. {i \in DOMAIN inbox : inbox[i].type \in Editing} = {}
    BY <1>7
  <2>2. Cardinality({i \in DOMAIN inbox : inbox[i].type \in Editing}) = 0
    BY <2>1, FS_EmptySet
  <2>3. QED
    BY <1>7, <2>2 DEF InboxInv
<1>11. RequestInv /\ AnswerInv
  BY <1>7 DEF RequestInv, AnswerInv, Awaited, Due
<1>12. ViewInv
  BY <1>7 DEF ViewInv, Shows, NoView, Absent
<1>13. NewestIsOwed
  BY DEF NewestIsOwed
<1>14. QED
  BY <1>1, <1>2, <1>3, <1>4, <1>5, <1>6, <1>8, <1>9, <1>10, <1>11, <1>12, <1>13
     DEF IInv, Typed, Serving

\* The inductive invariant holds in every behaviour of the language server.
THEOREM Invariance == Spec => []IInv
<1>1. Init => IInv
  BY Starts
<1>2. IInv /\ [Next]_vars => IInv'
  BY Steps, Unmoved
<1>3. QED
  BY <1>1, <1>2, PTL DEF Spec

\* Every variable keeps its type; the serials of the queue are tracked and were issued, and the
\* job channel holds at most one job.
THEOREM TypeCorrect == Spec => []TypeOK
<1>1. IInv => TypeOK
  <2> SUFFICES ASSUME IInv PROVE TypeOK
    OBVIOUS
  <2> USE DEF IInv, Typed
  <2>1. \A u \in Uris : documents[u] \in {Closed} \cup [version : 1..MaxVersion,
                          path : UNION {Identity[v] : v \in Uris}, generation : 1..generation]
    BY DEF WorkspaceOK, DocsType, DocumentType, Paths, IsOpen
  <2>2. documents \in [Uris -> {Closed} \cup [version : 1..MaxVersion,
                          path : UNION {Identity[u] : u \in Uris}, generation : 1..generation]]
    BY <2>1 DEF WorkspaceOK, DocsType
  <2>3. \A u \in Uris : published[u].diagnostics \in Diagnostics
    <3>1. TAKE u \in Uris
    <3>2. published[u] \in PublishedType
      BY DEF WorkspaceOK, AnalysisType
    <3>3. CASE published[u] = Absent
      BY <3>3, Constants DEF Absent
    <3>4. CASE published[u] # Absent
      BY <3>2, <3>4 DEF PublishedType
    <3>5. QED
      BY <3>3, <3>4
  <2>4. \A u \in Uris : view[u].diagnostics \in Diagnostics
    BY DEF ClientOK
  <2>5. Serials(pending) \subseteq Serials(controls)
    <3>1. \A job \in pending : Control(job.serial, job.id) \in controls
      BY DEF QueueInv
    <3>2. \A job \in pending : Control(job.serial, job.id).serial = job.serial
      BY DEF Control
    <3>3. QED
      BY <3>1, <3>2 DEF Serials
  <2>6. Len(slot) <= 1
    <3>1. slot \in Seq(JobType)
      BY DEF WorkerOK
    <3>2. CASE slot = <<>>
      BY <3>2
    <3>3. CASE slot # <<>>
      BY <3>3 DEF OutInv
    <3>4. QED
      BY <3>2, <3>3
  <2>7. QED
    BY <2>2, <2>3, <2>4, <2>5, <2>6 DEF TypeOK, WorkspaceOK, QueueOK, WorkerOK, ControlOK,
       QueueInv, Issued
<1>2. QED
  BY <1>1, Invariance, PTL

\* publish_diagnostics is exact: whenever the coordinator waits for an event, the editor shows
\* what the server believes it has published, after any history of edits and analyses.
THEOREM ViewPublished == Spec => []ViewIsPublished
<1>1. IInv => ViewIsPublished
  BY Idle DEF IInv, Serving, ViewIsPublished, Shows
<1>2. QED
  BY <1>1, Invariance, PTL

\* A running server owes the newest documents an analysis until it has published one or that
\* analysis failed: no order of edits, cancellations and results loses the last one.
THEOREM NewestOwed == Spec => []NewestIsOwed
<1>1. IInv => NewestIsOwed
  BY DEF IInv, Serving, NewestIsOwed
<1>2. QED
  BY <1>1, Invariance, PTL

\* A set with at most one element has none or one.
LEMMA AtMostOne ==
  ASSUME NEW S, \A x, y \in S : x = y
  PROVE  Cardinality(S) = IF S = {} THEN 0 ELSE 1
<1>1. CASE S = {}
  BY <1>1, FS_EmptySet
<1>2. CASE S # {}
  <2>1. PICK x : S = {x}
    BY <1>2
  <2>2. QED
    BY <1>2, <2>1, FS_Singleton
<1>3. QED
  BY <1>1, <1>2

\* worker_busy is true exactly while one job is out.
LEMMA OneOut ==
  ASSUME Typed, OutInv
  PROVE  OneJobOut
<1> DEFINE Back == {i \in DOMAIN inbox : inbox[i].type \in {"prepared", "analysis"}}
<1>1. Back = Returned
  BY DEF Returned, Returning
<1>2. \A i, j \in Returned : i = j
  BY DEF OutInv
<1>3. Cardinality(Back) = IF Returned = {} THEN 0 ELSE 1
  BY <1>1, <1>2, AtMostOne
<1>4. slot \in Seq(JobType) /\ worker_busy \in BOOLEAN /\ work.busy \in BOOLEAN
  <2>1. slot \in Seq(JobType) /\ worker_busy \in BOOLEAN
    BY DEF Typed, WorkerOK
  <2>2. CASE work = NoWork
    <3>1. NoWork.busy = FALSE
      BY DEF NoWork
    <3>2. QED
      BY <2>1, <2>2, <3>1
  <2>3. CASE work # NoWork
    BY <2>3 DEF Typed, WorkerOK
  <2>4. QED
    BY <2>1, <2>2, <2>3
<1>5. Len(slot) = IF slot = <<>> THEN 0 ELSE 1
  BY <1>4 DEF OutInv
<1> HIDE DEF Back
<1>6. Len(slot) + (IF work.busy THEN 1 ELSE 0) + Cardinality(Back) = (IF worker_busy THEN 1 ELSE 0)
  <2>1. CASE slot # <<>>
    BY <1>3, <1>4, <1>5, <2>1 DEF OutInv
  <2>2. CASE slot = <<>> /\ work.busy
    BY <1>3, <1>4, <1>5, <2>2 DEF OutInv
  <2>3. CASE slot = <<>> /\ ~work.busy
    BY <1>3, <1>4, <1>5, <2>3 DEF OutInv
  <2>4. QED
    BY <2>1, <2>2, <2>3
<1>7. QED
  BY <1>6 DEF OneJobOut, Back

\* The answers to a request among the messages to be written.
LEMMA WritingIs ==
  ASSUME Typed, NEW id \in Ids
  PROVE  \A i \in DOMAIN outbox : i \in Mine(id, outbox) <=> (Answers(i) /\ outbox[i].id = id)
<1>1. TAKE i \in DOMAIN outbox
<1>2. outbox[i] \in MessageType
  BY DEF Typed, OutboxOK
<1>3. CASE outbox[i] \in [type : {"response"}, id : Ids \cup {NoId}, kind : Kinds,
           basis : DocsType]
  BY <1>3, Constants DEF Mine, Answers
<1>4. CASE outbox[i] \in [type : {"publish"}, uri : Uris, version : 0..MaxVersion,
           diagnostics : Diagnostics]
  BY <1>4 DEF Mine, Answers
<1>5. QED
  BY <1>2, <1>3, <1>4 DEF MessageType

\* The result that carries the serial of a tracked request is the result of that request.
LEMMA PreparedMine ==
  ASSUME Typed, OutInv, Serving, NEW id \in Ids, NEW c \in controls, c.id = id,
         NEW i \in Returned,
         inbox[i].serial = c.serial
  PROVE  i \in Mine(id, inbox) /\ inbox[i].type = "prepared"
<1>1. ResultSound(inbox[i]) /\ inbox[i].type \in Returning /\ inbox[i] \in EventType
      /\ i \in DOMAIN inbox
  BY DEF Serving, JobInv, Returned, Typed, InboxOK
<1>2. id # NoId
  BY Constants
<1>3. inbox[i].type # "analysis"
  BY <1>1, <1>2 DEF ResultSound, Known
<1>4. inbox[i].type = "prepared"
  BY <1>1, <1>3 DEF Returning
<1>5. inbox[i].id = id
  BY <1>1, <1>4 DEF ResultSound, Known
<1>6. inbox[i] \in [type : {"prepared"}, serial : Nat, id : Ids, generation : Nat,
      basis : DocsType,
                    outcome : {"ok", "failed", "cancelled"}]
  BY <1>1, <1>4 DEF EventType, Asking
<1>7. "id" \in DOMAIN inbox[i]
  BY <1>6
<1>8. QED
  BY <1>1, <1>4, <1>5, <1>7 DEF Mine

\* A request taken up is tracked, about to be answered or answered, and only one of these.
LEMMA OneAccount ==
  ASSUME Typed, RequestInv, NEW id \in Ids
  PROVE  Cardinality({c \in controls : c.id = id}) + Cardinality(Mine(id,
         outbox)) + Len(answer[id])
             = (IF asked[id].state = "no" THEN 0 ELSE 1)
<1> DEFINE T == {c \in controls : c.id = id}
           W == Mine(id, outbox)
<1>1. id # NoId /\ W \subseteq DOMAIN outbox
  BY Constants DEF Mine
<1>2. \A c, d \in T : c = d
  BY <1>1 DEF RequestInv
<1>3. \A i, j \in W : i = j
  BY <1>1, WritingIs DEF RequestInv
<1>4. Cardinality(T) = IF T = {} THEN 0 ELSE 1
  BY <1>2, AtMostOne
<1>5. Cardinality(W) = IF W = {} THEN 0 ELSE 1
  BY <1>3, AtMostOne
<1>6. T # {} <=> Awaited(id)
  BY DEF Awaited
<1>7. W # {} <=> Due(id)
  BY <1>1, WritingIs DEF Due
<1>8. answer[id] \in Seq([kind : Kinds, basis : DocsType])
  BY DEF Typed, ClientOK
<1>9. answer[id] = <<>> => Len(answer[id]) = 0
  BY <1>8
<1>10. /\ asked[id].state = "no" => ~Awaited(id) /\ ~Due(id) /\ answer[id] = <<>>
       /\ asked[id].state # "no" => Awaited(id) \/ Due(id) \/ Len(answer[id]) = 1
       /\ Awaited(id) => ~Due(id) /\ answer[id] = <<>>
       /\ Due(id) => answer[id] = <<>>
  BY DEF RequestInv
<1> HIDE DEF T, W
<1>11. Cardinality(T) + Cardinality(W) + Len(answer[id]) = (IF asked[id].state = "no" THEN 0 ELSE 1)
  <2>1. CASE asked[id].state = "no"
    <3>1. T = {} /\ W = {} /\ answer[id] = <<>>
      BY <1>6, <1>7, <1>10, <2>1
    <3>2. Cardinality(T) = 0 /\ Cardinality(W) = 0 /\ Len(answer[id]) = 0
      BY <1>4, <1>5, <1>9, <3>1
    <3>3. QED
      BY <2>1, <3>2
  <2>2. CASE asked[id].state # "no" /\ Awaited(id)
    <3>1. T # {} /\ W = {} /\ answer[id] = <<>>
      BY <1>6, <1>7, <1>10, <2>2
    <3>2. Cardinality(T) = 1 /\ Cardinality(W) = 0 /\ Len(answer[id]) = 0
      BY <1>4, <1>5, <1>9, <3>1
    <3>3. QED
      BY <2>2, <3>2
  <2>3. CASE asked[id].state # "no" /\ ~Awaited(id) /\ Due(id)
    <3>1. T = {} /\ W # {} /\ answer[id] = <<>>
      BY <1>6, <1>7, <1>10, <2>3
    <3>2. Cardinality(T) = 0 /\ Cardinality(W) = 1 /\ Len(answer[id]) = 0
      BY <1>4, <1>5, <1>9, <3>1
    <3>3. QED
      BY <2>3, <3>2
  <2>4. CASE asked[id].state # "no" /\ ~Awaited(id) /\ ~Due(id)
    <3>1. T = {} /\ W = {} /\ Len(answer[id]) = 1
      BY <1>6, <1>7, <1>10, <2>4
    <3>2. Cardinality(T) = 0 /\ Cardinality(W) = 0
      BY <1>4, <1>5, <3>1
    <3>3. QED
      BY <2>4, <3>1, <3>2
  <2>5. QED
    BY <2>1, <2>2, <2>3, <2>4
<1>12. QED
  BY <1>11 DEF T, W

\* Every request taken up and not yet answered is in exactly one place that leads to its answer,
\* and the worker has exactly the jobs the coordinator believes it has.
THEOREM RequestsAccounted == Spec => []RequestAccounted
<1>1. IInv => RequestAccounted
  <2>1. SUFFICES ASSUME IInv PROVE RequestAccounted
    OBVIOUS
  <2>2. Typed /\ OutInv
    BY <2>1 DEF IInv
  <2>3. ASSUME NEW id \in Ids, pc # "ended"
        PROVE  Cardinality({c \in controls : c.id = id}) + Cardinality(Mine(id,
               outbox)) + Len(answer[id])
                   = (IF asked[id].state = "no" THEN 0 ELSE 1)
    BY <2>1, <2>2, <2>3, OneAccount DEF IInv, Serving
  <2>4. ASSUME NEW id \in Ids, pc # "ended", NEW c \in controls, c.id = id
        PROVE  \/ c.serial \in Serials(pending)
               \/ \E i \in DOMAIN slot : slot[i].serial = c.serial
               \/ work.busy /\ work.job.serial = c.serial
               \/ \E i \in Mine(id, inbox) : inbox[i].type = "prepared"
                  /\ inbox[i].serial = c.serial
    <3>1. Serving /\ Placed(c.serial)
      BY <2>1, <2>4 DEF IInv, Serving, PlaceInv
    <3>2. slot # <<>> => 1 \in DOMAIN slot
      BY <2>2 DEF Typed, WorkerOK
    <3>3. QED
      BY <2>2, <2>4, <3>1, <3>2, PreparedMine DEF Placed
  <2>5. OneJobOut
    BY <2>2, OneOut
  <2>6. QED
    BY <2>3, <2>4, <2>5 DEF RequestAccounted
<1>2. QED
  BY <1>1, Invariance, PTL
=============================================================================
