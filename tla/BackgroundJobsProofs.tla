------------------------ MODULE BackgroundJobsProofs ------------------------
(* Theorems about the job table, for every number of jobs and members. *)
EXTENDS BackgroundJobs, TLAPS

-----------------------------------------------------------------------------
(* The pure job: what each lifecycle step preserves. *)

GoodJob(q) == q \in JobType /\ PublishedJob(q)

(* Folding the members of a job with a known placement publishes it, and a *)
(* notice becomes owed only by reaching a new stop or completion.          *)
LEMMA ReconcileGood ==
  ASSUME NEW q \in JobType, q.placement \in Placement, q.state # "starting"
  PROVE  /\ GoodJob(Reconcile(q))
         /\ Reconcile(q).members = q.members
         /\ Reconcile(q).placement = q.placement
         /\ Reconcile(q).state \in Running => Reconcile(q).pending = q.pending
         /\ Reconcile(q).state \notin Running =>
              Reconcile(q).pending = (q.pending \/ Reconcile(q).state # q.state)
<1> USE DEF GoodJob, PublishedJob, JobType, JobState, Placement, Running
<1> DEFINE new == Reconcile(q)
<1>1. CASE AllCompleted(q)
  <2>1. new = [q EXCEPT !.state = "completed", !.resume = "none",
                        !.pending = @ \/ q.state # "completed"]
    BY <1>1 DEF Reconcile
  <2>2. QED
    BY <1>1, <2>1 DEF AllCompleted
<1>2. CASE ~AllCompleted(q) /\ AllLiveStopped(q)
  <2>1. new = [q EXCEPT !.state = "stopped", !.resume = q.placement,
                        !.pending = @ \/ q.state # "stopped"]
    BY <1>2 DEF Reconcile
  <2>2. QED
    BY <1>2, <2>1 DEF AllLiveStopped
<1>3. CASE ~AllCompleted(q) /\ ~AllLiveStopped(q)
  <2>1. new = [q EXCEPT !.state = q.placement, !.resume = "none"]
    BY <1>3 DEF Reconcile
  <2>2. QED
    BY <2>1
<1>4. QED
  BY <1>1, <1>2, <1>3

(* A stop observation. *)
LEMMA ObserveStoppedGood ==
  ASSUME NEW q, GoodJob(q), NEW m \in Members, Accepts(q, m)
  PROVE  /\ GoodJob(ObserveStopped(q, m))
         /\ ObserveStopped(q, m).state # "completed"
         /\ q.state = "stopped" => ObserveStopped(q, m).state \notin Running
         /\ ObserveStopped(q, m).state \in Running => ObserveStopped(q, m).pending = q.pending
         /\ ObserveStopped(q, m).state \notin Running =>
              ObserveStopped(q, m).pending = (q.pending \/ ObserveStopped(q, m).state # q.state)
<1> DEFINE p == [q EXCEPT !.members[m] = "stopped"]
<1>1. p \in JobType /\ p.placement \in Placement /\ p.state # "starting"
      /\ p.state = q.state /\ p.pending = q.pending
  BY DEF GoodJob, PublishedJob, JobType, MemberState
<1>2. q.state = "stopped" => AllLiveStopped(p)
  BY DEF GoodJob, PublishedJob, JobType, AllLiveStopped
<1>3. q.state = "stopped" => Reconcile(p).state \notin Running
  BY <1>1, <1>2 DEF Reconcile, JobType, Running
<1>4. ~AllCompleted(p)
  BY DEF GoodJob, JobType, AllCompleted
<1>5. Reconcile(p).state # "completed"
  BY <1>1, <1>4 DEF Reconcile, JobType, Placement, GoodJob, PublishedJob
<1>6. QED
  BY <1>1, <1>3, <1>5, ReconcileGood DEF ObserveStopped

(* A continuation: the job runs again and owes no notice. *)
LEMMA ObserveContinuedGood ==
  ASSUME NEW q, GoodJob(q), NEW m \in Members, Accepts(q, m)
  PROVE  /\ GoodJob(ObserveContinued(q, m))
         /\ ObserveContinued(q, m).state \in Running
         /\ ObserveContinued(q, m).pending = FALSE
<1> DEFINE p == [q EXCEPT !.members[m] = "running",
                          !.placement = IF q.state = "stopped" THEN q.resume ELSE @,
                          !.pending = FALSE]
<1>1. p \in JobType /\ p.placement \in Placement /\ p.state # "starting"
      /\ p.pending = FALSE
  BY DEF GoodJob, PublishedJob, JobType, MemberState
<1>2. p.members[m] = "running"
  BY DEF GoodJob, PublishedJob, JobType
<1>3. ~AllCompleted(p) /\ ~AllLiveStopped(p)
  BY <1>2 DEF AllCompleted, AllLiveStopped
<1>4. Reconcile(p).state = p.placement
  BY <1>1, <1>3 DEF Reconcile, JobType
<1>5. QED
  BY <1>1, <1>4, ReconcileGood DEF ObserveContinued, Placement, Running

(* A completion observation. *)
LEMMA ObserveCompletedGood ==
  ASSUME NEW q, GoodJob(q), NEW m \in Members, Accepts(q, m)
  PROVE  /\ GoodJob(ObserveCompleted(q, m))
         /\ q.state = "stopped" => ObserveCompleted(q, m).state \notin Running
         /\ ObserveCompleted(q, m).state \in Running => ObserveCompleted(q, m).pending = q.pending
         /\ ObserveCompleted(q, m).state \notin Running =>
              ObserveCompleted(q, m).pending = (q.pending \/ ObserveCompleted(q, m).state # q.state)
<1> DEFINE p == [q EXCEPT !.members[m] = "completed"]
<1>1. p \in JobType /\ p.placement \in Placement /\ p.state # "starting"
      /\ p.state = q.state /\ p.pending = q.pending
  BY DEF GoodJob, PublishedJob, JobType, MemberState
<1>2. q.state = "stopped" => AllLiveStopped(p)
  BY DEF GoodJob, PublishedJob, JobType, AllLiveStopped
<1>3. q.state = "stopped" => Reconcile(p).state \notin Running
  BY <1>1, <1>2 DEF Reconcile, JobType, Running
<1>4. QED
  BY <1>1, <1>3, ReconcileGood DEF ObserveCompleted

(* A delivered continuation, a change of placement, an acknowledged stop   *)
(* and a fresh start.                                                      *)
LEMMA ContinueInGood ==
  ASSUME NEW q, GoodJob(q), NEW p \in Placement
  PROVE  /\ GoodJob(ContinueIn(q, p))
         /\ ContinueIn(q, p).pending = FALSE
         /\ ContinueIn(q, p).state \in Running
  BY DEF GoodJob, PublishedJob, ContinueIn, JobType, JobState, MemberState, Placement, Running

(* Job::move_to keeps the job sound.                                       *)
LEMMA MoveToGood ==
  ASSUME NEW q, GoodJob(q), NEW p \in Placement, q.state \in Running
  PROVE  /\ GoodJob(MoveTo(q, p))
         /\ MoveTo(q, p).pending = q.pending
         /\ MoveTo(q, p).state \in Running
  BY DEF GoodJob, PublishedJob, MoveTo, JobType, JobState, Placement, Running

(* Acknowledging a stop keeps the job sound.                               *)
LEMMA AcknowledgeStoppedGood ==
  ASSUME NEW q, GoodJob(q)
  PROVE  /\ GoodJob(AcknowledgeStopped(q))
         /\ AcknowledgeStopped(q).pending = FALSE
         /\ AcknowledgeStopped(q).state = q.state
  BY DEF GoodJob, PublishedJob, AcknowledgeStopped, JobType, AllLiveStopped, AllCompleted

(* Reaping keeps the job typed.                                            *)
LEMMA ReapType ==
  ASSUME NEW q \in JobType
  PROVE  Reap(q) \in JobType
  BY DEF Reap, JobType, JobState

(* A job that has just started is sound.                                   *)
LEMMA StartGood ==
  ASSUME NEW ms \in SUBSET Members, ms # {}, NEW p \in Placement
  PROVE  LET q == FinishStarting(AddProcesses(BeginStarting(NewJob), ms), p)
         IN  GoodJob(q) /\ q.pending = FALSE /\ q.state \in Running
<1> DEFINE a == AddProcesses(BeginStarting(NewJob), ms)
           b == [a EXCEPT !.placement = p, !.state = p]
<1>1. a \in JobType /\ a.pending = FALSE /\ \A m \in ms : a.members[m] = "running"
  BY DEF AddProcesses, BeginStarting, NewJob, JobType, JobState, MemberState, Placement
<1>2. b \in JobType /\ b.placement = p /\ b.state = p /\ b.pending = FALSE
      /\ \A m \in ms : b.members[m] = "running"
  BY <1>1 DEF JobType, JobState, Placement
<1>3. ~AllCompleted(b) /\ ~AllLiveStopped(b)
  BY <1>2 DEF AllCompleted, AllLiveStopped
<1>4. b.state # "starting" /\ b.placement \in Placement
  BY <1>2 DEF Placement
<1>5. Reconcile(b).state = p
  BY <1>2, <1>3, <1>4 DEF Reconcile, JobType
<1>6. Reconcile(b).state \in Running
  BY <1>5 DEF Placement, Running
<1>7. QED
  BY <1>2, <1>4, <1>6, ReconcileGood DEF FinishStarting

-----------------------------------------------------------------------------
(* One record under an observation. *)

GoodRecord(r) ==
  /\ r \in RecordType /\ PublishedJob(r.job)
  /\ r.completion # "none" <=> r.job.state = "completed"
  /\ r.resume_requested => r.job.state \in {"stopped", "completed"}

Owing(r) == r.job.pending => r.job.state \in {"stopped", "completed"}

(* A stop observation of a good record. *)
LEMMA OnStoppedGood ==
  ASSUME NEW r, GoodRecord(r), Owing(r), NEW m \in Members, Accepts(r.job, m)
  PROVE  LET r1 == OnStopped(r, m) IN
         /\ GoodRecord(r1) /\ r1.job.state # "completed"
         /\ ~Stopped(r) /\ Stopped(r1) => r1.job.pending
         /\ Stopped(r) => Stopped(r1) /\ r1.job.pending = r.job.pending
         /\ ~Stopped(r1) => r1.job.pending = r.job.pending
<1> DEFINE j == ObserveStopped(r.job, m)
           r1 == OnStopped(r, m)
<1>1. GoodJob(r.job)
  BY DEF GoodRecord, GoodJob, RecordType
<1>2. /\ j \in JobType /\ PublishedJob(j) /\ j.state # "completed"
      /\ r.job.state = "stopped" => j.state \notin Running
      /\ j.state \in Running => j.pending = r.job.pending
      /\ j.state \notin Running => j.pending = (r.job.pending \/ j.state # r.job.state)
  BY <1>1, ObserveStoppedGood DEF GoodJob
<1>3. r1 \in RecordType /\ r1.job = j /\ r1.completion = r.completion
      /\ r1.resume_requested = (r.resume_requested /\ ~(r.job.state # "stopped" /\ j.state = "stopped"))
  BY <1>2 DEF OnStopped, GoodRecord, RecordType
<1>4. r.job.state \in Running \cup {"stopped"} /\ j.state \in Running \cup {"stopped"}
  BY <1>1, <1>2 DEF Accepts, Observable, GoodJob, PublishedJob, Running
<1>5. QED
  BY <1>1, <1>2, <1>3, <1>4 DEF GoodRecord, Stopped, Running, GoodJob, JobType

(* A continuation of a good record. *)
LEMMA OnContinuedGood ==
  ASSUME NEW r, GoodRecord(r), NEW m \in Members, Accepts(r.job, m)
  PROVE  LET r1 == OnContinued(r, m) IN
         GoodRecord(r1) /\ r1.job.state \in Running /\ r1.job.pending = FALSE
<1> DEFINE j == ObserveContinued(r.job, m)
           r1 == OnContinued(r, m)
<1>1. GoodJob(r.job) /\ r.job.state # "completed"
  BY DEF GoodRecord, GoodJob, RecordType, Accepts, Observable
<1>2. j \in JobType /\ PublishedJob(j) /\ j.state \in Running /\ j.pending = FALSE
  BY <1>1, ObserveContinuedGood DEF GoodJob
<1>3. r1 \in RecordType /\ r1.job = j /\ r1.completion = r.completion
      /\ r1.resume_requested = FALSE
  BY <1>2 DEF OnContinued, GoodRecord, RecordType
<1>4. QED
  BY <1>1, <1>2, <1>3 DEF GoodRecord, Running

(* A completion observation of a good record. *)
LEMMA OnCompletedGood ==
  ASSUME NEW r, GoodRecord(r), Owing(r), NEW m \in Members, Accepts(r.job, m),
         NEW s \in Status \cup {"none"}
  PROVE  LET r1 == OnCompleted(r, m, s) IN
         /\ GoodRecord(r1)
         /\ r1.job.state = "completed" => r1.job.pending
         /\ ~Stopped(r) /\ Stopped(r1) => r1.job.pending
         /\ Stopped(r) /\ r1.job.state # "completed" =>
              Stopped(r1) /\ r1.job.pending = r.job.pending
         /\ ~Stopped(r1) /\ r1.job.state # "completed" => r1.job.pending = r.job.pending
<1> DEFINE j == ObserveCompleted(r.job, m)
           p == [r EXCEPT !.job = j, !.status[m] = s]
           r1 == OnCompleted(r, m, s)
<1>1. GoodJob(r.job) /\ r.job.state # "completed" /\ r.completion = "none"
  BY DEF GoodRecord, GoodJob, RecordType, Accepts, Observable
<1>2. /\ j \in JobType /\ PublishedJob(j)
      /\ r.job.state = "stopped" => j.state \notin Running
      /\ j.state \in Running => j.pending = r.job.pending
      /\ j.state \notin Running => j.pending = (r.job.pending \/ j.state # r.job.state)
  BY <1>1, ObserveCompletedGood DEF GoodJob
<1>3. p \in RecordType /\ p.job = j /\ p.completion = "none"
      /\ p.resume_requested = r.resume_requested
  BY <1>1, <1>2 DEF GoodRecord, RecordType
<1>4. Aggregate(p) \in Status /\ Aggregate(p) # "none"
  BY DEF Aggregate, Status
<1>5. /\ r1 \in RecordType /\ r1.job = j /\ r1.resume_requested = r.resume_requested
      /\ r1.completion = IF j.state = "completed" THEN Aggregate(p) ELSE "none"
  BY <1>3, <1>4 DEF OnCompleted, RecordType
<1>6. r.job.state \in Running \cup {"stopped"}
      /\ j.state \in Running \cup {"stopped", "completed"}
  BY <1>1, <1>2 DEF Accepts, Observable, GoodJob, PublishedJob, Running
<1>7. j.pending \in BOOLEAN /\ r.job.pending \in BOOLEAN
  BY <1>1, <1>2 DEF GoodJob, JobType
<1>8. QED
  BY <1>1, <1>2, <1>4, <1>5, <1>6, <1>7 DEF GoodRecord, Stopped, Running

(* Any observation of a good record, and the notice it queues: a queued    *)
(* stop or completion is what the record then says and owes; otherwise     *)
(* what was owed is still owed and still true, unless a continuation has   *)
(* withdrawn it.                                                           *)
LEMMA ObservedGood ==
  ASSUME NEW r, GoodRecord(r), Owing(r), NEW e \in ObservationType
  PROVE  LET r1 == Observed(r, e)
             k  == NoticeOf(r, r1, e)
             withdrawn == e.kind = "continued" /\ Accepts(r.job, e.member)
         IN
         /\ GoodRecord(r1)
         /\ k \in {"none", "failed", "stopped", "completed"}
         /\ k \in {"stopped", "completed"} => r1.job.state = k /\ r1.job.pending
         /\ withdrawn => k = "none" /\ ~r1.job.pending /\ r.job.state # "completed"
         /\ k \notin {"stopped", "completed"} /\ ~withdrawn =>
              /\ r1.job.pending = r.job.pending
              /\ r.job.pending => r1.job.state = r.job.state
<1> DEFINE r1 == Observed(r, e)
           k  == NoticeOf(r, r1, e)
<1>0. e.member \in Members /\ e.status \in Status \cup {"none"}
      /\ e.kind \in {"stopped", "continued", "completed", "failed"}
  BY DEF ObservationType
<1>1. CASE e.kind = "failed"
  <2>1. r1 = OnFailed(r)
    BY <1>1 DEF Observed
  <2>2. r1 \in RecordType /\ r1.job = r.job /\ r1.completion = r.completion
        /\ r1.resume_requested = r.resume_requested
    BY <2>1 DEF OnFailed, GoodRecord, RecordType
  <2>3. k \in {"none", "failed"}
    BY <1>1 DEF NoticeOf
  <2>4. QED
    BY <1>1, <2>2, <2>3 DEF GoodRecord
<1>2. CASE e.kind # "failed" /\ ~Accepts(r.job, e.member)
  <2>1. r1 = r /\ k = "none"
    BY <1>2 DEF Observed, NoticeOf
  <2>2. QED
    BY <1>2, <2>1
<1>3. CASE e.kind = "stopped" /\ Accepts(r.job, e.member)
  <2>1. r1 = OnStopped(r, e.member)
    BY <1>3 DEF Observed
  <2>2. k = IF ~Stopped(r) /\ Stopped(r1) THEN "stopped" ELSE "none"
    BY <1>0, <1>3, <2>1, OnStoppedGood DEF NoticeOf
  <2>3. QED
    BY <1>0, <1>3, <2>1, <2>2, OnStoppedGood
       DEF Owing, Stopped, Accepts, Observable
<1>4. CASE e.kind = "continued" /\ Accepts(r.job, e.member)
  <2>1. r1 = OnContinued(r, e.member)
    BY <1>4 DEF Observed
  <2>2. GoodRecord(r1) /\ r1.job.state \in Running /\ r1.job.pending = FALSE
    BY <1>0, <1>4, <2>1, OnContinuedGood
  <2>3. k = "none" /\ r.job.state # "completed"
    BY <1>4, <2>2 DEF NoticeOf, Running, Stopped, Accepts, Observable
  <2>4. QED
    BY <1>4, <2>2, <2>3
<1>5. CASE e.kind = "completed" /\ Accepts(r.job, e.member)
  <2>1. r1 = OnCompleted(r, e.member, e.status)
    BY <1>5 DEF Observed
  <2>2. r.job.state # "completed"
    BY <1>5 DEF Accepts, Observable
  <2>3. k = IF r1.job.state = "completed" THEN "completed"
            ELSE IF ~Stopped(r) /\ Stopped(r1) THEN "stopped" ELSE "none"
    BY <1>5, <2>2 DEF NoticeOf
  <2>4. QED
    BY <1>0, <1>5, <2>1, <2>2, <2>3, OnCompletedGood DEF Owing, Stopped
<1>6. QED
  BY <1>0, <1>1, <1>2, <1>3, <1>4, <1>5

-----------------------------------------------------------------------------
(* The table: the invariant over records and queue, and every way the      *)
(* session changes them.                                                   *)

TableInv ==
  /\ TableTypeOK
  /\ \A j \in table : GoodRecord(rec[j]) /\ QueueMatches(j) /\ j < nextJob
  /\ \A n \in notices : n.job < nextJob

(* A record that owes a notice is stopped or completed. *)
LEMMA RecordsOwe ==
  ASSUME TableInv, NEW j \in table
  PROVE  Owing(rec[j])
  BY DEF TableInv, QueueMatches, LifecycleNotices, Owing

(* Nothing the table holds has changed. *)
LEMMA UnchangedInv ==
  ASSUME TableInv, UNCHANGED tableVars, UNCHANGED nextJob
  PROVE  TableInv'
<1>1. table' = table /\ rec' = rec /\ notices' = notices /\ nextNotice' = nextNotice
  BY DEF tableVars
<1>2. TableTypeOK'
  BY <1>1 DEF TableInv, TableTypeOK
<1>3. ASSUME NEW j \in table PROVE QueueMatches(j)'
  BY <1>1 DEF TableInv, QueueMatches, LifecycleNotices
<1>4. QED
  BY <1>1, <1>2, <1>3 DEF TableInv

(* One record is replaced by a good one, and only its notices change. *)
LEMMA ReplaceInv ==
  ASSUME TableInv, NEW j \in table, NEW r, GoodRecord(r),
         rec' = [rec EXCEPT ![j] = r], table' = table, nextJob' = nextJob,
         nextNotice' \in Nat, notices' \subseteq NoticeType,
         \A n : n.job # j => (n \in notices <=> n \in notices'),
         QueueMatches(j)'
  PROVE  TableInv'
<1>1. rec \in [JobIds -> RecordType] /\ table \subseteq JobIds
  BY DEF TableInv, TableTypeOK
<1>2. rec' \in [JobIds -> RecordType] /\ rec'[j] = r
      /\ \A i \in table : i # j => rec'[i] = rec[i]
  BY <1>1 DEF GoodRecord
<1>3. TableTypeOK'
  BY <1>2 DEF TableInv, TableTypeOK
<1>4. ASSUME NEW i \in table', i # j PROVE QueueMatches(i)'
  <2>1. LifecycleNotices(i)' = LifecycleNotices(i)
    BY <1>4 DEF LifecycleNotices
  <2>2. QED
    BY <1>2, <1>4, <2>1 DEF TableInv, QueueMatches
<1>5. \A i \in table' : GoodRecord(rec[i])'
  BY <1>2 DEF TableInv, GoodRecord
<1>6. \A n \in notices' : n.job < nextJob'
  BY DEF TableInv
<1>7. QED
  BY <1>3, <1>4, <1>5, <1>6 DEF TableInv

(* An observation is applied. *)
LEMMA ApplyInv ==
  ASSUME TableInv, NEW e \in ObservationType, Apply(e), nextJob' = nextJob
  PROVE  TableInv'
<1>1. CASE e.job \notin table
  BY <1>1, UnchangedInv DEF Apply
<1>2. CASE e.job \in table
  <2> DEFINE j  == e.job
             r  == rec[j]
             r1 == Observed(r, e)
             k  == NoticeOf(r, r1, e)
             new == [id |-> nextNotice, job |-> j, kind |-> k]
  <2>1. GoodRecord(r) /\ Owing(r) /\ QueueMatches(j) /\ nextNotice \in Nat
        /\ notices \subseteq NoticeType /\ rec \in [JobIds -> RecordType]
        /\ j \in JobIds
    BY <1>2, RecordsOwe DEF TableInv, TableTypeOK
  <2>2. /\ GoodRecord(r1)
        /\ k \in {"none", "failed", "stopped", "completed"}
        /\ k \in {"stopped", "completed"} => r1.job.state = k /\ r1.job.pending
        /\ e.kind = "continued" /\ Accepts(r.job, e.member) =>
             k = "none" /\ ~r1.job.pending /\ r.job.state # "completed"
        /\ k \notin {"stopped", "completed"}
           /\ ~(e.kind = "continued" /\ Accepts(r.job, e.member)) =>
             /\ r1.job.pending = r.job.pending
             /\ r.job.pending => r1.job.state = r.job.state
    BY <2>1, ObservedGood
  <2>3. rec' = [rec EXCEPT ![j] = r1] /\ table' = table
        /\ IF k # "none" THEN QueueNotice(j, k)
           ELSE /\ notices' = IF e.kind = "continued" /\ Accepts(r.job, e.member)
                              THEN notices \ StoppedNotices(j) ELSE notices
                /\ UNCHANGED nextNotice
    BY <1>2 DEF Apply
  <2>4. rec'[j] = r1
    BY <2>1, <2>3
  <2> HIDE DEF r, r1, k
  <2>5. CASE k \in {"stopped", "completed"}
    <3>1. notices' = (notices \ LifecycleNotices(j)) \cup {new} /\ nextNotice' = nextNotice + 1
      BY <2>3, <2>5 DEF QueueNotice
    <3>2. new \in NoticeType /\ new.job = j /\ new.kind = k
      BY <2>1, <2>5 DEF NoticeType
    <3>3. LifecycleNotices(j)' = {new}
      BY <2>5, <3>1, <3>2 DEF LifecycleNotices
    <3>4. QueueMatches(j)'
      BY <2>2, <2>4, <2>5, <3>2, <3>3 DEF QueueMatches
    <3>5. \A n : n.job # j => (n \in notices <=> n \in notices')
      BY <3>1, <3>2 DEF LifecycleNotices
    <3>6. notices' \subseteq NoticeType /\ nextNotice' \in Nat
      BY <2>1, <3>1, <3>2
    <3>7. QED
      BY <1>2, <2>2, <2>3, <3>4, <3>5, <3>6, ReplaceInv
  <2>6. CASE k = "failed"
    <3>1. notices' = notices \cup {new} /\ nextNotice' = nextNotice + 1
      BY <2>3, <2>6 DEF QueueNotice
    <3>2. new \in NoticeType /\ new.job = j /\ new.kind = "failed"
      BY <2>1, <2>6 DEF NoticeType
    <3>3. LifecycleNotices(j)' = LifecycleNotices(j)
      BY <3>1, <3>2 DEF LifecycleNotices
    <3>4. r1.job.pending = r.job.pending /\ (r.job.pending => r1.job.state = r.job.state)
      BY <2>2, <2>6
    <3>5. QueueMatches(j)'
      BY <2>1, <2>4, <3>3, <3>4 DEF QueueMatches, r
    <3>6. \A n : n.job # j => (n \in notices <=> n \in notices')
      BY <3>1, <3>2
    <3>7. notices' \subseteq NoticeType /\ nextNotice' \in Nat
      BY <2>1, <3>1, <3>2
    <3>8. QED
      BY <1>2, <2>2, <2>3, <3>5, <3>6, <3>7, ReplaceInv
  <2>7. CASE k = "none" /\ ~(e.kind = "continued" /\ Accepts(r.job, e.member))
    <3>1. notices' = notices /\ nextNotice' = nextNotice
      BY <2>3, <2>7
    <3>2. LifecycleNotices(j)' = LifecycleNotices(j)
      BY <3>1 DEF LifecycleNotices
    <3>3. r1.job.pending = r.job.pending /\ (r.job.pending => r1.job.state = r.job.state)
      BY <2>2, <2>7
    <3>4. QueueMatches(j)'
      BY <2>1, <2>4, <3>2, <3>3 DEF QueueMatches, r
    <3>5. QED
      BY <1>2, <2>1, <2>2, <2>3, <3>1, <3>4, ReplaceInv
  <2>8. CASE k = "none" /\ e.kind = "continued" /\ Accepts(r.job, e.member)
    <3>1. notices' = notices \ StoppedNotices(j) /\ nextNotice' = nextNotice
      BY <2>3, <2>8
    <3>2. ~r1.job.pending /\ r.job.state # "completed"
      BY <2>2, <2>8
    <3>3. \A n \in LifecycleNotices(j) : n.kind = "stopped"
      BY <2>1, <3>2 DEF QueueMatches, LifecycleNotices, r
    <3>4. LifecycleNotices(j)' = {}
      BY <3>1, <3>3 DEF LifecycleNotices, StoppedNotices
    <3>5. QueueMatches(j)'
      BY <2>4, <3>2, <3>4 DEF QueueMatches
    <3>6. QED
      BY <1>2, <2>1, <2>2, <2>3, <3>1, <3>5, ReplaceInv DEF StoppedNotices
  <2>9. QED
    BY <2>2, <2>5, <2>6, <2>7, <2>8
<1>3. QED
  BY <1>1, <1>2

(* The oldest observation is taken off the channel and applied. *)
LEMMA ReceiveInv ==
  ASSUME TableInv, events \in Seq(ObservationType), Receive, nextJob' = nextJob
  PROVE  /\ TableInv' /\ events' \in Seq(ObservationType)
         /\ \A i \in DOMAIN events' : i + 1 \in DOMAIN events /\ events'[i] = events[i + 1]
<1>1. events # <<>> /\ events' = Tail(events) /\ Apply(Head(events))
  BY DEF Receive
<1>2. Head(events) \in ObservationType
  BY <1>1
<1>3. TableInv'
  BY <1>1, <1>2, ApplyInv
<1>4. QED
  BY <1>1, <1>3

(* A pipeline is published under a fresh identity. *)
LEMMA SpawnInv ==
  ASSUME TableInv, NEW ms \in Pipelines, NEW p \in Placement, Spawn(ms, p),
         \/ UNCHANGED <<notices, nextNotice>>
         \/ /\ notices' = notices \cup {[id |-> nextNotice, job |-> nextJob, kind |-> "started"]}
            /\ nextNotice' = nextNotice + 1
  PROVE  TableInv'
<1> DEFINE r == Published(ms, p)
<1>0. PICK j \in JobIds : j = nextJob
  BY DEF Spawn, TableInv, TableTypeOK, JobIds
<1>1. ms \in SUBSET Members /\ ms # {}
  BY BoundsAssumption DEF Pipelines
<1>2. /\ nextJob' = j + 1 /\ table' = table \cup {j}
      /\ rec' = [rec EXCEPT ![j] = r] /\ nextJob' \in 1..(MaxJobs + 1)
  BY <1>0, BoundsAssumption DEF Spawn, SpawnAs, TableInv, TableTypeOK, JobIds
<1>3. GoodRecord(r) /\ r.job.pending = FALSE
  <2> DEFINE q == FinishStarting(AddProcesses(BeginStarting(NewJob), ms), p)
  <2>1. GoodJob(q) /\ q.pending = FALSE /\ q.state \in Running
    BY <1>1, StartGood
  <2>2. NewRecord \in RecordType
    BY DEF NewRecord, RecordType, NewJob, JobType, JobState, MemberState, Placement, Status
  <2>3. r \in RecordType /\ r.job = q /\ r.completion = "none" /\ r.resume_requested = FALSE
    BY <2>1, <2>2 DEF Published, NewRecord, RecordType, GoodJob
  <2>4. QED
    BY <2>1, <2>3 DEF GoodRecord, GoodJob, Running
<1>4. rec' \in [JobIds -> RecordType] /\ rec'[j] = r /\ \A i \in table : rec'[i] = rec[i]
  BY <1>0, <1>2, <1>3 DEF TableInv, TableTypeOK, GoodRecord, JobIds
<1>5. /\ notices' \subseteq NoticeType /\ nextNotice' \in Nat
      /\ \A n \in notices' : n.job < nextJob'
      /\ \A i \in JobIds : LifecycleNotices(i)' = LifecycleNotices(i)
  BY <1>0, <1>2 DEF TableInv, TableTypeOK, NoticeType, LifecycleNotices, JobIds
<1>6. TableTypeOK'
  BY <1>2, <1>4, <1>5 DEF TableInv, TableTypeOK
<1>7. LifecycleNotices(j) = {}
  BY <1>0 DEF TableInv, TableTypeOK, LifecycleNotices, NoticeType, JobIds
<1>8. QueueMatches(j)'
  BY <1>2, <1>3, <1>4, <1>5, <1>7 DEF QueueMatches
<1>9. ASSUME NEW i \in table PROVE QueueMatches(i)' /\ i < nextJob'
  <2>1. i \in JobIds /\ i < nextJob /\ QueueMatches(i)
    BY DEF TableInv, TableTypeOK
  <2>2. rec'[i] = rec[i] /\ LifecycleNotices(i)' = LifecycleNotices(i)
    BY <1>4, <1>5, <2>1
  <2>3. QueueMatches(i)'
    BY <2>1, <2>2 DEF QueueMatches
  <2>4. QED
    BY <1>0, <1>2, <2>1, <2>3 DEF JobIds
<1>10. \A i \in table' : GoodRecord(rec[i])'
  BY <1>2, <1>3, <1>4 DEF TableInv, GoodRecord
<1>11. j < nextJob'
  BY <1>2 DEF JobIds
<1>12. QED
  BY <1>2, <1>5, <1>6, <1>8, <1>9, <1>10, <1>11 DEF TableInv

(* Records leave the table; what stays, and its notices, are as before. *)
LEMMA RemoveInv ==
  ASSUME TableInv, NEW js, table' = table \ js, nextJob' = nextJob,
         rec' \in [JobIds -> RecordType], nextNotice' \in Nat,
         \A i \in table' : rec'[i] = rec[i],
         notices' \subseteq notices,
         \A n \in notices : n.job \notin js => n \in notices'
  PROVE  TableInv'
<1>1. TableTypeOK'
  BY DEF TableInv, TableTypeOK
<1>2. ASSUME NEW i \in table' PROVE QueueMatches(i)'
  <2>1. LifecycleNotices(i)' = LifecycleNotices(i)
    BY <1>2 DEF LifecycleNotices
  <2>2. QED
    BY <1>2, <2>1 DEF TableInv, QueueMatches
<1>3. \A i \in table' : GoodRecord(rec[i])'
  BY DEF TableInv, GoodRecord
<1>4. QED
  BY <1>1, <1>2, <1>3 DEF TableInv

(* wait and the foreground wait consume completions. *)
LEMMA ConsumeInv ==
  ASSUME TableInv, NEW js, Consume(js), nextJob' = nextJob
  PROVE  TableInv'
<1>1. rec \in [JobIds -> RecordType] /\ nextNotice \in Nat /\ table \subseteq JobIds
  BY DEF TableInv, TableTypeOK
<1>2. /\ table' = table \ js /\ notices' = {n \in notices : n.job \notin js}
      /\ nextNotice' = nextNotice
      /\ rec' = [j \in JobIds |->
                   IF j \in js THEN [rec[j] EXCEPT !.job = Reap(@)] ELSE rec[j]]
  BY DEF Consume
<1>3. \A j \in JobIds : [rec[j] EXCEPT !.job = Reap(@)] \in RecordType
  BY <1>1, ReapType DEF RecordType
<1>4. rec' \in [JobIds -> RecordType]
  BY <1>1, <1>2, <1>3
<1>5. \A i \in table' : rec'[i] = rec[i]
  BY <1>1, <1>2
<1>6. QED
  BY <1>1, <1>2, <1>4, <1>5, RemoveInv

(* The front notice is acknowledged: a stop is no longer owed, a           *)
(* completion takes its record along.                                      *)
LEMMA AcknowledgedInv ==
  ASSUME TableInv, NEW n \in notices, ~Refused(n), Acknowledged(n),
         notices' = notices \ {n}, UNCHANGED <<nextJob, nextNotice>>
  PROVE  TableInv'
<1>1. /\ rec \in [JobIds -> RecordType] /\ nextNotice \in Nat /\ table \subseteq JobIds
      /\ notices \subseteq NoticeType /\ n.job \in JobIds
      /\ n.kind \in {"started", "failed", "stopped", "completed"}
  BY DEF TableInv, TableTypeOK, NoticeType
<1>2. CASE n.kind \in {"started", "failed"}
  <2>1. table' = table /\ rec' = rec
    BY <1>2 DEF Acknowledged
  <2>2. \A i : LifecycleNotices(i)' = LifecycleNotices(i)
    BY <1>2 DEF LifecycleNotices
  <2>3. TableTypeOK'
    BY <1>1, <2>1 DEF TableInv, TableTypeOK
  <2>4. ASSUME NEW i \in table PROVE QueueMatches(i)'
    BY <2>1, <2>2 DEF TableInv, QueueMatches
  <2>5. QED
    BY <2>1, <2>3, <2>4 DEF TableInv
<1>3. CASE n.kind = "stopped"
  <2> DEFINE j == n.job
             r == [rec[j] EXCEPT !.job = AcknowledgeStopped(@)]
  <2>1. j \in table /\ rec' = [rec EXCEPT ![j].job = AcknowledgeStopped(@)] /\ table' = table
    BY <1>3 DEF Refused, Acknowledged
  <2>2. rec' = [rec EXCEPT ![j] = r] /\ rec'[j] = r
    BY <1>1, <2>1
  <2>3. GoodRecord(rec[j]) /\ QueueMatches(j)
    BY <2>1 DEF TableInv
  <2>4. GoodRecord(r) /\ r.job.pending = FALSE
    <3>1. GoodJob(rec[j].job)
      BY <2>3 DEF GoodRecord, GoodJob, RecordType
    <3>2. GoodJob(r.job) /\ r.job.pending = FALSE /\ r.job.state = rec[j].job.state
      BY <2>3, <3>1, AcknowledgeStoppedGood DEF GoodRecord, RecordType
    <3>3. QED
      BY <2>3, <3>2 DEF GoodRecord, GoodJob, RecordType
  <2>5. LifecycleNotices(j)' = {}
    BY <1>3, <2>3 DEF QueueMatches, LifecycleNotices
  <2>6. QueueMatches(j)'
    BY <2>2, <2>4, <2>5 DEF QueueMatches
  <2>7. QED
    BY <1>1, <2>1, <2>2, <2>4, <2>6, ReplaceInv
<1>4. CASE n.kind = "completed"
  <2>1. table' = table \ {n.job} /\ rec' = [rec EXCEPT ![n.job].job = Reap(@)]
    BY <1>4 DEF Acknowledged
  <2>2. rec' \in [JobIds -> RecordType] /\ \A i \in table' : rec'[i] = rec[i]
    <3>1. [rec[n.job] EXCEPT !.job = Reap(@)] \in RecordType
      BY <1>1, ReapType DEF RecordType
    <3>2. rec' = [rec EXCEPT ![n.job] = [rec[n.job] EXCEPT !.job = Reap(@)]]
      BY <1>1, <2>1
    <3>3. QED
      BY <1>1, <2>1, <3>1, <3>2
  <2>3. QED
    BY <1>1, <2>1, <2>2, RemoveInv
<1>5. QED
  BY <1>1, <1>2, <1>3, <1>4

(* A continuation the group received. *)
LEMMA ContinuedInv ==
  ASSUME TableInv, NEW j \in table, Stopped(rec[j]), NEW p \in Placement,
         Continued(j, p), nextJob' = nextJob
  PROVE  TableInv'
<1> DEFINE r == [rec[j] EXCEPT !.job = ContinueIn(@, p), !.resume_requested = FALSE]
<1>1. /\ rec \in [JobIds -> RecordType] /\ nextNotice \in Nat /\ table \subseteq JobIds
      /\ notices \subseteq NoticeType /\ GoodRecord(rec[j]) /\ QueueMatches(j)
  BY DEF TableInv, TableTypeOK
<1>2. rec' = [rec EXCEPT ![j] = r] /\ rec'[j] = r /\ table' = table
      /\ notices' = notices \ StoppedNotices(j) /\ nextNotice' = nextNotice
  BY <1>1 DEF Continued
<1>3. GoodRecord(r) /\ r.job.pending = FALSE
  <2>1. GoodJob(rec[j].job)
    BY <1>1 DEF GoodRecord, GoodJob, RecordType
  <2>2. GoodJob(r.job) /\ r.job.pending = FALSE /\ r.job.state \in Running
    BY <1>1, <2>1, ContinueInGood DEF GoodRecord, RecordType
  <2>3. QED
    BY <1>1, <2>2 DEF GoodRecord, GoodJob, RecordType, Stopped, Running
<1>4. LifecycleNotices(j)' = {}
  BY <1>1, <1>2 DEF QueueMatches, LifecycleNotices, StoppedNotices, Stopped
<1>5. QueueMatches(j)'
  BY <1>2, <1>3, <1>4 DEF QueueMatches
<1>6. \A n : n.job # j => (n \in notices <=> n \in notices')
  BY <1>2 DEF StoppedNotices
<1>7. QED
  BY <1>1, <1>2, <1>3, <1>5, <1>6, ReplaceInv

(* A record changes without touching what it owes. *)
LEMMA RewriteInv ==
  ASSUME TableInv, NEW j \in table, NEW r, GoodRecord(r),
         rec' = [rec EXCEPT ![j] = r], UNCHANGED <<table, notices, nextNotice, nextJob>>,
         r.job.pending = rec[j].job.pending,
         r.job.pending => r.job.state = rec[j].job.state
  PROVE  TableInv'
<1>1. /\ rec \in [JobIds -> RecordType] /\ nextNotice \in Nat /\ table \subseteq JobIds
      /\ notices \subseteq NoticeType /\ QueueMatches(j)
  BY DEF TableInv, TableTypeOK
<1>2. rec'[j] = r /\ LifecycleNotices(j)' = LifecycleNotices(j)
  BY <1>1 DEF LifecycleNotices
<1>3. QueueMatches(j)'
  BY <1>1, <1>2 DEF QueueMatches
<1>4. QED
  BY <1>1, <1>3, ReplaceInv

(* fg: the job runs in the foreground. *)
LEMMA ForegroundEnterInv ==
  ASSUME TableInv, ForegroundEnter
  PROVE  TableInv'
<1> DEFINE j == call.job
<1>0. PICK i \in table : i = j /\ rec[i].job.state \in {"stopped", "background"}
  BY DEF ForegroundEnter, Foregroundable
<1>1. nextJob' = nextJob
  BY DEF ForegroundEnter
<1>2. CASE Stopped(rec[i])
  <2>1. Continued(i, "foreground")
    BY <1>0, <1>2 DEF ForegroundEnter
  <2>2. QED
    BY <1>1, <1>2, <2>1, ContinuedInv DEF Placement
<1>3. CASE ~Stopped(rec[i])
  <2> DEFINE r == [rec[i] EXCEPT !.job = MoveTo(@, "foreground")]
  <2>1. rec' = [rec EXCEPT ![i].job = MoveTo(@, "foreground")]
        /\ UNCHANGED <<table, notices, nextNotice>>
    BY <1>0, <1>3 DEF ForegroundEnter
  <2>2. GoodRecord(rec[i]) /\ rec[i].job.state = "background" /\ QueueMatches(i)
        /\ rec \in [JobIds -> RecordType] /\ table \subseteq JobIds
    BY <1>0, <1>3 DEF TableInv, TableTypeOK, Stopped
  <2>3. GoodJob(rec[i].job) /\ "foreground" \in Placement /\ rec[i].job.state \in Running
    BY <2>2 DEF GoodRecord, GoodJob, RecordType, Placement, Running
  <2>4. GoodJob(r.job) /\ r.job.pending = rec[i].job.pending /\ r.job.state \in Running
    BY <2>2, <2>3, MoveToGood DEF GoodRecord, RecordType
  <2>5. GoodRecord(r)
    BY <2>2, <2>4 DEF GoodRecord, GoodJob, RecordType, Running
  <2>6. r.job.pending = FALSE
    BY <2>2, <2>4, RecordsOwe DEF Owing, GoodJob, JobType
  <2>7. rec' = [rec EXCEPT ![i] = r]
    BY <2>1, <2>2
  <2>8. QED
    BY <1>1, <2>1, <2>4, <2>5, <2>6, <2>7, RewriteInv
<1>4. QED
  BY <1>2, <1>3

(* signal_job, for bg, kill and wait. *)
LEMMA SignalJobInv ==
  ASSUME TableInv, NEW j, NEW s, SignalJob(j, s), nextJob' = nextJob
  PROVE  TableInv' /\ j \in table
<1>1. j \in table /\ SignalError(j, s) = "none"
  BY DEF SignalJob, SignalError
<1>2. CASE s = "continue" /\ ~rec[j].observation_failed
  <2>1. Stopped(rec[j])
    BY <1>1, <1>2 DEF SignalError
  <2>2. Continued(j, "background")
    BY <1>2 DEF SignalJob
  <2>3. QED
    BY <1>1, <2>1, <2>2, ContinuedInv DEF Placement
<1>3. CASE ~(s = "continue" /\ ~rec[j].observation_failed)
  <2>1. UNCHANGED tableVars
    BY <1>3 DEF SignalJob
  <2>2. QED
    BY <1>1, <2>1, UnchangedInv
<1>4. QED
  BY <1>2, <1>3

(* A delivered or undeliverable signal of the session's end. *)
LEMMA SignalOrQuarantineInv ==
  ASSUME TableInv, NEW j \in table, NEW s, NEW r, SignalOrQuarantine(j, s, r),
         GoodRecord(r), r.job = rec[j].job, nextJob' = nextJob
  PROVE  TableInv'
<1>1. CASE GroupExists(j)
  BY <1>1, RewriteInv DEF SignalOrQuarantine
<1>2. CASE ~GroupExists(j)
  <2> DEFINE q == [r EXCEPT !.observation_failed = TRUE]
  <2>1. rec' = [rec EXCEPT ![j] = q] /\ UNCHANGED <<table, notices, nextNotice>>
    BY <1>2 DEF SignalOrQuarantine
  <2>2. GoodRecord(q) /\ q.job = rec[j].job
    BY DEF GoodRecord, RecordType
  <2>3. QED
    BY <2>1, <2>2, RewriteInv
<1>3. QED
  BY <1>1, <1>2

-----------------------------------------------------------------------------
(* Every step of the specification preserves the table's invariant. *)
LEMMA TableStep ==
  ASSUME TableInv, HostTypeOK, SessionTypeOK, [Next]_vars
  PROVE  TableInv'
<1>0. events \in Seq(ObservationType)
  BY DEF HostTypeOK
<1>1. CASE UNCHANGED vars
  BY <1>1, UnchangedInv DEF vars, tableVars
<1>2. CASE Host
  <2>1. UNCHANGED <<tableVars, nextJob>>
    BY <1>2 DEF Host, HostStop, HostContinue, HostExit
  <2>2. QED
    BY <2>1, UnchangedInv
<1>3. CASE Observer
  <2>1. UNCHANGED <<tableVars, nextJob>>
    BY <1>3 DEF Observer, ObserveTransition, ObserveExit, ObserveFailure
  <2>2. QED
    BY <2>1, UnchangedInv
<1>4. CASE Command
  <2>1. CASE \E ms \in Pipelines : Start(ms)
    BY <2>1, SpawnInv DEF Start, Placement
  <2>2. CASE \E ms \in Pipelines : StartForeground(ms)
    BY <2>2, SpawnInv DEF StartForeground, Placement
  <2>3. CASE StartFails
    <3>1. /\ table' = table /\ rec' = rec /\ notices' = notices
          /\ nextJob' = nextJob + 1 /\ nextJob <= MaxJobs
          /\ nextNotice' = nextNotice \/ nextNotice' = nextNotice + 1
      BY <2>3 DEF StartFails
    <3>2. TableTypeOK' /\ nextJob \in Nat
      BY <3>1, BoundsAssumption DEF TableInv, TableTypeOK
    <3>3. ASSUME NEW j \in table PROVE GoodRecord(rec[j])' /\ QueueMatches(j)' /\ j < nextJob'
      BY <3>1, <3>2 DEF TableInv, TableTypeOK, JobIds, QueueMatches, LifecycleNotices, GoodRecord
    <3>4. \A n \in notices' : n.job < nextJob'
      BY <3>1, <3>2 DEF TableInv, TableTypeOK, NoticeType, JobIds
    <3>5. QED
      BY <3>1, <3>2, <3>3, <3>4 DEF TableInv
  <2>4. CASE NextNotice
    BY <1>0, <2>4, ReceiveInv DEF NextNotice
  <2>5. CASE \E n \in notices : Acknowledge(n)
    BY <2>5, AcknowledgedInv DEF Acknowledge
  <2>6. CASE \/ CallJobs
             \/ \E j \in JobIds : CallForeground(j)
             \/ \E next \in {"bg", "kill"}, j \in JobIds, s \in JobSignals :
                  CallSignal(next, j, s)
             \/ \E targets \in TargetLists : CallWait(targets)
             \/ \E op \in {"join", "hangup"} : CallEnd(op)
    <3>1. UNCHANGED <<tableVars, nextJob>>
      BY <2>6 DEF CallJobs, CallForeground, CallSignal, CallWait, CallEnd
    <3>2. QED
      BY <3>1, UnchangedInv
  <2>7. QED
    BY <1>4, <2>1, <2>2, <2>3, <2>4, <2>5, <2>6 DEF Command
<1>5. CASE Progress
  <2>1. CASE DrainOne \/ ForegroundReceive \/ WaitReceive \/ QuiesceReceive \/ DrainReceive
    <3>1. Receive /\ nextJob' = nextJob
      BY <2>1 DEF DrainOne, ForegroundReceive, WaitReceive, QuiesceReceive, DrainReceive
    <3>2. QED
      BY <1>0, <3>1, ReceiveInv
  <2>2. CASE \/ DrainEnd \/ ForegroundRefused \/ SignalRefused \/ WaitRefused
             \/ WaitSelect \/ WaitResume \/ WaitSignalRefused \/ WaitLost
             \/ ResumeEnd \/ HangUpEnd \/ CollectOne \/ CollectEnd \/ EndSession
             \/ TakeTerminal \/ ForegroundFails \/ RestoreTerminal \/ DropGuard
             \/ HangUpReturn
    <3>1. UNCHANGED <<tableVars, nextJob>>
      BY <2>2 DEF DrainEnd, ForegroundRefused, SignalRefused, WaitRefused, WaitSelect,
                  WaitResume, WaitSignalRefused, WaitLost, ResumeEnd, HangUpEnd,
                  CollectOne, CollectEnd, EndSession, TakeTerminal, ForegroundFails,
                  RestoreTerminal, DropGuard, HangUpReturn
    <3>2. QED
      BY <3>1, UnchangedInv
  <2>3. CASE ForegroundEnter
    BY <2>3, ForegroundEnterInv
  <2>4. CASE ForegroundReturn
    <3>1. nextJob' = nextJob /\ (Consume({call.job}) \/ UNCHANGED tableVars)
      BY <2>4 DEF ForegroundReturn
    <3>2. QED
      BY <3>1, ConsumeInv, UnchangedInv
  <2>5. CASE SignalDone
    BY <2>5, SignalJobInv DEF SignalDone
  <2>6. CASE WaitSignal
    BY <2>6, SignalJobInv DEF WaitSignal
  <2>7. CASE WaitConsume
    BY <2>7, ConsumeInv DEF WaitConsume
  <2>8. CASE ResumeOne
    <3>1. PICK j \in Unanswered :
            SignalOrQuarantine(j, "continue", [rec[j] EXCEPT !.resume_requested = TRUE])
      BY <2>8 DEF ResumeOne
    <3>2. j \in table /\ Stopped(rec[j]) /\ GoodRecord(rec[j]) /\ nextJob' = nextJob
      BY <2>8, <3>1 DEF Unanswered, TableInv, ResumeOne
    <3>3. GoodRecord([rec[j] EXCEPT !.resume_requested = TRUE])
          /\ [rec[j] EXCEPT !.resume_requested = TRUE].job = rec[j].job
      BY <3>2 DEF GoodRecord, RecordType, Stopped
    <3>4. QED
      BY <3>1, <3>2, <3>3, SignalOrQuarantineInv
  <2>9. CASE HangUpOne
    <3>1. PICK j \in ToHangUp : SignalOrQuarantine(j, "hangup", rec[j])
      BY <2>9 DEF HangUpOne
    <3>2. j \in table /\ GoodRecord(rec[j]) /\ nextJob' = nextJob
      BY <2>9, <3>1 DEF ToHangUp, LiveJobs, TableInv, HangUpOne
    <3>3. QED
      BY <3>1, <3>2, SignalOrQuarantineInv
  <2>10. CASE \E n \in notices : DrainNotice(n)
    BY <2>10, AcknowledgedInv DEF DrainNotice
  <2>11. QED
    BY <1>5, <2>1, <2>2, <2>3, <2>4, <2>5, <2>6, <2>7, <2>8, <2>9, <2>10 DEF Progress
<1>6. CASE Ended
  BY <1>6, UnchangedInv DEF Ended, vars, tableVars
<1>7. QED
  BY <1>1, <1>2, <1>3, <1>4, <1>5, <1>6 DEF Next

-----------------------------------------------------------------------------
(* The host, the observers and the session's locals. *)

HostFresh ==
  /\ \A i \in DOMAIN events : events[i].job < nextJob
  /\ \A j \in JobIds, m \in Members : obs[j][m] # "none" => j < nextJob

ProcessesTyped ==
  /\ os \in [JobIds -> [Members -> {"none", "running", "stopped", "zombie", "gone"}]]
  /\ report \in [JobIds -> [Members -> {"none", "stopped", "continued"}]]
  /\ code \in [JobIds -> [Members -> Status \cup {"none"}]]
  /\ stops \in [JobIds -> [Members -> Nat]]

(* A delivered group signal. *)
LEMMA DeliveredTyped ==
  ASSUME ProcessesTyped, NEW j \in JobIds, NEW s, Delivered(j, s)
  PROVE  ProcessesTyped'
<1>1. CASE s = "continue"
  <2>1. /\ os' = [os EXCEPT ![j] = [m \in Members |->
                    IF os[j][m] = "stopped" THEN "running" ELSE os[j][m]]]
        /\ report' = [report EXCEPT ![j] = [m \in Members |->
                    IF os[j][m] = "stopped" THEN "continued" ELSE report[j][m]]]
        /\ code' = code /\ stops' = stops
    BY <1>1 DEF Delivered, ProcessesTyped
  <2>2. os' \in [JobIds -> [Members -> {"none", "running", "stopped", "zombie", "gone"}]]
    BY <2>1 DEF ProcessesTyped
  <2>3. report' \in [JobIds -> [Members -> {"none", "stopped", "continued"}]]
    BY <2>1 DEF ProcessesTyped
  <2>4. QED
    BY <2>1, <2>2, <2>3 DEF ProcessesTyped
<1>2. CASE s = "stop"
  <2>1. /\ os' = [os EXCEPT ![j] = [m \in Members |->
                    IF os[j][m] = "running" THEN "stopped" ELSE os[j][m]]]
        /\ report' = [report EXCEPT ![j] = [m \in Members |->
                    IF os[j][m] = "running" THEN "stopped" ELSE report[j][m]]]
        /\ stops' = [stops EXCEPT ![j] = [m \in Members |->
                    IF os[j][m] = "running" THEN stops[j][m] + 1 ELSE stops[j][m]]]
        /\ code' = code
    BY <1>2 DEF Delivered, ProcessesTyped
  <2>2. os' \in [JobIds -> [Members -> {"none", "running", "stopped", "zombie", "gone"}]]
    BY <2>1 DEF ProcessesTyped
  <2>3. report' \in [JobIds -> [Members -> {"none", "stopped", "continued"}]]
    BY <2>1 DEF ProcessesTyped
  <2>4. stops' \in [JobIds -> [Members -> Nat]]
    BY <2>1 DEF ProcessesTyped
  <2>5. QED
    BY <2>1, <2>2, <2>3, <2>4 DEF ProcessesTyped
<1>3. CASE s = "kill"
  <2>1. /\ os' = [os EXCEPT ![j] = [m \in Members |->
                    IF Alive(os[j][m]) THEN "zombie" ELSE os[j][m]]]
        /\ report' = [report EXCEPT ![j] = [m \in Members |->
                    IF Alive(os[j][m]) THEN "none" ELSE report[j][m]]]
        /\ code' = [code EXCEPT ![j] = [m \in Members |->
                    IF Alive(os[j][m]) THEN "err" ELSE code[j][m]]]
        /\ stops' = stops
    BY <1>3 DEF Delivered, ProcessesTyped
  <2>2. os' \in [JobIds -> [Members -> {"none", "running", "stopped", "zombie", "gone"}]]
    BY <2>1 DEF ProcessesTyped
  <2>3. report' \in [JobIds -> [Members -> {"none", "stopped", "continued"}]]
    BY <2>1 DEF ProcessesTyped
  <2>4. code' \in [JobIds -> [Members -> Status \cup {"none"}]]
    BY <2>1 DEF ProcessesTyped, Status
  <2>5. QED
    BY <2>1, <2>2, <2>3, <2>4 DEF ProcessesTyped
<1>4. CASE s \notin {"continue", "stop", "kill"}
  BY <1>4 DEF Delivered, ProcessesTyped, hostVars
<1>5. QED
  BY <1>1, <1>2, <1>3, <1>4

(* An observation joins the channel. *)
LEMMA AppendFresh ==
  ASSUME events \in Seq(ObservationType), HostFresh, NEW e \in ObservationType,
         e.job < nextJob, events' = Append(events, e)
  PROVE  events' \in Seq(ObservationType) /\ \A i \in DOMAIN events' : events'[i].job < nextJob
  BY DEF HostFresh

(* An observer belongs to a job that was started. *)
LEMMA ObserverStep ==
  ASSUME TableInv, HostTypeOK, HostFresh, Observer
  PROVE  HostTypeOK' /\ HostFresh'
<1>0. PICK j \in JobIds, m \in Members :
        ObserveTransition(j, m) \/ ObserveExit(j, m) \/ ObserveFailure(j, m)
  BY DEF Observer
<1>1. j < nextJob /\ nextJob' = nextJob
  BY <1>0 DEF ObserveTransition, ObserveExit, ObserveFailure, HostFresh
<1>2. CASE ObserveTransition(j, m)
  <2> DEFINE e == Observation(report[j][m], j, m, "none")
  <2>1. e \in ObservationType /\ e.job = j
    BY <1>2 DEF ObserveTransition, HostTypeOK, Observation, ObservationType
  <2>2. events' = Append(events, e) /\ report' = [report EXCEPT ![j][m] = "none"]
        /\ UNCHANGED <<os, code, stops, obs>>
    BY <1>2 DEF ObserveTransition
  <2>3. /\ events' \in Seq(ObservationType)
        /\ \A i \in DOMAIN events' : events'[i].job < nextJob
    BY <1>1, <2>1, <2>2, AppendFresh DEF HostTypeOK
  <2>4. QED
    BY <1>1, <2>2, <2>3 DEF HostTypeOK, HostFresh
<1>3. CASE ObserveExit(j, m)
  <2> DEFINE e == Observation("completed", j, m, code[j][m])
  <2>1. e \in ObservationType /\ e.job = j
    BY <1>3 DEF HostTypeOK, Observation, ObservationType
  <2>2. /\ events' = Append(events, e) /\ os' = [os EXCEPT ![j][m] = "gone"]
        /\ obs' = [obs EXCEPT ![j][m] = "done"] /\ UNCHANGED <<report, code, stops>>
    BY <1>3 DEF ObserveExit
  <2>3. /\ events' \in Seq(ObservationType)
        /\ \A i \in DOMAIN events' : events'[i].job < nextJob
    BY <1>1, <2>1, <2>2, AppendFresh DEF HostTypeOK
  <2>4. QED
    BY <1>1, <2>2, <2>3 DEF HostTypeOK, HostFresh
<1>4. CASE ObserveFailure(j, m)
  <2> DEFINE s == IF Alive(os[j][m]) THEN "err" ELSE code[j][m]
             c == Observation("completed", j, m, s)
             f == Observation("failed", j, m, "none")
  <2>1. s \in Status \cup {"none"}
    BY DEF HostTypeOK, Status
  <2>2. c \in ObservationType /\ c.job = j /\ f \in ObservationType /\ f.job = j
    BY <2>1 DEF Observation, ObservationType
  <2>3. /\ \/ os' = [os EXCEPT ![j][m] = "gone"] /\ events' = Append(events, c)
           \/ os' = [os EXCEPT ![j][m] = "zombie"] /\ events' = Append(events, f)
        /\ obs' = [obs EXCEPT ![j][m] = "done"] /\ UNCHANGED stops
        /\ report' = [report EXCEPT ![j][m] = "none"]
        /\ code' = [code EXCEPT ![j][m] = s]
    BY <1>4 DEF ObserveFailure
  <2>4. /\ events' \in Seq(ObservationType)
        /\ \A i \in DOMAIN events' : events'[i].job < nextJob
    BY <1>1, <2>2, <2>3, AppendFresh DEF HostTypeOK
  <2>5. os' \in [JobIds -> [Members -> {"none", "running", "stopped", "zombie", "gone"}]]
    <3>1. PICK v \in {"gone", "zombie"} : os' = [os EXCEPT ![j][m] = v]
      BY <2>3
    <3>2. QED
      BY <3>1 DEF HostTypeOK
  <2>6. /\ report' \in [JobIds -> [Members -> {"none", "stopped", "continued"}]]
        /\ code' \in [JobIds -> [Members -> Status \cup {"none"}]]
        /\ stops' \in [JobIds -> [Members -> Nat]]
    <3> HIDE DEF s
    <3>1. QED
      BY <2>1, <2>3 DEF HostTypeOK
  <2>7. obs' \in [JobIds -> [Members -> {"none", "waiting", "done"}]]
    BY <2>3 DEF HostTypeOK
  <2>8. \A i \in JobIds, k \in Members : obs'[i][k] # "none" => i < nextJob
    <3>1. \A i \in JobIds, k \in Members :
            obs'[i][k] # "none" => obs[i][k] # "none" \/ i = j
      BY <2>3 DEF HostTypeOK
    <3>2. QED
      BY <1>1, <3>1 DEF HostFresh
  <2>9. QED
    BY <1>1, <2>4, <2>5, <2>6, <2>7, <2>8 DEF HostTypeOK, HostFresh
<1>5. QED
  BY <1>0, <1>2, <1>3, <1>4

(* Steps that leave the channel and the observers alone. *)
LEMMA ProcessesOnly ==
  ASSUME HostTypeOK, HostFresh, ProcessesTyped', UNCHANGED <<events, obs, nextJob>>
  PROVE  HostTypeOK' /\ HostFresh'
  BY DEF HostTypeOK, HostFresh, ProcessesTyped

(* Processes that move on their own. *)
LEMMA HostActions ==
  ASSUME HostTypeOK, HostFresh, Host
  PROVE  HostTypeOK' /\ HostFresh'
<1>0. PICK j \in JobIds, m \in Members :
        HostStop(j, m) \/ HostContinue(j, m) \/ \E s \in Status : HostExit(j, m, s)
  BY DEF Host
<1>1. ProcessesTyped /\ UNCHANGED <<events, obs, nextJob>>
  BY <1>0 DEF HostTypeOK, ProcessesTyped, HostStop, HostContinue, HostExit
<1>2. CASE HostStop(j, m)
  <2>1. ProcessesTyped'
    BY <1>1, <1>2 DEF HostStop, ProcessesTyped
  <2>2. QED
    BY <1>1, <2>1, ProcessesOnly
<1>3. CASE HostContinue(j, m)
  <2>1. ProcessesTyped'
    BY <1>1, <1>3 DEF HostContinue, ProcessesTyped
  <2>2. QED
    BY <1>1, <2>1, ProcessesOnly
<1>4. CASE \E s \in Status : HostExit(j, m, s)
  <2>1. ProcessesTyped'
    BY <1>1, <1>4 DEF HostExit, ProcessesTyped
  <2>2. QED
    BY <1>1, <2>1, ProcessesOnly
<1>5. QED
  BY <1>0, <1>2, <1>3, <1>4

(* Children are spawned and handed to their observers. *)
LEMMA SpawnTyped ==
  ASSUME TableInv, HostTypeOK, HostFresh, NEW ms, NEW p, Spawn(ms, p)
  PROVE  HostTypeOK' /\ HostFresh'
<1>1. /\ nextJob \in JobIds /\ nextJob' = nextJob + 1
      /\ os' = [os EXCEPT ![nextJob] =
                  [m \in Members |-> IF m \in ms THEN "running" ELSE "none"]]
      /\ obs' = [obs EXCEPT ![nextJob] =
                  [m \in Members |-> IF m \in ms THEN "waiting" ELSE "none"]]
      /\ UNCHANGED <<events, report, code, stops>>
  BY DEF Spawn, SpawnAs, TableInv, TableTypeOK, JobIds
<1>2. os' \in [JobIds -> [Members -> {"none", "running", "stopped", "zombie", "gone"}]]
  BY <1>1 DEF HostTypeOK
<1>3. obs' \in [JobIds -> [Members -> {"none", "waiting", "done"}]]
  BY <1>1 DEF HostTypeOK
<1>4. \A j \in JobIds : j # nextJob => obs'[j] = obs[j]
  BY <1>1 DEF HostTypeOK
<1>5. \A j \in JobIds, m \in Members : obs'[j][m] # "none" => j < nextJob'
  <2>1. \A j \in JobIds, m \in Members : obs'[j][m] # "none" => j < nextJob \/ j = nextJob
    BY <1>4 DEF HostFresh
  <2>2. QED
    BY <1>1, <2>1 DEF JobIds
<1>6. \A i \in DOMAIN events : events[i].job \in JobIds
  <2>1. \A i \in DOMAIN events : events[i] \in ObservationType
    BY DEF HostTypeOK
  <2>2. \A e \in ObservationType : e.job \in JobIds
    BY DEF ObservationType
  <2>3. QED
    BY <2>1, <2>2
<1>7. \A i \in DOMAIN events' : events'[i].job < nextJob'
  BY <1>1, <1>6 DEF HostFresh, JobIds
<1>8. QED
  BY <1>1, <1>2, <1>3, <1>5, <1>7 DEF HostTypeOK, HostFresh

(* The channel loses its oldest observation. *)
LEMMA ReceiveTyped ==
  ASSUME TableInv, HostTypeOK, HostFresh, Receive, UNCHANGED <<nextJob, hostVars, obs>>
  PROVE  HostTypeOK' /\ HostFresh'
<1>1. /\ events' \in Seq(ObservationType)
      /\ \A i \in DOMAIN events' : i + 1 \in DOMAIN events /\ events'[i] = events[i + 1]
  BY ReceiveInv DEF HostTypeOK
<1>2. QED
  BY <1>1 DEF HostTypeOK, HostFresh, hostVars

(* signal_job and the signals of the session's end. *)
LEMMA SignalTyped ==
  ASSUME TableInv, HostTypeOK, HostFresh, NEW j \in table, NEW s,
         Delivered(j, s) \/ UNCHANGED hostVars, UNCHANGED <<nextJob, events, obs>>
  PROVE  HostTypeOK' /\ HostFresh'
<1>1. ProcessesTyped /\ j \in JobIds
  BY DEF HostTypeOK, ProcessesTyped, TableInv, TableTypeOK
<1>2. ProcessesTyped'
  BY <1>1, DeliveredTyped DEF ProcessesTyped, hostVars
<1>3. QED
  BY <1>2, ProcessesOnly

(* Every step keeps the host's types and the identities fresh. *)
LEMMA HostStep ==
  ASSUME TableInv, HostTypeOK, HostFresh, [Next]_vars
  PROVE  HostTypeOK' /\ HostFresh'
<1>0. ASSUME UNCHANGED <<nextJob, events, hostVars, obs>> PROVE HostTypeOK' /\ HostFresh'
  BY <1>0 DEF HostTypeOK, HostFresh, hostVars
<1>1. CASE UNCHANGED vars
  <2>1. UNCHANGED <<nextJob, events, hostVars, obs>>
    BY <1>1 DEF vars, hostVars
  <2>2. QED
    BY <1>0, <2>1
<1>2. CASE Host
  BY <1>2, HostActions
<1>3. CASE Observer
  BY <1>3, ObserverStep
<1>4. CASE Command
  <2>1. CASE \/ \E ms \in Pipelines : Start(ms)
             \/ \E ms \in Pipelines : StartForeground(ms)
    BY <2>1, SpawnTyped DEF Start, StartForeground
  <2>2. CASE StartFails
    <3>1. nextJob' = nextJob + 1 /\ UNCHANGED <<events, hostVars, obs>> /\ nextJob \in Nat
      BY <2>2, BoundsAssumption DEF StartFails, TableInv, TableTypeOK
    <3>2. \A i \in DOMAIN events : events[i] \in ObservationType
      BY DEF HostTypeOK
    <3>3. \A e \in ObservationType : e.job \in JobIds
      BY DEF ObservationType
    <3>4. HostFresh'
      BY <3>1, <3>2, <3>3 DEF HostFresh, JobIds
    <3>5. HostTypeOK'
      BY <3>1 DEF HostTypeOK, hostVars
    <3>6. QED
      BY <3>4, <3>5
  <2>3. CASE NextNotice
    BY <2>3, ReceiveTyped DEF NextNotice
  <2>4. CASE \/ \E n \in notices : Acknowledge(n)
             \/ CallJobs
             \/ \E j \in JobIds : CallForeground(j)
             \/ \E next \in {"bg", "kill"}, j \in JobIds, s \in JobSignals :
                  CallSignal(next, j, s)
             \/ \E targets \in TargetLists : CallWait(targets)
             \/ \E op \in {"join", "hangup"} : CallEnd(op)
    <3>1. UNCHANGED <<nextJob, events, hostVars, obs>>
      BY <2>4 DEF Acknowledge, CallJobs, CallForeground, CallSignal, CallWait, CallEnd
    <3>2. QED
      BY <1>0, <3>1
  <2>5. QED
    BY <1>4, <2>1, <2>2, <2>3, <2>4 DEF Command
<1>5. CASE Progress
  <2>1. CASE DrainOne \/ ForegroundReceive \/ WaitReceive \/ QuiesceReceive \/ DrainReceive
    <3>1. Receive /\ UNCHANGED <<nextJob, hostVars, obs>>
      BY <2>1 DEF DrainOne, ForegroundReceive, WaitReceive, QuiesceReceive, DrainReceive
    <3>2. QED
      BY <3>1, ReceiveTyped
  <2>2. CASE \/ DrainEnd \/ ForegroundRefused \/ ForegroundReturn \/ SignalRefused
             \/ WaitRefused \/ WaitSelect \/ WaitResume \/ WaitSignalRefused
             \/ WaitLost \/ WaitConsume \/ ResumeEnd \/ HangUpEnd \/ CollectOne
             \/ CollectEnd \/ (\E n \in notices : DrainNotice(n)) \/ EndSession
             \/ TakeTerminal \/ ForegroundFails \/ RestoreTerminal \/ DropGuard
             \/ HangUpReturn
    <3>1. UNCHANGED <<nextJob, events, hostVars, obs>>
      BY <2>2 DEF DrainEnd, ForegroundRefused, ForegroundReturn, SignalRefused, WaitRefused,
                  WaitSelect, WaitResume, WaitSignalRefused, WaitLost, WaitConsume,
                  ResumeEnd, HangUpEnd, CollectOne, CollectEnd, DrainNotice, EndSession,
                  TakeTerminal, ForegroundFails, RestoreTerminal, DropGuard, HangUpReturn
    <3>2. QED
      BY <1>0, <3>1
  <2>3. CASE ForegroundEnter
    <3>1. /\ call.job \in table /\ UNCHANGED <<nextJob, events, obs>>
          /\ Delivered(call.job, "continue") \/ UNCHANGED hostVars
      BY <2>3 DEF ForegroundEnter, Foregroundable
    <3>2. QED
      BY <3>1, SignalTyped
  <2>4. CASE SignalDone
    <3>1. /\ call.job \in table /\ UNCHANGED <<nextJob, events, obs>>
          /\ Delivered(call.job, HostSignal(call.job, call.signal))
      BY <2>4 DEF SignalDone, SignalJob, SignalError
    <3>2. QED
      BY <3>1, SignalTyped
  <2>5. CASE WaitSignal
    <3>1. /\ Target \in table /\ UNCHANGED <<nextJob, events, obs>>
          /\ Delivered(Target, HostSignal(Target, "continue"))
      BY <2>5 DEF WaitSignal, SignalJob, SignalError
    <3>2. QED
      BY <3>1, SignalTyped
  <2>6. CASE ResumeOne
    <3>1. PICK j \in table :
            SignalOrQuarantine(j, "continue", [rec[j] EXCEPT !.resume_requested = TRUE])
      BY <2>6 DEF ResumeOne, Unanswered
    <3>2. /\ Delivered(j, "continue") \/ UNCHANGED hostVars
          /\ UNCHANGED <<nextJob, events, obs>>
      BY <2>6, <3>1 DEF ResumeOne, SignalOrQuarantine
    <3>3. QED
      BY <3>2, SignalTyped
  <2>7. CASE HangUpOne
    <3>1. PICK j \in table : SignalOrQuarantine(j, "hangup", rec[j])
      BY <2>7 DEF HangUpOne, ToHangUp, LiveJobs
    <3>2. /\ Delivered(j, "hangup") \/ UNCHANGED hostVars
          /\ UNCHANGED <<nextJob, events, obs>>
      BY <2>7, <3>1 DEF HangUpOne, SignalOrQuarantine
    <3>3. QED
      BY <3>2, SignalTyped
  <2>8. QED
    BY <1>5, <2>1, <2>2, <2>3, <2>4, <2>5, <2>6, <2>7 DEF Progress
<1>6. CASE Ended
  BY <1>0, <1>6 DEF Ended, vars, hostVars
<1>7. QED
  BY <1>1, <1>2, <1>3, <1>4, <1>5, <1>6 DEF Next

-----------------------------------------------------------------------------
(* The session's program counter and locals. *)
LEMMA IdleTyped == Idle \in CallType
<1>1. <<>> \in Selections
  <2>1. <<>> \in [1..0 -> JobIds] /\ 0 \in 0..MaxJobs
    BY BoundsAssumption
  <2>2. QED
    BY <2>1 DEF Selections
<1>2. [j \in JobIds |-> [m \in Members |-> 0]] \in [JobIds -> [Members -> Nat]]
  OBVIOUS
<1>3. <<>> \in Seq(FailureType)
  OBVIOUS
<1>4. QED
  BY <1>1, <1>2, <1>3 DEF Idle, CallType, Labels, JobSignals, Shell

(* A call that drains the channel keeps its type.                          *)
LEMMA DrainingTyped ==
  ASSUME call \in CallType, NEW next \in Labels
  PROVE  Draining(next) \in CallType
  BY DEF Draining, CallType, Labels

(* A wait that goes on to its next target keeps its type.                  *)
LEMMA NextTargetTyped ==
  ASSUME call \in CallType
  PROVE  NextTarget \in CallType
<1>1. [call EXCEPT !.pc = "waitCheck", !.idx = 1] \in CallType
  BY DEF CallType, Labels
<1>2. Draining("waitResume") \in CallType
  BY DrainingTyped DEF Labels
<1>3. ASSUME NEW c \in CallType PROVE [c EXCEPT !.idx = c.idx + 1] \in CallType
  <2>1. c.idx + 1 \in Nat
    BY DEF CallType
  <2>2. ASSUME NEW i \in Nat PROVE [c EXCEPT !.idx = i] \in CallType
    BY DEF CallType
  <2>3. QED
    BY <2>1, <2>2
<1>4. QED
  BY <1>1, <1>2, <1>3 DEF NextTarget

(* The failures of an ending session keep their type.                      *)
LEMMA FailuresTyped ==
  ASSUME call \in CallType, NEW j \in JobIds
  PROVE  FailuresAfterSignal(j) \in Seq(FailureType)
<1>1. call.failures \in Seq(FailureType)
  BY DEF CallType
<1>2. Failure(j, "signal") \in FailureType
  BY DEF Failure, FailureType, Reasons
<1>3. QED
  BY <1>1, <1>2 DEF FailuresAfterSignal

(* The list a hang-up returns keeps its type.                              *)
LEMMA MergedTyped ==
  ASSUME call \in CallType, NEW order \in TargetLists,
         InOrder(order, JobsIn(call.held) \cup JobsIn(call.failures))
  PROVE  [i \in DOMAIN order |-> FirstEntry(order[i])] \in Seq(FailureType)
<1>1. call.held \in Seq(FailureType) /\ call.failures \in Seq(FailureType)
  BY DEF CallType
<1>2. ASSUME NEW list \in Seq(FailureType), NEW j \in JobsIn(list)
      PROVE  EntryOf(list, j) \in FailureType
  <2>1. \E i \in DOMAIN list : list[i].job = j
    BY <1>2 DEF JobsIn
  <2>2. (CHOOSE i \in DOMAIN list : list[i].job = j) \in DOMAIN list
    BY <2>1
  <2>3. QED
    BY <1>2, <2>2 DEF EntryOf
<1>3. ASSUME NEW i \in DOMAIN order PROVE FirstEntry(order[i]) \in FailureType
  <2>1. order[i] \in JobsIn(call.held) \cup JobsIn(call.failures)
    BY <1>3 DEF InOrder, ElementsOf
  <2>2. QED
    BY <1>1, <1>2, <2>1 DEF FirstEntry
<1>4. PICK n \in Nat : DOMAIN order = 1..n
  <2>1. PICK n \in 0..MaxJobs : order \in [1..n -> JobIds]
    BY DEF TargetLists, Selections
  <2>2. QED
    BY <2>1, BoundsAssumption
<1>5. QED
  BY <1>3, <1>4

(* Every step keeps the session's locals typed. *)
LEMMA SessionStep ==
  ASSUME TableInv, SessionTypeOK, [Next]_vars
  PROVE  SessionTypeOK'
<1>0. call \in CallType /\ terminal \in TerminalType /\ table \subseteq JobIds
  BY DEF SessionTypeOK, TableInv, TableTypeOK
<1>1. CASE UNCHANGED vars \/ Host \/ Observer \/ Ended
  <2>1. UNCHANGED <<terminal, call>>
    BY <1>1 DEF vars, Host, HostStop, HostContinue, HostExit, Observer, Ended,
                ObserveTransition, ObserveExit, ObserveFailure
  <2>2. QED
    BY <2>1 DEF SessionTypeOK
<1>2. CASE Command
  <2>1. CASE \/ \E ms \in Pipelines : Start(ms)
             \/ NextNotice
             \/ \E n \in notices : Acknowledge(n)
    <3>1. UNCHANGED <<terminal, call>>
      BY <2>1 DEF Start, NextNotice, Acknowledge
    <3>2. QED
      BY <3>1 DEF SessionTypeOK
  <2>9. CASE StartFails
    <3>1. CASE UNCHANGED <<terminal, call>>
      BY <3>1 DEF SessionTypeOK
    <3>2. CASE ~UNCHANGED <<terminal, call>>
      <4>1. /\ nextJob \in JobIds /\ HandOver(nextJob)
            /\ call' = [call EXCEPT !.pc = "fail"]
        BY <2>9, <3>2 DEF StartFails, TableInv, TableTypeOK, JobIds
      <4>2. call' \in CallType /\ terminal' \in TerminalType
        BY <1>0, <4>1 DEF CallType, Labels, HandOver, TerminalType
      <4>3. QED
        BY <4>2 DEF SessionTypeOK
    <3>3. QED
      BY <3>1, <3>2
  <2>2. CASE \E ms \in Pipelines : StartForeground(ms)
    <3>1. /\ nextJob \in JobIds /\ HandOver(nextJob)
          /\ call' = [call EXCEPT !.pc = "foreground", !.job = nextJob]
      BY <2>2 DEF StartForeground, Spawn, TableInv, TableTypeOK, JobIds
    <3>2. call' \in CallType /\ terminal' \in TerminalType
      BY <1>0, <3>1 DEF CallType, Labels, HandOver, TerminalType
    <3>3. QED
      BY <3>1, <3>2 DEF SessionTypeOK
  <2>3. CASE CallJobs
    BY <1>0, <2>3, DrainingTyped DEF CallJobs, SessionTypeOK, Labels
  <2>4. CASE \E j \in JobIds : CallForeground(j)
    <3>1. PICK j \in JobIds : CallForeground(j)
      BY <2>4
    <3>2. Draining("fg") \in CallType
      BY <1>0, DrainingTyped DEF Labels
    <3>3. [Draining("fg") EXCEPT !.job = j] \in CallType
      BY <3>2 DEF CallType
    <3>4. QED
      BY <1>0, <3>1, <3>3 DEF CallForeground, SessionTypeOK
  <2>5. CASE \E next \in {"bg", "kill"}, j \in JobIds, s \in JobSignals : CallSignal(next, j, s)
    <3>1. PICK next \in {"bg", "kill"}, j \in JobIds, s \in JobSignals : CallSignal(next, j, s)
      BY <2>5
    <3>2. Draining(next) \in CallType
      BY <1>0, DrainingTyped DEF Labels
    <3>3. [Draining(next) EXCEPT !.job = j, !.signal = s] \in CallType
      BY <3>2 DEF CallType
    <3>4. QED
      BY <1>0, <3>1, <3>3 DEF CallSignal, SessionTypeOK
  <2>6. CASE \E targets \in TargetLists : CallWait(targets)
    <3>1. PICK targets \in TargetLists : CallWait(targets)
      BY <2>6
    <3>2. Draining("waitSelect") \in CallType /\ targets \in Selections
      BY <1>0, DrainingTyped DEF Labels, TargetLists
    <3>3. [Draining("waitSelect") EXCEPT !.selected = targets] \in CallType
      BY <3>2 DEF CallType
    <3>4. QED
      BY <1>0, <3>1, <3>3 DEF CallWait, SessionTypeOK
  <2>7. CASE \E op \in {"join", "hangup"} : CallEnd(op)
    <3>1. PICK op \in {"join", "hangup"} : CallEnd(op)
      BY <2>7
    <3>2. call' \in CallType /\ terminal' = terminal
      <4>1. /\ call' = [call EXCEPT !.pc = "resume", !.op = op,
                                      !.next = IF op = "hangup" THEN "hangup" ELSE "quiesce"]
            /\ terminal' = terminal
        BY <3>1 DEF CallEnd
      <4>2. (IF op = "hangup" THEN "hangup" ELSE "quiesce") \in Labels /\ "resume" \in Labels
        BY DEF Labels
      <4>3. QED
        BY <1>0, <4>1, <4>2 DEF CallType
    <3>3. QED
      BY <1>0, <3>2 DEF SessionTypeOK
  <2>8. QED
    BY <1>2, <2>1, <2>2, <2>3, <2>4, <2>5, <2>6, <2>7, <2>9 DEF Command
<1>3. CASE Progress
  <2>1. CASE \/ DrainOne \/ ForegroundReceive
             \/ (\E n \in notices : DrainNotice(n)) \/ DrainReceive
    <3>1. UNCHANGED <<terminal, call>>
      BY <2>1 DEF DrainOne, ForegroundReceive, DrainNotice, DrainReceive
    <3>2. QED
      BY <3>1 DEF SessionTypeOK
  <2>2. CASE ForegroundRefused \/ SignalDone \/ SignalRefused \/ WaitRefused \/ WaitLost
             \/ WaitConsume
    <3>1. call' = Idle /\ terminal' = terminal
      BY <2>2 DEF ForegroundRefused, SignalDone, SignalRefused, WaitRefused, WaitLost,
                  WaitConsume, Return
    <3>2. QED
      BY <1>0, <3>1, IdleTyped DEF SessionTypeOK
  <2>3. CASE TakeTerminal
    <3>1. HandOver(call.job) /\ call.job \in JobIds /\ call' = [call EXCEPT !.pc = "entered"]
      BY <1>0, <2>3 DEF TakeTerminal, Foregroundable
    <3>2. call' \in CallType /\ terminal' \in TerminalType
      BY <1>0, <3>1 DEF CallType, Labels, HandOver, TerminalType
    <3>3. QED
      BY <3>2 DEF SessionTypeOK
  <2>4. CASE RestoreTerminal \/ DropGuard
    <3>1. call' \in {Idle, [call EXCEPT !.pc = "fail"]}
      BY <2>4 DEF RestoreTerminal, DropGuard, Return
    <3>2. [call EXCEPT !.pc = "fail"] \in CallType
      BY <1>0 DEF CallType, Labels
    <3>3. terminal' \in TerminalType
      BY <1>0, <2>4 DEF RestoreTerminal, DropGuard, GivenBack, TerminalType
    <3>4. QED
      BY <3>1, <3>2, <3>3, IdleTyped DEF SessionTypeOK
  <2>5. CASE DrainEnd \/ ResumeEnd
    <3>1. call' = [call EXCEPT !.pc = call.next] /\ terminal' = terminal
      BY <2>5 DEF DrainEnd, ResumeEnd
    <3>2. call' \in CallType
      BY <1>0, <3>1 DEF CallType
    <3>3. QED
      BY <1>0, <3>1, <3>2 DEF SessionTypeOK
  <2>6. CASE WaitSelect
    <3>1. Draining("waitResume") \in CallType
      BY <1>0, DrainingTyped DEF Labels
    <3>2. ASSUME NEW all \in TargetLists
          PROVE  [Draining("waitResume") EXCEPT !.selected = all] \in CallType
      BY <3>1 DEF CallType, TargetLists
    <3>3. call' \in CallType /\ terminal' = terminal
      BY <2>6, <3>1, <3>2 DEF WaitSelect
    <3>4. QED
      BY <1>0, <3>3 DEF SessionTypeOK
  <2>7. CASE WaitResume
    <3>1. Draining("waitSignal") \in CallType
      BY <1>0, DrainingTyped DEF Labels
    <3>2. [Draining("waitSignal") EXCEPT !.stopped = StoppedMembers(Target)] \in CallType
      BY <3>1 DEF CallType, StoppedMembers
    <3>3. call' \in {Idle, NextTarget,
                     [Draining("waitSignal") EXCEPT !.stopped = StoppedMembers(Target)]}
          /\ terminal' = terminal
      BY <2>7 DEF WaitResume, Return
    <3>4. QED
      BY <1>0, <3>2, <3>3, IdleTyped, NextTargetTyped DEF SessionTypeOK
  <2>8. CASE WaitSignal
    <3>1. Target \in JobIds
      BY <1>0, <2>8, SignalJobInv DEF WaitSignal
    <3>2. NextTarget \in CallType
      BY <1>0, NextTargetTyped
    <3>3. call' = [NextTarget EXCEPT !.resumes[Target] =
                     [m \in Members |-> IF m \in call.stopped THEN @[m] + 1 ELSE @[m]]]
          /\ terminal' = terminal
      BY <2>8 DEF WaitSignal
    <3>4. NextTarget.resumes \in [JobIds -> [Members -> Nat]]
      BY <3>2 DEF CallType
    <3>5. [NextTarget.resumes EXCEPT ![Target] =
             [m \in Members |-> IF m \in call.stopped THEN @[m] + 1 ELSE @[m]]]
            \in [JobIds -> [Members -> Nat]]
      BY <3>1, <3>4
    <3>6. call' \in CallType
      BY <3>2, <3>3, <3>5 DEF CallType
    <3>7. QED
      BY <1>0, <3>3, <3>6 DEF SessionTypeOK
  <2>9. CASE WaitSignalRefused
    <3>1. call' \in {Idle, NextTarget} /\ terminal' = terminal
      BY <2>9 DEF WaitSignalRefused, Return
    <3>2. QED
      BY <1>0, <3>1, IdleTyped, NextTargetTyped DEF SessionTypeOK
  <2>10. CASE WaitReceive
    <3>1. call' = Draining("waitResume") /\ terminal' = terminal
      BY <2>10 DEF WaitReceive
    <3>2. QED
      BY <1>0, <3>1, DrainingTyped DEF SessionTypeOK, Labels
  <2>11. CASE ResumeOne
    <3>1. PICK j \in JobIds : call' = [call EXCEPT !.failures = FailuresAfterSignal(j)]
      BY <1>0, <2>11 DEF ResumeOne, Unanswered
    <3>2. call' \in CallType /\ terminal' = terminal
      BY <1>0, <2>11, <3>1, FailuresTyped DEF CallType, ResumeOne
    <3>3. QED
      BY <1>0, <3>2 DEF SessionTypeOK
  <2>12. CASE HangUpOne
    <3>1. PICK j \in JobIds :
            call' = [call EXCEPT !.failures = FailuresAfterSignal(j), !.idx = j + 1]
      BY <1>0, <2>12 DEF HangUpOne, ToHangUp, LiveJobs
    <3>2. FailuresAfterSignal(j) \in Seq(FailureType) /\ j + 1 \in Nat
      BY <1>0, FailuresTyped DEF JobIds
    <3>3. ASSUME NEW fs \in Seq(FailureType), NEW i \in Nat
          PROVE  [call EXCEPT !.failures = fs, !.idx = i] \in CallType
      BY <1>0 DEF CallType
    <3>4. call' \in CallType /\ terminal' = terminal
      BY <2>12, <3>1, <3>2, <3>3 DEF HangUpOne
    <3>5. QED
      BY <1>0, <3>4 DEF SessionTypeOK
  <2>13. CASE HangUpEnd
    <3>1. <<>> \in Seq(FailureType)
      OBVIOUS
    <3>2. call' \in CallType /\ terminal' = terminal
      BY <1>0, <2>13, <3>1 DEF HangUpEnd, CallType, Labels
    <3>3. QED
      BY <1>0, <3>2 DEF SessionTypeOK
  <2>14. CASE CollectOne
    <3>1. PICK j \in JobIds, why \in Reasons :
            call' = [call EXCEPT !.failures = Append(@, Failure(j, why))]
      BY <1>0, <2>14 DEF CollectOne, Uncollected, Reasons
    <3>2. Failure(j, why) \in FailureType
      BY DEF Failure, FailureType
    <3>3. call.failures \in Seq(FailureType)
      BY <1>0 DEF CallType
    <3>4. Append(call.failures, Failure(j, why)) \in Seq(FailureType)
      BY <3>2, <3>3
    <3>5. call' \in CallType /\ terminal' = terminal
      BY <1>0, <2>14, <3>1, <3>4 DEF CallType, CollectOne
    <3>6. QED
      BY <1>0, <3>5 DEF SessionTypeOK
  <2>15. CASE \/ QuiesceReceive \/ CollectEnd \/ EndSession
              \/ ForegroundEnter \/ ForegroundFails \/ ForegroundReturn
    <3>1. PICK pc \in Labels : call' = [call EXCEPT !.pc = pc] /\ terminal' = terminal
      BY <2>15 DEF QuiesceReceive, CollectEnd, EndSession, ForegroundEnter, ForegroundFails,
                   ForegroundReturn, Labels
    <3>2. call' \in CallType
      BY <1>0, <3>1 DEF CallType
    <3>3. QED
      BY <1>0, <3>1, <3>2 DEF SessionTypeOK
  <2>16. CASE HangUpReturn
    <3>1. PICK fs \in Seq(FailureType) :
            /\ call' = [call EXCEPT !.pc = "drainNotices", !.held = <<>>, !.failures = fs]
            /\ terminal' = terminal
      BY <1>0, <2>16, MergedTyped DEF HangUpReturn
    <3>2. <<>> \in Seq(FailureType) /\ "drainNotices" \in Labels
      BY DEF Labels
    <3>3. call' \in CallType
      BY <1>0, <3>1, <3>2 DEF CallType
    <3>4. QED
      BY <1>0, <3>1, <3>3 DEF SessionTypeOK
  <2>17. QED
    BY <1>3, <2>1, <2>2, <2>3, <2>4, <2>5, <2>6, <2>7, <2>8, <2>9, <2>10, <2>11,
       <2>12, <2>13, <2>14, <2>15, <2>16 DEF Progress
<1>4. QED
  BY <1>1, <1>2, <1>3 DEF Next

-----------------------------------------------------------------------------
(* The inductive invariant of the specification. *)
Inv == TableInv /\ HostTypeOK /\ SessionTypeOK /\ HostFresh

(* The invariant holds at first.                                           *)
LEMMA InitInv == Init => Inv
<1> SUFFICES ASSUME Init PROVE Inv
  OBVIOUS
<1>1. NewRecord \in RecordType
  BY DEF NewRecord, RecordType, NewJob, JobType, JobState, MemberState, Placement, Status
<1>2. TableInv
  BY <1>1, BoundsAssumption DEF Init, TableInv, TableTypeOK
<1>3. HostTypeOK
  BY DEF Init, HostTypeOK
<1>4. HostFresh
  BY DEF Init, HostFresh
<1>5. SessionTypeOK
  BY IdleTyped DEF Init, SessionTypeOK, TerminalType
<1>6. QED
  BY <1>2, <1>3, <1>4, <1>5 DEF Inv

(* Whatever the session, the observers and the host do, in any order, the  *)
(* table, the queue and the channel stay consistent.                       *)
THEOREM Invariance == Spec => []Inv
<1>1. Inv /\ [Next]_vars => Inv'
  BY TableStep, HostStep, SessionStep DEF Inv
<1>2. QED
  BY <1>1, InitInv, PTL DEF Spec

(* The table, the host and the session keep their types. *)
THEOREM TypeCorrect == Spec => []TypeOK
<1>1. Inv => TypeOK
  BY DEF Inv, TableInv, TypeOK
<1>2. QED
  BY <1>1, Invariance, PTL

(* "A published job always retains its placement", its state is what its   *)
(* members say, and a completion is published exactly while it is          *)
(* completed.                                                              *)
THEOREM JobsSound == Spec => []PublishedJobsAreSound
<1>1. Inv => PublishedJobsAreSound
  BY DEF Inv, TableInv, GoodRecord, PublishedJobsAreSound
<1>2. QED
  BY <1>1, Invariance, PTL

(* The notice queue never disagrees with the records: what a prompt        *)
(* renders is true, and its acknowledgement is never refused.              *)
THEOREM NoticesSound == Spec => []NoticesMatchRecords
<1>1. Inv => NoticesMatchRecords
  BY DEF Inv, TableInv, NoticesMatchRecords
<1>2. QED
  BY <1>1, Invariance, PTL

(* The mark of an answered stop never outlives the stop. *)
THEOREM MarksSound == Spec => []AnsweredStopsAreStops
<1>1. Inv => AnsweredStopsAreStops
  BY DEF Inv, TableInv, GoodRecord, AnsweredStopsAreStops
<1>2. QED
  BY <1>1, Invariance, PTL

(* No identity is used twice. *)
THEOREM IdentitiesSound == Spec => []IdentitiesFresh
<1>1. Inv => IdentitiesFresh
  BY DEF Inv, TableInv, HostFresh, IdentitiesFresh
<1>2. QED
  BY <1>1, Invariance, PTL

-----------------------------------------------------------------------------
(* As long as no command failed to give the terminal back, the guard that  *)
(* is held remembers the shell, and without a guard the shell owns it.     *)
TerminalInv ==
  terminal.lost \/ (terminal.previous = Shell /\ (Holding \/ terminal.owner = Shell))

(* Every step keeps it: the terminal is handed over by the shell only, and *)
(* whoever lets a guard go has given it back or marks it lost.             *)
LEMMA TerminalStep ==
  ASSUME TerminalInv, SessionTypeOK, [Next]_vars
  PROVE  TerminalInv'
<1>0. call \in CallType /\ terminal \in TerminalType
  BY DEF SessionTypeOK
<1>1. ASSUME terminal' = terminal, ~Holding \/ call'.pc \in {"entered", "foreground", "restore", "fail"}
      PROVE  TerminalInv'
  BY <1>1 DEF TerminalInv, Holding
<1>2. ASSUME NEW j, HandOver(j), ~Holding, call'.pc \in {"entered", "foreground", "fail"}
      PROVE  TerminalInv'
  BY <1>0, <1>2 DEF TerminalInv, Holding, HandOver, TerminalType
<1>3. CASE UNCHANGED vars \/ Host \/ Observer \/ Ended
  <2>1. UNCHANGED <<terminal, call>>
    BY <1>3 DEF vars, Host, HostStop, HostContinue, HostExit, Observer, Ended,
                ObserveTransition, ObserveExit, ObserveFailure
  <2>2. QED
    BY <1>1, <2>1 DEF Holding
<1>4. CASE Command
  <2>1. ~Holding
    BY <1>4 DEF Command, Start, StartForeground, StartFails, NextNotice, Acknowledge, CallJobs,
                CallForeground, CallSignal, CallWait, CallEnd, At, Holding
  <2>2. CASE \E ms \in Pipelines : StartForeground(ms)
    <3>1. HandOver(nextJob) /\ call' = [call EXCEPT !.pc = "foreground", !.job = nextJob]
      BY <2>2 DEF StartForeground
    <3>2. call'.pc = "foreground"
      BY <1>0, <3>1 DEF CallType
    <3>3. QED
      BY <1>2, <2>1, <3>1, <3>2
  <2>3. CASE StartFails
    <3>1. CASE terminal' = terminal
      BY <1>1, <2>1, <3>1
    <3>2. CASE terminal' # terminal
      <4>1. HandOver(nextJob) /\ call' = [call EXCEPT !.pc = "fail"]
        BY <2>3, <3>2 DEF StartFails
      <4>2. call'.pc = "fail"
        BY <1>0, <4>1 DEF CallType
      <4>3. QED
        BY <1>2, <2>1, <4>1, <4>2
    <3>3. QED
      BY <3>1, <3>2
  <2>4. CASE ~(StartFails \/ \E ms \in Pipelines : StartForeground(ms))
    <3>1. terminal' = terminal
      BY <1>4, <2>4 DEF Command, Start, NextNotice, Acknowledge, CallJobs,
                        CallForeground, CallSignal, CallWait, CallEnd
    <3>2. QED
      BY <1>1, <2>1, <3>1
  <2>5. QED
    BY <2>2, <2>3, <2>4
<1>5. CASE Progress
  <2>1. CASE TakeTerminal
    <3>1. HandOver(call.job) /\ ~Holding /\ call'.pc = "entered"
      BY <1>0, <2>1 DEF TakeTerminal, At, Holding, CallType
    <3>2. QED
      BY <1>2, <3>1
  <2>2. CASE ForegroundEnter \/ ForegroundFails \/ ForegroundReceive \/ ForegroundReturn
    <3>1. terminal' = terminal /\ call'.pc \in {"foreground", "restore", "fail"}
      BY <1>0, <2>2 DEF ForegroundEnter, ForegroundFails, ForegroundReceive, ForegroundReturn,
                        At, CallType
    <3>2. QED
      BY <1>1, <3>1
  <2>3. CASE RestoreTerminal
    <3>1. CASE GivenBack
      BY <1>0, <3>1 DEF GivenBack, TerminalInv, TerminalType
    <3>2. CASE ~GivenBack
      <4>1. terminal' = terminal /\ call'.pc = "fail"
        BY <1>0, <2>3, <3>2 DEF RestoreTerminal, CallType
      <4>2. QED
        BY <1>1, <4>1
    <3>3. QED
      BY <3>1, <3>2
  <2>4. CASE DropGuard
    BY <1>0, <2>4 DEF DropGuard, GivenBack, TerminalInv, TerminalType
  <2>5. CASE ~(\/ TakeTerminal \/ ForegroundEnter \/ ForegroundFails \/ ForegroundReceive
               \/ ForegroundReturn \/ RestoreTerminal \/ DropGuard)
    <3>1. terminal' = terminal /\ ~Holding
      BY <1>5, <2>5 DEF Progress, At, Holding, DrainOne, DrainEnd, ForegroundRefused, SignalDone,
           SignalRefused, WaitRefused, WaitSelect, WaitResume, WaitSignal,
           WaitSignalRefused, WaitReceive, WaitLost, WaitConsume, ResumeOne, ResumeEnd,
           HangUpOne, HangUpEnd, QuiesceReceive, CollectOne, CollectEnd, HangUpReturn,
           DrainNotice, DrainReceive, EndSession
    <3>2. QED
      BY <1>1, <3>1
  <2>6. QED
    BY <2>1, <2>2, <2>3, <2>4, <2>5
<1>6. QED
  BY <1>3, <1>4, <1>5 DEF Next

(* Every route out of a foreground command, the failing ones included,     *)
(* gives the terminal back to the shell, unless the host refused that both *)
(* when the command restored it and when it dropped the guard.             *)
THEOREM TerminalSound == Spec => []TerminalReturned
<1>1. Init => TerminalInv
  BY DEF Init, TerminalInv
<1>2. TerminalInv /\ SessionTypeOK /\ [Next]_vars => TerminalInv'
  BY TerminalStep
<1>3. Inv => SessionTypeOK
  BY DEF Inv
<1>4. TerminalInv => TerminalReturned
  BY DEF TerminalInv, TerminalReturned
<1>5. QED
  BY <1>1, <1>2, <1>3, <1>4, Invariance, PTL DEF Spec
=============================================================================
