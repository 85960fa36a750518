----------------------- MODULE BackgroundJobsReality ------------------------
(***************************************************************************)
(* The job table tells the truth about the processes, for any number of    *)
(* jobs, members, notices and observations: Reality, the invariant that    *)
(* relates records, observations under way, notices and the locals of the  *)
(* session to the processes, and what follows from it.  A step is first    *)
(* shown to be of one of a few kinds (Kind); each part of the invariant is *)
(* then kept by every kind.  The last part shows that the system           *)
(* implements JobLedger.                                                   *)
(***************************************************************************)
EXTENDS BackgroundJobsProofs, BackgroundJobsInvariant, WellFoundedInduction

-----------------------------------------------------------------------------
(* The members of a record.                                                *)

(* Folding the members of a job leaves the members alone. *)
LEMMA ReconcileMembers ==
  ASSUME NEW q \in JobType
  PROVE  Reconcile(q).members = q.members
  BY DEF Reconcile, JobType

(* What an accepted observation does to the members of a job. *)
LEMMA MembersObserved ==
  ASSUME NEW q \in JobType, NEW m \in Members
  PROVE  /\ ObserveStopped(q, m).members = [q.members EXCEPT ![m] = "stopped"]
         /\ ObserveContinued(q, m).members = [q.members EXCEPT ![m] = "running"]
         /\ ObserveCompleted(q, m).members = [q.members EXCEPT ![m] = "completed"]
<1>1. ASSUME q.state # "stopped" \/ q.resume \in Placement \cup {"none"}
      PROVE  ObserveContinued(q, m).members = [q.members EXCEPT ![m] = "running"]
  <2> DEFINE p == [q EXCEPT !.members[m] = "running",
                            !.placement = IF q.state = "stopped" THEN q.resume ELSE @,
                            !.pending = FALSE]
  <2>1. p \in JobType /\ p.members = [q.members EXCEPT ![m] = "running"]
    BY DEF JobType, MemberState
  <2>2. QED
    BY <2>1, ReconcileMembers DEF ObserveContinued
<1>2. ObserveContinued(q, m).members = [q.members EXCEPT ![m] = "running"]
  BY <1>1 DEF JobType
<1>3. ObserveStopped(q, m).members = [q.members EXCEPT ![m] = "stopped"]
  <2> DEFINE p == [q EXCEPT !.members[m] = "stopped"]
  <2>1. p \in JobType /\ p.members = [q.members EXCEPT ![m] = "stopped"]
    BY DEF JobType, MemberState
  <2>2. QED
    BY <2>1, ReconcileMembers DEF ObserveStopped
<1>4. ObserveCompleted(q, m).members = [q.members EXCEPT ![m] = "completed"]
  <2> DEFINE p == [q EXCEPT !.members[m] = "completed"]
  <2>1. p \in JobType /\ p.members = [q.members EXCEPT ![m] = "completed"]
    BY DEF JobType, MemberState
  <2>2. QED
    BY <2>1, ReconcileMembers DEF ObserveCompleted
<1>5. QED
  BY <1>2, <1>3, <1>4

(* The member state an observation says. *)
Says(k) == CASE k = "stopped" -> "stopped" [] k = "continued" -> "running"
             [] k = "completed" -> "completed" [] OTHER -> "none"

(* The whole record after an accepted observation of a living member: the  *)
(* member is what the observation says, a completion brings its status,    *)
(* and nothing else about any member changes.                              *)
LEMMA AcceptedShape ==
  ASSUME NEW r, GoodRecord(r), NEW e \in ObservationType,
         Accepts(r.job, e.member), e.kind # "failed"
  PROVE  LET r1 == Observed(r, e) IN
         /\ r1.job.members = [r.job.members EXCEPT ![e.member] = Says(e.kind)]
         /\ r1.status = IF e.kind = "completed" THEN [r.status EXCEPT ![e.member] = e.status]
                        ELSE r.status
         /\ r.completion = "none"
         /\ r1.completion # "none" => e.kind = "completed" /\ r1.completion = Aggregate(r1)
         /\ r1.observation_failed = r.observation_failed
<1> DEFINE r1 == Observed(r, e)
           m == e.member
<1>0. m \in Members /\ e.kind \in {"stopped", "continued", "completed", "failed"}
      /\ e.status \in Status \cup {"none"} /\ r.job \in JobType /\ r \in RecordType
  BY DEF ObservationType, GoodRecord, RecordType
<1>1. r.completion = "none"
  BY DEF GoodRecord, Accepts, Observable
<1>2. CASE e.kind = "stopped"
  <2> DEFINE j == ObserveStopped(r.job, m)
  <2> HIDE DEF j
  <2>1. j.members = [r.job.members EXCEPT ![m] = "stopped"]
    BY <1>0, MembersObserved DEF j
  <2>2. r1 = OnStopped(r, m)
    BY <1>2 DEF Observed
  <2>3. r1.job = j /\ r1.status = r.status /\ r1.completion = r.completion
        /\ r1.observation_failed = r.observation_failed
    BY <1>0, <2>2 DEF OnStopped, RecordType, j
  <2>4. QED
    BY <1>1, <1>2, <2>1, <2>3 DEF Says
<1>3. CASE e.kind = "continued"
  <2> DEFINE j == ObserveContinued(r.job, m)
  <2> HIDE DEF j
  <2>1. j.members = [r.job.members EXCEPT ![m] = "running"]
    BY <1>0, MembersObserved DEF j
  <2>2. r1 = OnContinued(r, m)
    BY <1>3 DEF Observed
  <2>3. r1.job = j /\ r1.status = r.status /\ r1.completion = r.completion
        /\ r1.observation_failed = r.observation_failed
    BY <1>0, <2>2 DEF OnContinued, RecordType, j
  <2>4. QED
    BY <1>1, <1>3, <2>1, <2>3 DEF Says
<1>4. CASE e.kind = "completed"
  <2> DEFINE j == ObserveCompleted(r.job, m)
             p == [r EXCEPT !.job = j, !.status[m] = e.status]
  <2> HIDE DEF j
  <2>1. j.members = [r.job.members EXCEPT ![m] = "completed"]
    BY <1>0, MembersObserved DEF j
  <2>2. r1 = [p EXCEPT !.completion = IF p.job.state = "completed" THEN Aggregate(p) ELSE @]
    BY <1>4 DEF Observed, OnCompleted, j
  <2>7. j \in JobType
    BY <1>0, ObserveCompletedGood DEF GoodRecord, GoodJob, j
  <2>3. p.job = j /\ p.status = [r.status EXCEPT ![m] = e.status] /\ p \in RecordType
        /\ p.completion = r.completion /\ p.observation_failed = r.observation_failed
    BY <1>0, <2>7 DEF RecordType
  <2> HIDE DEF p
  <2>4. r1.job = j /\ r1.status = p.status /\ r1.observation_failed = r.observation_failed
        /\ r1.completion = IF p.job.state = "completed" THEN Aggregate(p) ELSE p.completion
    BY <2>2, <2>3 DEF RecordType
  <2>5. Aggregate(r1) = Aggregate(p)
    BY <2>3, <2>4 DEF Aggregate
  <2>6. QED
    BY <1>1, <1>4, <2>1, <2>3, <2>4, <2>5 DEF Says
<1>5. QED
  BY <1>0, <1>2, <1>3, <1>4

-----------------------------------------------------------------------------
(* Processes, observations and records.                                    *)

(* What is invariant of processes, channel and records together. *)
World == ProcInv /\ ChannelInv /\ MemberInv /\ ConvInv /\ OutcomeInv

(* A process and what is reported of it are as before.                     *)
Kept(j, m) == /\ os'[j][m] = os[j][m] /\ report'[j][m] = report[j][m]
              /\ code'[j][m] = code[j][m]

(* A process moves by itself or by a signal: it keeps what it does, stops, *)
(* continues or ends, and is reported accordingly; one that ended stays as *)
(* it is.                                                                  *)
Moves(j, m) ==
  \/ Kept(j, m)
  \/ /\ os[j][m] = "running" /\ os'[j][m] = "stopped" /\ report'[j][m] = "stopped"
     /\ code'[j][m] = code[j][m]
  \/ /\ os[j][m] = "stopped" /\ os'[j][m] = "running" /\ report'[j][m] = "continued"
     /\ code'[j][m] = code[j][m]
  \/ /\ Alive(os[j][m]) /\ os'[j][m] = "zombie" /\ report'[j][m] = "none"
     /\ code'[j][m] \in Status

(* The member state a record shows is as before, or a stopped member of a  *)
(* group that was continued is running.                                    *)
MemberKept(j, m) ==
  \/ rec'[j].job.members[m] = rec[j].job.members[m]
  \/ /\ rec[j].job.members[m] = "stopped" /\ rec'[j].job.members[m] = "running"
     /\ os'[j][m] # "stopped"

(* Outcome and statuses of a record are as before.                         *)
OutcomeKept(j) == rec'[j].completion = rec[j].completion /\ rec'[j].status = rec[j].status

(* A step in which processes may move, seen by nobody yet: nothing is      *)
(* observed, spawned or removed, and records are at most told that a       *)
(* stopped group was continued.                                            *)
Runs ==
  /\ UNCHANGED <<table, nextJob, events, obs>>
  /\ \A j \in JobIds, m \in Members : Moves(j, m)
  /\ \A j \in JobIds : OutcomeKept(j)
  /\ \A j \in table, m \in Members : MemberKept(j, m)

(* Nothing under way changes. *)
LEMMA EventsKept ==
  ASSUME events' = events, NEW j, NEW m
  PROVE  EventsOf(j, m)' = EventsOf(j, m)
  BY DEF EventsOf

(* Processes that move, and stopped groups told to run again, keep         *)
(* processes, channel and records consistent.                              *)
LEMMA RunsWorld ==
  ASSUME Inv, World, Runs
  PROVE  World'
<1>1. table' = table /\ nextJob' = nextJob /\ events' = events /\ obs' = obs
  BY DEF Runs
<1>t. table \subseteq JobIds
  BY DEF Inv, TableInv, TableTypeOK
<1>2. ProcInv'
  <2>1. ASSUME NEW j \in JobIds, NEW m \in Members PROVE ProcessSound(j, m)'
    <3>1. Moves(j, m) /\ ProcessSound(j, m)
      BY DEF Runs, World, ProcInv
    <3>2. QED
      BY <1>1, <3>1 DEF Moves, Kept, ProcessSound, Alive, Status
  <2>2. QED
    BY <2>1 DEF ProcInv
<1>3. ChannelInv'
  <2>1. ASSUME NEW i \in DOMAIN events PROVE EventSound(events[i])'
    <3>1. PICK e \in ObservationType : e = events[i]
      BY DEF Inv, HostTypeOK
    <3>2. Moves(e.job, e.member) /\ EventSound(e)
      BY <3>1 DEF Runs, World, ChannelInv, ObservationType
    <3>3. EventSound(e)'
      BY <1>1, <3>2 DEF EventSound, Moves, Kept, Alive, Terminal
    <3>4. QED
      BY <1>1, <3>1, <3>3
  <2>2. QED
    BY <1>1, <2>1 DEF World, ChannelInv
<1>4. MemberInv'
  <2>1. ASSUME NEW j \in table, NEW m \in Members PROVE MemberSound(j, m)'
    <3>1. /\ Moves(j, m) /\ MemberKept(j, m) /\ OutcomeKept(j) /\ MemberSound(j, m)
          /\ EventsOf(j, m)' = EventsOf(j, m)
      BY <1>1, <1>t, EventsKept DEF Runs, World, MemberInv
    <3>2. QED
      BY <1>1, <3>1 DEF MemberSound, Moves, Kept, MemberKept, OutcomeKept, Alive
  <2>2. QED
    BY <1>1, <2>1 DEF MemberInv
<1>5. ConvInv'
  <2>1. ASSUME NEW j \in table, NEW m \in Members PROVE Converging(j, m)'
    <3>1. /\ Moves(j, m) /\ MemberKept(j, m) /\ Converging(j, m)
          /\ EventsOf(j, m)' = EventsOf(j, m)
      BY <1>1, <1>t, EventsKept DEF Runs, World, ConvInv
    <3>2. \A i \in DOMAIN events : Newest(i, j, m)' <=> Newest(i, j, m)
      BY <3>1 DEF Newest
    <3>3. QED
      BY <1>1, <3>1, <3>2 DEF Converging, Moves, Kept, MemberKept, Alive, Agrees
  <2>2. QED
    BY <1>1, <2>1 DEF ConvInv
<1>6. OutcomeInv'
  <2>1. ASSUME NEW j \in table, rec[j].completion # "none"
        PROVE  Aggregate(rec[j])' = Aggregate(rec[j])
    <3>1. rec'[j].status = rec[j].status
      BY <1>t DEF Runs, OutcomeKept
    <3>2. \A m \in Members : rec'[j].job.members[m] # "absent" <=> rec[j].job.members[m] # "absent"
      BY DEF Runs, MemberKept
    <3>3. {m \in Members : rec'[j].job.members[m] # "absent"}
            = {m \in Members : rec[j].job.members[m] # "absent"}
      BY <3>2
    <3>4. QED
      BY <3>1, <3>3 DEF Aggregate
  <2>2. \A j \in JobIds : rec'[j].completion = rec[j].completion
    BY DEF Runs, OutcomeKept
  <2>3. QED
    BY <1>1, <1>t, <2>1, <2>2 DEF World, OutcomeInv
<1>7. QED
  BY <1>2, <1>3, <1>4, <1>5, <1>6 DEF World

(* Records leave the table; processes and channel are as before. *)
Removes ==
  /\ UNCHANGED <<nextJob, events, obs, os, report, code>>
  /\ table' \subseteq table
  /\ \A j \in table' : rec'[j] = rec[j]
  /\ \A j \in JobIds : rec'[j].completion = rec[j].completion
  /\ \A j \in table : j \notin table' => rec[j].completion # "none"

(* Handing completed records out keeps processes, channel and records      *)
(* consistent.                                                             *)
LEMMA RemovesWorld ==
  ASSUME Inv, World, Removes
  PROVE  World'
<1>1. /\ nextJob' = nextJob /\ events' = events /\ obs' = obs /\ os' = os
      /\ report' = report /\ code' = code /\ table' \subseteq table
      /\ \A j \in table' : rec'[j] = rec[j]
  BY DEF Removes
<1>2. ProcInv'
  BY <1>1 DEF World, ProcInv, ProcessSound
<1>3. ChannelInv'
  BY <1>1 DEF World, ChannelInv, EventSound
<1>4. MemberInv'
  <2>1. ASSUME NEW j \in table', NEW m \in Members PROVE MemberSound(j, m)'
    <3>1. MemberSound(j, m) /\ EventsOf(j, m)' = EventsOf(j, m)
      BY <1>1, EventsKept DEF World, MemberInv
    <3>2. QED
      BY <1>1, <3>1 DEF MemberSound
  <2>2. QED
    BY <2>1 DEF MemberInv
<1>5. ConvInv'
  <2>1. ASSUME NEW j \in table', NEW m \in Members PROVE Converging(j, m)'
    <3>1. Converging(j, m) /\ EventsOf(j, m)' = EventsOf(j, m)
      BY <1>1, EventsKept DEF World, ConvInv
    <3>2. \A i \in DOMAIN events : Newest(i, j, m)' <=> Newest(i, j, m)
      BY <3>1 DEF Newest
    <3>3. QED
      BY <1>1, <3>1, <3>2 DEF Converging
  <2>2. QED
    BY <2>1 DEF ConvInv
<1>6. OutcomeInv'
  BY <1>1 DEF World, OutcomeInv, Removes, Aggregate
<1>7. QED
  BY <1>2, <1>3, <1>4, <1>5, <1>6 DEF World

(* An identity is spent on a start that failed. *)
LEMMA SpentWorld ==
  ASSUME Inv, World, StartFails
  PROVE  World'
<1>1. /\ events' = events /\ obs' = obs /\ os' = os /\ rec' = rec
      /\ report' = report /\ code' = code /\ table' = table
      /\ nextJob' = nextJob + 1 /\ nextJob \in Nat
  BY BoundsAssumption DEF StartFails, hostVars, Inv, TableInv, TableTypeOK
<1>2. ProcInv'
  <2>1. ASSUME NEW j \in JobIds, NEW m \in Members PROVE ProcessSound(j, m)'
    <3>1. ProcessSound(j, m) /\ j \in Nat
      BY DEF World, ProcInv, JobIds
    <3>2. j >= nextJob' => j >= nextJob
      BY <1>1, <3>1
    <3>3. QED
      BY <1>1, <3>1, <3>2 DEF ProcessSound
  <2>2. QED
    BY <2>1 DEF ProcInv
<1>3. ChannelInv'
  BY <1>1 DEF World, ChannelInv, EventSound
<1>4. MemberInv'
  BY <1>1 DEF World, MemberInv, MemberSound, EventsOf
<1>5. ConvInv'
  BY <1>1 DEF World, ConvInv, Converging, Newest, EventsOf
<1>6. OutcomeInv'
  <2>1. ASSUME NEW j \in JobIds PROVE j >= nextJob' => j >= nextJob
    <3>1. j \in Nat
      BY DEF JobIds
    <3>2. QED
      BY <1>1, <3>1
  <2>2. QED
    BY <1>1, <2>1 DEF World, OutcomeInv, Aggregate
<1>7. QED
  BY <1>2, <1>3, <1>4, <1>5, <1>6 DEF World

-----------------------------------------------------------------------------
(* Observation.                                                            *)

(* A process and its observer are as before.                               *)
Watched(j, m) == /\ Kept(j, m) /\ obs'[j][m] = obs[j][m]

(* The observer of one process says something on the channel: an           *)
(* unreported transition, its end, or that it cannot be waited for.        *)
Observes(j, m, e) ==
  /\ UNCHANGED <<table, rec, nextJob>>
  /\ e \in ObservationType /\ e.job = j /\ e.member = m
  /\ events' = Append(events, e)
  /\ obs[j][m] = "waiting" /\ report'[j][m] = "none"
  /\ \A i \in JobIds, k \in Members : (i # j \/ k # m) => Watched(i, k)
  /\ \/ /\ os'[j][m] = os[j][m] /\ code'[j][m] = code[j][m] /\ obs'[j][m] = "waiting"
        /\ e.kind = report[j][m] /\ report[j][m] # "none"
     \/ /\ os'[j][m] = "gone" /\ obs'[j][m] = "done" /\ code'[j][m] \in Status
        /\ e.kind = "completed" /\ e.status = code'[j][m]
     \/ /\ os'[j][m] = "zombie" /\ obs'[j][m] = "done" /\ code'[j][m] \in Status
        /\ e.kind = "failed"

(* What an observer thread does in one turn is an observation, if there is *)
(* something to observe.                                                   *)
LEMMA ObserverObserves ==
  ASSUME Inv, World, Observer
  PROVE  \E j \in JobIds, m \in Members, e \in ObservationType : Observes(j, m, e)
<1>0. PICK j \in JobIds, m \in Members :
        ObserveTransition(j, m) \/ ObserveExit(j, m) \/ ObserveFailure(j, m)
  BY DEF Observer
<1>p. ProcessSound(j, m)
  BY DEF World, ProcInv
<1>t. /\ events \in Seq(ObservationType)
      /\ os \in [JobIds -> [Members -> {"none", "running", "stopped", "zombie", "gone"}]]
      /\ report \in [JobIds -> [Members -> {"none", "stopped", "continued"}]]
      /\ code \in [JobIds -> [Members -> Status \cup {"none"}]]
      /\ obs \in [JobIds -> [Members -> {"none", "waiting", "done"}]]
  BY DEF Inv, HostTypeOK
<1>1. CASE ObserveTransition(j, m)
  <2> DEFINE e == Observation(report[j][m], j, m, "none")
  <2>1. /\ UNCHANGED <<table, rec, nextJob, os, code, obs>> /\ events' = Append(events, e)
        /\ obs[j][m] = "waiting" /\ report[j][m] # "none"
        /\ report' = [report EXCEPT ![j][m] = "none"]
    BY <1>1 DEF ObserveTransition, tableVars
  <2>2. e \in ObservationType /\ e.job = j /\ e.member = m /\ e.kind = report[j][m]
    <3>1. report[j][m] \in {"stopped", "continued"}
      BY <1>t, <2>1
    <3>2. QED
      BY <3>1 DEF Observation, ObservationType
  <2>3. /\ report'[j][m] = "none"
        /\ \A i \in JobIds, k \in Members : (i # j \/ k # m) => report'[i][k] = report[i][k]
    BY <1>t, <2>1
  <2>4. Observes(j, m, e)
    BY <2>1, <2>2, <2>3 DEF Observes, Watched, Kept
  <2>5. QED
    BY <2>2, <2>4
<1>2. CASE ObserveExit(j, m)
  <2> DEFINE e == Observation("completed", j, m, code[j][m])
  <2>1. /\ UNCHANGED <<table, rec, nextJob, report, code>> /\ events' = Append(events, e)
        /\ obs[j][m] = "waiting" /\ os[j][m] = "zombie"
        /\ os' = [os EXCEPT ![j][m] = "gone"]
        /\ obs' = [obs EXCEPT ![j][m] = "done"]
    BY <1>2 DEF ObserveExit, tableVars
  <2>2. e \in ObservationType /\ e.job = j /\ e.member = m /\ e.kind = "completed"
        /\ e.status = code[j][m]
    BY <1>t DEF Observation, ObservationType
  <2>3. code[j][m] \in Status /\ report[j][m] = "none"
    BY <1>p, <1>t, <2>1 DEF ProcessSound
  <2>4. /\ os'[j][m] = "gone"
        /\ \A i \in JobIds, k \in Members : (i # j \/ k # m) => os'[i][k] = os[i][k]
    BY <1>t, <2>1
  <2>5. /\ obs'[j][m] = "done"
        /\ \A i \in JobIds, k \in Members : (i # j \/ k # m) => obs'[i][k] = obs[i][k]
    BY <1>t, <2>1
  <2>6. Observes(j, m, e)
    BY <2>1, <2>2, <2>3, <2>4, <2>5 DEF Observes, Watched, Kept
  <2>7. QED
    BY <2>2, <2>6
<1>3. CASE ObserveFailure(j, m)
  <2> DEFINE s == IF Alive(os[j][m]) THEN "err" ELSE code[j][m]
             c == Observation("completed", j, m, s)
             f == Observation("failed", j, m, "none")
  <2>0. s \in Status
    <3>1. os[j][m] \in {"running", "stopped", "zombie"}
      BY <1>3, <1>p, <1>t DEF ObserveFailure, ProcessSound
    <3>2. QED
      BY <1>p, <1>t, <3>1 DEF ProcessSound, Alive, Status
  <2>1. /\ UNCHANGED <<table, rec, nextJob>>
        /\ obs[j][m] = "waiting"
        /\ obs' = [obs EXCEPT ![j][m] = "done"]
        /\ report' = [report EXCEPT ![j][m] = "none"]
        /\ code' = [code EXCEPT ![j][m] = s]
    BY <1>3 DEF ObserveFailure, tableVars
  <2>2. \/ os' = [os EXCEPT ![j][m] = "gone"] /\ events' = Append(events, c)
        \/ os' = [os EXCEPT ![j][m] = "zombie"] /\ events' = Append(events, f)
    BY <1>3 DEF ObserveFailure
  <2>e. /\ c \in ObservationType /\ c.job = j /\ c.member = m /\ c.kind = "completed"
        /\ c.status = s
        /\ f \in ObservationType /\ f.job = j /\ f.member = m /\ f.kind = "failed"
    BY <2>0 DEF Observation, ObservationType
  <2> HIDE DEF s, c, f
  <2>3. /\ obs'[j][m] = "done"
        /\ \A i \in JobIds, k \in Members : (i # j \/ k # m) => obs'[i][k] = obs[i][k]
    BY <1>t, <2>1
  <2>4. /\ report'[j][m] = "none"
        /\ \A i \in JobIds, k \in Members : (i # j \/ k # m) => report'[i][k] = report[i][k]
    BY <1>t, <2>1
  <2>5. /\ code'[j][m] = s
        /\ \A i \in JobIds, k \in Members : (i # j \/ k # m) => code'[i][k] = code[i][k]
    BY <1>t, <2>1
  <2>6. CASE os' = [os EXCEPT ![j][m] = "gone"] /\ events' = Append(events, c)
    <3>1. /\ os'[j][m] = "gone"
          /\ \A i \in JobIds, k \in Members : (i # j \/ k # m) => os'[i][k] = os[i][k]
      BY <1>t, <2>6
    <3>2. Observes(j, m, c)
      BY <2>0, <2>1, <2>e, <2>3, <2>4, <2>5, <2>6, <3>1 DEF Observes, Watched, Kept
    <3>3. QED
      BY <2>e, <3>2
  <2>7. CASE os' = [os EXCEPT ![j][m] = "zombie"] /\ events' = Append(events, f)
    <3>1. /\ os'[j][m] = "zombie"
          /\ \A i \in JobIds, k \in Members : (i # j \/ k # m) => os'[i][k] = os[i][k]
      BY <1>t, <2>7
    <3>2. Observes(j, m, f)
      BY <2>0, <2>1, <2>e, <2>3, <2>4, <2>5, <2>7, <3>1 DEF Observes, Watched, Kept
    <3>3. QED
      BY <2>e, <3>2
  <2>8. QED
    BY <2>2, <2>6, <2>7
<1>4. QED
  BY <1>0, <1>1, <1>2, <1>3

(* One more observation at the end of the channel. *)
LEMMA Appended ==
  ASSUME events \in Seq(ObservationType), NEW e \in ObservationType, events' = Append(events, e)
  PROVE  /\ DOMAIN events' = DOMAIN events \cup {Len(events) + 1}
         /\ Len(events) + 1 \notin DOMAIN events
         /\ \A i \in DOMAIN events : events'[i] = events[i] /\ i < Len(events) + 1
         /\ events'[Len(events) + 1] = e
         /\ EventsOf(e.job, e.member)' = EventsOf(e.job, e.member) \cup {Len(events) + 1}
         /\ \A j, m : (j # e.job \/ m # e.member) => EventsOf(j, m)' = EventsOf(j, m)
<1>1. /\ DOMAIN events' = DOMAIN events \cup {Len(events) + 1}
      /\ Len(events) + 1 \notin DOMAIN events
      /\ \A i \in DOMAIN events : events'[i] = events[i] /\ i < Len(events) + 1
      /\ events'[Len(events) + 1] = e
  OBVIOUS
<1>2. EventsOf(e.job, e.member)' = EventsOf(e.job, e.member) \cup {Len(events) + 1}
  BY <1>1 DEF EventsOf
<1>3. ASSUME NEW j, NEW m, j # e.job \/ m # e.member PROVE EventsOf(j, m)' = EventsOf(j, m)
  BY <1>1, <1>3 DEF EventsOf
<1>4. QED
  BY <1>1, <1>2, <1>3

(* An observation put on the channel keeps processes, channel and records  *)
(* consistent.                                                             *)
LEMMA ObservesWorld ==
  ASSUME Inv, World, NEW j \in JobIds, NEW m \in Members, NEW e \in ObservationType,
         Observes(j, m, e)
  PROVE  World'
<1>1. /\ table' = table /\ rec' = rec /\ nextJob' = nextJob /\ events' = Append(events, e)
      /\ e.job = j /\ e.member = m /\ obs[j][m] = "waiting" /\ report'[j][m] = "none"
      /\ \A i \in JobIds, k \in Members : (i # j \/ k # m) => Watched(i, k)
  BY DEF Observes
<1>2. \/ /\ os'[j][m] = os[j][m] /\ code'[j][m] = code[j][m] /\ obs'[j][m] = "waiting"
         /\ e.kind = report[j][m] /\ report[j][m] # "none"
      \/ /\ os'[j][m] = "gone" /\ obs'[j][m] = "done" /\ code'[j][m] \in Status
         /\ e.kind = "completed" /\ e.status = code'[j][m]
      \/ /\ os'[j][m] = "zombie" /\ obs'[j][m] = "done" /\ code'[j][m] \in Status
         /\ e.kind = "failed"
  BY DEF Observes
<1>t. /\ table \subseteq JobIds /\ events \in Seq(ObservationType)
      /\ report[j][m] \in {"none", "stopped", "continued"}
  BY DEF Inv, TableInv, TableTypeOK, HostTypeOK
<1> DEFINE last == Len(events) + 1
<1>a. /\ DOMAIN events' = DOMAIN events \cup {last}
      /\ last \notin DOMAIN events
      /\ \A i \in DOMAIN events : events'[i] = events[i] /\ i < last
      /\ events'[last] = e
      /\ EventsOf(j, m)' = EventsOf(j, m) \cup {last}
      /\ \A i, k : (i # j \/ k # m) => EventsOf(i, k)' = EventsOf(i, k)
  BY <1>1, <1>t, Appended
<1>b. last \in Nat
  BY <1>t
<1> HIDE DEF last
<1>p. ProcessSound(j, m)
  BY DEF World, ProcInv
<1>3. ProcInv'
  <2>1. ProcessSound(j, m)'
    BY <1>1, <1>2, <1>p DEF ProcessSound, Alive, Status
  <2>2. ASSUME NEW i \in JobIds, NEW k \in Members, i # j \/ k # m PROVE ProcessSound(i, k)'
    <3>1. ProcessSound(i, k) /\ Watched(i, k)
      BY <1>1, <2>2 DEF World, ProcInv
    <3>2. QED
      BY <1>1, <3>1 DEF ProcessSound, Watched, Kept
  <2>3. QED
    BY <2>1, <2>2 DEF ProcInv
<1>4. ASSUME NEW i \in DOMAIN events, events[i].job = j, events[i].member = m
      PROVE  events[i].kind \notin Terminal
  BY <1>1, <1>4 DEF World, ChannelInv, EventSound
<1>5. ChannelInv'
  <2>1. ASSUME NEW i \in DOMAIN events PROVE EventSound(events[i])'
    <3>1. PICK d \in ObservationType : d = events[i]
      BY <1>t
    <3>2. EventSound(d) /\ d.job \in JobIds /\ d.member \in Members
      BY <3>1 DEF World, ChannelInv, ObservationType
    <3>3. CASE d.job = j /\ d.member = m
      <4>1. d.kind \notin Terminal
        BY <1>4, <3>1, <3>3
      <4>2. EventSound(d)'
        BY <1>2, <3>2, <3>3, <4>1 DEF EventSound, Terminal
      <4>3. QED
        BY <1>a, <3>1, <4>2
    <3>4. CASE d.job # j \/ d.member # m
      <4>1. Watched(d.job, d.member)
        BY <1>1, <3>2, <3>4
      <4>2. EventSound(d)'
        BY <3>2, <4>1 DEF EventSound, Watched, Kept
      <4>3. QED
        BY <1>a, <3>1, <4>2
    <3>5. QED
      BY <3>3, <3>4
  <2>2. EventSound(e)'
    BY <1>1, <1>2, <1>t DEF EventSound, Terminal
  <2>3. \A i \in DOMAIN events' : EventSound(events[i])'
    <3>1. SUFFICES ASSUME NEW i \in DOMAIN events' PROVE EventSound(events[i])'
      OBVIOUS
    <3>2. CASE i \in DOMAIN events
      BY <2>1, <3>2
    <3>3. CASE i = last
      BY <1>a, <2>2, <3>3
    <3>4. QED
      BY <1>a, <3>2, <3>3
  <2>4. ASSUME NEW i \in DOMAIN events', NEW k \in DOMAIN events', i < k,
               events'[i].job = events'[k].job, events'[i].member = events'[k].member
        PROVE  events'[i].kind \notin Terminal
    <3>1. i \in DOMAIN events
      <4>1. CASE i = last
        <5>1. k \in DOMAIN events \/ k = last
          BY <1>a
        <5>2. k < last \/ k = last
          BY <1>a, <5>1
        <5>3. k \in Nat
          BY <1>a, <1>b, <1>t, <5>1
        <5>4. QED
          BY <1>b, <2>4, <4>1, <5>2, <5>3
      <4>2. QED
        BY <1>a, <4>1
    <3>2. CASE k = last
      BY <1>1, <1>4, <1>a, <2>4, <3>1, <3>2
    <3>3. CASE k \in DOMAIN events
      BY <1>a, <2>4, <3>1, <3>3 DEF World, ChannelInv
    <3>4. QED
      BY <1>a, <3>2, <3>3
  <2>5. QED
    BY <2>3, <2>4 DEF ChannelInv
<1>6. MemberInv'
  <2>1. ASSUME j \in table PROVE MemberSound(j, m)'
    <3>1. MemberSound(j, m)
      BY <2>1 DEF World, MemberInv
    <3>2. rec[j].job.members[m] # "completed"
      BY <1>1, <1>p, <3>1 DEF MemberSound, ProcessSound
    <3>3. os[j][m] # "none" /\ os'[j][m] # "none"
      BY <1>1, <1>2, <1>p DEF ProcessSound
    <3>4. ASSUME os'[j][m] = "gone" PROVE \E i \in EventsOf(j, m)' : events'[i].kind = "completed"
      <4>1. e.kind = "completed"
        BY <1>1, <1>2, <1>p, <3>4 DEF ProcessSound
      <4>2. QED
        BY <1>a, <4>1
    <3>5. QED
      BY <1>1, <3>1, <3>2, <3>3, <3>4 DEF MemberSound
  <2>2. ASSUME NEW i \in table, NEW k \in Members, i # j \/ k # m PROVE MemberSound(i, k)'
    <3>1. MemberSound(i, k) /\ Watched(i, k) /\ EventsOf(i, k)' = EventsOf(i, k)
      BY <1>1, <1>a, <1>t, <2>2 DEF World, MemberInv
    <3>2. \A x \in EventsOf(i, k) : events'[x] = events[x]
      BY <1>a DEF EventsOf
    <3>3. (\E x \in EventsOf(i, k) : events[x].kind = "completed")
            => \E x \in EventsOf(i, k)' : events'[x].kind = "completed"
      BY <3>1, <3>2
    <3>4. QED
      BY <1>1, <3>1, <3>3 DEF MemberSound, Watched, Kept
  <2>3. QED
    BY <1>1, <2>1, <2>2 DEF MemberInv
<1>7. ConvInv'
  <2>1. ASSUME j \in table PROVE Converging(j, m)'
    <3>1. SUFFICES ASSUME Alive(os[j][m])' PROVE
            /\ \A i \in DOMAIN events' : Newest(i, j, m)' => Agrees(events'[i].kind, os'[j][m])
            /\ EventsOf(j, m)' # {}
      BY DEF Converging
    <3>2. /\ os'[j][m] = os[j][m] /\ e.kind = report[j][m] /\ report[j][m] # "none"
      BY <1>2, <3>1 DEF Alive
    <3>3. ASSUME NEW i \in DOMAIN events', Newest(i, j, m)' PROVE i = last
      <4>1. i \in EventsOf(j, m)' /\ last <= i
        BY <1>a, <3>3 DEF Newest
      <4>2. i \in DOMAIN events => i < last /\ i \in Nat
        BY <1>a, <1>t
      <4>3. i \notin DOMAIN events
        BY <1>b, <4>1, <4>2
      <4>4. QED
        BY <1>a, <4>3
    <3>4. Agrees(e.kind, os'[j][m])
      BY <1>p, <1>t, <3>2 DEF Agrees, ProcessSound
    <3>5. QED
      BY <1>a, <3>3, <3>4
  <2>2. ASSUME NEW i \in table, NEW k \in Members, i # j \/ k # m PROVE Converging(i, k)'
    <3>1. Converging(i, k) /\ Watched(i, k) /\ EventsOf(i, k)' = EventsOf(i, k)
      BY <1>1, <1>a, <1>t, <2>2 DEF World, ConvInv
    <3>2. \A x \in EventsOf(i, k) : events'[x] = events[x] /\ x \in DOMAIN events
      BY <1>a DEF EventsOf
    <3>3. \A x : Newest(x, i, k)' <=> Newest(x, i, k)
      BY <3>1 DEF Newest
    <3>4. \A x : Newest(x, i, k) => x \in EventsOf(i, k)
      BY DEF Newest
    <3>5. QED
      BY <1>1, <3>1, <3>2, <3>3, <3>4 DEF Converging, Watched, Kept
  <2>3. QED
    BY <1>1, <2>1, <2>2 DEF ConvInv
<1>8. OutcomeInv'
  BY <1>1 DEF World, OutcomeInv, Aggregate
<1>9. QED
  BY <1>3, <1>5, <1>6, <1>7, <1>8 DEF World

-----------------------------------------------------------------------------
(* Spawning.                                                               *)

(* The members of a pipeline that has just been published run, the others  *)
(* are absent.                                                             *)
LEMMA PublishedMembers ==
  ASSUME NEW ms \in SUBSET Members, NEW p \in Placement
  PROVE  /\ Published(ms, p).job.members =
              [m \in Members |-> IF m \in ms THEN "running" ELSE "absent"]
         /\ Published(ms, p).completion = "none"
         /\ Published(ms, p).observation_failed = FALSE
<1> DEFINE a == AddProcesses(BeginStarting(NewJob), ms)
           b == [a EXCEPT !.placement = p, !.state = p]
<1>1. /\ a \in JobType
      /\ a.members = [m \in Members |-> IF m \in ms THEN "running" ELSE "absent"]
  BY DEF AddProcesses, BeginStarting, NewJob, JobType, JobState, MemberState, Placement
<1>2. b \in JobType /\ b.members = a.members
  BY <1>1 DEF JobType, JobState, Placement
<1>3. FinishStarting(a, p) = Reconcile(b)
  BY DEF FinishStarting
<1>4. FinishStarting(a, p).members = a.members
  BY <1>2, <1>3, ReconcileMembers
<1>5. Published(ms, p).job = FinishStarting(a, p) /\ Published(ms, p).completion = "none"
      /\ Published(ms, p).observation_failed = FALSE
  BY DEF Published, NewRecord
<1>6. QED
  BY <1>1, <1>4, <1>5

(* A pipeline is spawned under a fresh identity. *)
LEMMA SpawnWorld ==
  ASSUME Inv, World, NEW ms \in Pipelines, NEW p \in Placement, Spawn(ms, p)
  PROVE  World'
<1>0. PICK j \in JobIds : j = nextJob
  BY DEF Spawn, Inv, TableInv, TableTypeOK, JobIds
<1>m. ms \in SUBSET Members /\ ms # {}
  BY BoundsAssumption DEF Pipelines
<1>1. /\ nextJob' = j + 1 /\ table' = table \cup {j}
      /\ rec' = [rec EXCEPT ![j] = Published(ms, p)]
      /\ os' = [os EXCEPT ![j] = [m \in Members |-> IF m \in ms THEN "running" ELSE "none"]]
      /\ obs' = [obs EXCEPT ![j] = [m \in Members |-> IF m \in ms THEN "waiting" ELSE "none"]]
      /\ events' = events /\ report' = report /\ code' = code
  BY <1>0 DEF Spawn, SpawnAs
<1>t. /\ table \subseteq JobIds /\ events \in Seq(ObservationType)
      /\ rec \in [JobIds -> RecordType]
      /\ os \in [JobIds -> [Members -> {"none", "running", "stopped", "zombie", "gone"}]]
      /\ report \in [JobIds -> [Members -> {"none", "stopped", "continued"}]]
      /\ code \in [JobIds -> [Members -> Status \cup {"none"}]]
      /\ obs \in [JobIds -> [Members -> {"none", "waiting", "done"}]]
      /\ j \in Nat
  BY DEF Inv, TableInv, TableTypeOK, HostTypeOK, JobIds
<1>r. /\ rec'[j].job.members = [m \in Members |-> IF m \in ms THEN "running" ELSE "absent"]
      /\ rec'[j].completion = "none"
      /\ \A i \in JobIds : i # j => rec'[i] = rec[i]
  BY <1>1, <1>m, <1>t, PublishedMembers
<1>o. /\ \A m \in Members : os'[j][m] = IF m \in ms THEN "running" ELSE "none"
      /\ \A i \in JobIds : i # j => os'[i] = os[i]
  BY <1>1, <1>t
<1>b. /\ \A m \in Members : obs'[j][m] = IF m \in ms THEN "waiting" ELSE "none"
      /\ \A i \in JobIds : i # j => obs'[i] = obs[i]
  BY <1>1, <1>t
<1>f. \A i \in table : i # j
  BY <1>0, <1>t DEF Inv, TableInv
<1>n. \A m \in Members : EventsOf(j, m) = {}
  <2>1. \A i \in DOMAIN events : events[i].job # j
    BY <1>0, <1>t DEF Inv, HostFresh
  <2>2. QED
    BY <2>1 DEF EventsOf
<1>w. \A m \in Members : os[j][m] = "none" /\ code[j][m] = "none" /\ report[j][m] = "none"
  <2>1. ASSUME NEW m \in Members PROVE ProcessSound(j, m)
    BY DEF World, ProcInv
  <2>2. j >= nextJob
    BY <1>0, <1>t
  <2>3. ASSUME NEW m \in Members
        PROVE  os[j][m] = "none" /\ code[j][m] = "none" /\ report[j][m] = "none"
    <3>1. os[j][m] = "none"
      BY <2>1, <2>2 DEF ProcessSound
    <3>2. report[j][m] \in {"none", "stopped", "continued"}
      BY <1>t
    <3>3. QED
      BY <2>1, <3>1, <3>2 DEF ProcessSound
  <2>4. QED
    BY <2>3
<1>2. ProcInv'
  <2>1. ASSUME NEW m \in Members PROVE ProcessSound(j, m)'
    <3>1. ~(j >= nextJob')
      BY <1>1, <1>t
    <3>2. QED
      BY <1>1, <1>b, <1>o, <1>w, <3>1 DEF ProcessSound, Alive
  <2>2. ASSUME NEW i \in JobIds, NEW m \in Members, i # j PROVE ProcessSound(i, m)'
    <3>1. ProcessSound(i, m) /\ i \in Nat
      BY DEF World, ProcInv, JobIds
    <3>2. i >= nextJob' => i >= nextJob
      BY <1>0, <1>1, <1>t, <3>1
    <3>3. QED
      BY <1>1, <1>b, <1>o, <2>2, <3>1, <3>2 DEF ProcessSound
  <2>3. QED
    BY <2>1, <2>2 DEF ProcInv
<1>3. ChannelInv'
  <2>1. ASSUME NEW i \in DOMAIN events PROVE EventSound(events[i])'
    <3>1. PICK d \in ObservationType : d = events[i]
      BY <1>t
    <3>2. EventSound(d) /\ d.job # j /\ d.job \in JobIds
      BY <1>0, <1>t, <3>1 DEF World, ChannelInv, Inv, HostFresh, ObservationType
    <3>3. EventSound(d)'
      BY <1>1, <1>b, <1>o, <3>2 DEF EventSound
    <3>4. QED
      BY <1>1, <3>1, <3>3
  <2>2. QED
    BY <1>1, <2>1 DEF World, ChannelInv
<1>4. MemberInv'
  <2>1. ASSUME NEW m \in Members PROVE MemberSound(j, m)'
    <3>1. EventsOf(j, m)' = {}
      BY <1>1, <1>n, EventsKept
    <3>2. QED
      BY <1>o, <1>r, <3>1 DEF MemberSound
  <2>2. ASSUME NEW i \in table, NEW m \in Members PROVE MemberSound(i, m)'
    <3>1. MemberSound(i, m) /\ EventsOf(i, m)' = EventsOf(i, m) /\ i # j /\ i \in JobIds
      BY <1>1, <1>f, <1>t, EventsKept DEF World, MemberInv
    <3>2. QED
      BY <1>1, <1>o, <1>r, <3>1 DEF MemberSound
  <2>3. QED
    BY <1>1, <2>1, <2>2 DEF MemberInv
<1>5. ConvInv'
  <2>1. ASSUME NEW m \in Members PROVE Converging(j, m)'
    <3>1. EventsOf(j, m)' = {}
      BY <1>1, <1>n, EventsKept
    <3>2. QED
      BY <1>o, <1>r, <3>1 DEF Converging, Newest, Agrees, Alive
  <2>2. ASSUME NEW i \in table, NEW m \in Members PROVE Converging(i, m)'
    <3>1. Converging(i, m) /\ EventsOf(i, m)' = EventsOf(i, m) /\ i # j /\ i \in JobIds
      BY <1>1, <1>f, <1>t, EventsKept DEF World, ConvInv
    <3>2. \A x : Newest(x, i, m)' <=> Newest(x, i, m)
      BY <3>1 DEF Newest
    <3>3. QED
      BY <1>1, <1>o, <1>r, <3>1, <3>2 DEF Converging
  <2>3. QED
    BY <1>1, <2>1, <2>2 DEF ConvInv
<1>6. OutcomeInv'
  <2>1. \A i \in table' : rec'[i].completion # "none" => rec'[i].completion = Aggregate(rec[i])'
    BY <1>1, <1>f, <1>r, <1>t DEF World, OutcomeInv, Aggregate
  <2>2. ASSUME NEW i \in JobIds, i >= nextJob' PROVE rec'[i].completion = "none"
    <3>1. i \in Nat
      BY DEF JobIds
    <3>2. i # j /\ i >= nextJob
      BY <1>0, <1>1, <1>t, <2>2, <3>1
    <3>3. QED
      BY <1>r, <3>2 DEF World, OutcomeInv
  <2>3. QED
    BY <2>1, <2>2 DEF OutcomeInv
<1>7. QED
  BY <1>2, <1>3, <1>4, <1>5, <1>6 DEF World

-----------------------------------------------------------------------------
(* Receiving an observation.                                               *)

(* The oldest observation reaches the table. *)
Receives == Receive /\ UNCHANGED <<nextJob, hostVars, obs>>

(* The channel without its oldest observation. *)
LEMMA Shifted ==
  ASSUME events \in Seq(ObservationType), events # <<>>, events' = Tail(events)
  PROVE  /\ 1 \in DOMAIN events /\ Head(events) = events[1]
         /\ \A i \in DOMAIN events' : i \in Nat /\ i + 1 \in DOMAIN events
            /\ events'[i] = events[i + 1]
         /\ \A i \in DOMAIN events : i # 1 => i - 1 \in DOMAIN events'
         /\ \A i \in DOMAIN events : i \in Nat /\ 1 <= i
         /\ \A i \in DOMAIN events' : i \in Nat /\ 1 <= i
  OBVIOUS

(* What remains about one process. *)
LEMMA Remaining ==
  ASSUME events \in Seq(ObservationType), events # <<>>, events' = Tail(events), NEW j, NEW m
  PROVE  /\ \A i : i \in EventsOf(j, m)' <=> i \in DOMAIN events' /\ i + 1 \in EventsOf(j, m)
         /\ \A i \in EventsOf(j, m) : i # 1 => i - 1 \in EventsOf(j, m)'
         /\ \A i : Newest(i, j, m)' => Newest(i + 1, j, m)
         /\ \A i \in EventsOf(j, m)' : i \in DOMAIN events'
<1>1. ASSUME NEW i PROVE i \in EventsOf(j, m)' <=> i \in DOMAIN events'
             /\ i + 1 \in EventsOf(j, m)
  BY Shifted DEF EventsOf
<1>2. ASSUME NEW i \in EventsOf(j, m), i # 1 PROVE i - 1 \in EventsOf(j, m)'
  <2>1. i \in DOMAIN events /\ i \in Nat /\ i - 1 \in DOMAIN events' /\ (i - 1) + 1 = i
    BY <1>2, Shifted DEF EventsOf
  <2>2. QED
    BY <1>1, <2>1
<1>3. ASSUME NEW i, Newest(i, j, m)' PROVE Newest(i + 1, j, m)
  <2>1. i \in EventsOf(j, m)' /\ \A k \in EventsOf(j, m)' : k <= i
    BY <1>3 DEF Newest
  <2>2. i + 1 \in EventsOf(j, m) /\ i \in Nat
    BY <1>1, <2>1, Shifted
  <2>3. ASSUME NEW k \in EventsOf(j, m) PROVE k <= i + 1
    <3>1. k \in Nat
      BY Shifted DEF EventsOf
    <3>2. CASE k = 1
      BY <2>2, <3>2
    <3>3. CASE k # 1
      <4>1. k - 1 <= i
        BY <1>2, <2>1, <3>3
      <4>2. QED
        BY <2>2, <3>1, <4>1
    <3>4. QED
      BY <3>2, <3>3
  <2>4. QED
    BY <2>2, <2>3 DEF Newest
<1>4. \A i \in EventsOf(j, m)' : i \in DOMAIN events'
  BY DEF EventsOf
<1>5. QED
  BY <1>1, <1>2, <1>3, <1>4

(* The observation about to be applied finds its member alive in a record  *)
(* that is still published, so its job accepts it.                         *)
LEMMA HeadAccepted ==
  ASSUME Inv, World, events # <<>>, Head(events).job \in table
  PROVE  LET e == Head(events) IN
         /\ e \in ObservationType /\ EventSound(e) /\ 1 \in EventsOf(e.job, e.member)
         /\ rec[e.job].job.members[e.member] \in {"running", "stopped"}
         /\ Accepts(rec[e.job].job, e.member)
<1> DEFINE e == Head(events)
<1>1. e \in ObservationType /\ e = events[1] /\ 1 \in DOMAIN events
  BY DEF Inv, HostTypeOK
<1>2. e.member \in Members /\ e.job \in table
  BY <1>1 DEF ObservationType
<1> HIDE DEF e
<1>3. EventSound(e) /\ 1 \in EventsOf(e.job, e.member) /\ MemberSound(e.job, e.member)
      /\ ProcessSound(e.job, e.member)
  <2>1. e.job \in JobIds
    BY <1>1 DEF ObservationType
  <2>2. QED
    BY <1>1, <1>2, <2>1 DEF World, ChannelInv, MemberInv, ProcInv, EventsOf
<1>4. GoodRecord(rec[e.job])
  BY <1>2 DEF Inv, TableInv
<1>5. rec[e.job].job.members[e.member] \in {"absent", "running", "stopped", "completed"}
  BY <1>2, <1>4 DEF GoodRecord, RecordType, JobType, MemberState
<1>6. rec[e.job].job.members[e.member] \in {"running", "stopped"}
  BY <1>3, <1>5 DEF MemberSound, EventSound, ProcessSound
<1>7. Observable(rec[e.job].job)
  BY <1>2, <1>4, <1>6 DEF GoodRecord, PublishedJob, AllCompleted, Observable
<1>8. QED
  BY <1>1, <1>3, <1>6, <1>7 DEF Accepts, e

(* What receiving does to the record of the observed job. *)
LEMMA ReceivedRecord ==
  ASSUME Inv, World, Receive
  PROVE  LET e == Head(events) IN
         /\ table' = table
         /\ \A j \in JobIds : j # e.job => rec'[j] = rec[j]
         /\ e.job \notin table => rec' = rec
         /\ e.job \in table =>
              /\ e.kind = "failed" =>
                   /\ rec'[e.job].job = rec[e.job].job /\ rec'[e.job].status = rec[e.job].status
                   /\ rec'[e.job].completion = rec[e.job].completion
                   /\ rec'[e.job].observation_failed = TRUE
              /\ e.kind # "failed" =>
                   /\ rec'[e.job].job.members =
                        [rec[e.job].job.members EXCEPT ![e.member] = Says(e.kind)]
                   /\ rec'[e.job].status =
                        IF e.kind = "completed"
                        THEN [rec[e.job].status EXCEPT ![e.member] = e.status]
                        ELSE rec[e.job].status
                   /\ rec[e.job].completion = "none"
                   /\ rec'[e.job].completion # "none" =>
                        /\ e.kind = "completed"
                        /\ rec'[e.job].completion = Aggregate(rec'[e.job])
                   /\ rec'[e.job].observation_failed = rec[e.job].observation_failed
<1> DEFINE e == Head(events)
<1>1. events # <<>> /\ Apply(e)
  BY DEF Receive
<1>2. e \in ObservationType /\ rec \in [JobIds -> RecordType] /\ table \subseteq JobIds
  BY <1>1 DEF Inv, TableInv, TableTypeOK, HostTypeOK
<1>a. e.job \in table =>
         /\ EventSound(e) /\ Accepts(rec[e.job].job, e.member)
  BY <1>1, HeadAccepted
<1> HIDE DEF e
<1>3. CASE e.job \notin table
  BY <1>1, <1>3 DEF Apply, tableVars, e
<1>4. CASE e.job \in table
  <2>1. PICK j \in table : j = e.job
    BY <1>4
  <2> DEFINE r == rec[j]
             r1 == Observed(r, e)
  <2>2. rec' = [rec EXCEPT ![j] = r1] /\ table' = table
    BY <1>1, <1>4, <2>1 DEF Apply
  <2>3. rec'[j] = r1 /\ \A i \in JobIds : i # j => rec'[i] = rec[i]
    BY <1>2, <2>2
  <2>4. GoodRecord(r) /\ r \in RecordType
    BY DEF Inv, TableInv, GoodRecord
  <2>5. CASE e.kind = "failed"
    <3>1. r1 = OnFailed(r)
      BY <2>5 DEF Observed
    <3>2. r1.job = r.job /\ r1.status = r.status /\ r1.completion = r.completion
          /\ r1.observation_failed = TRUE
      BY <2>4, <3>1 DEF OnFailed, RecordType
    <3>3. QED
      BY <1>4, <2>1, <2>2, <2>3, <2>5, <3>2 DEF e
  <2>6. CASE e.kind # "failed"
    <3>1. /\ r1.job.members = [r.job.members EXCEPT ![e.member] = Says(e.kind)]
          /\ r1.status = IF e.kind = "completed" THEN [r.status EXCEPT ![e.member] = e.status]
                         ELSE r.status
          /\ r.completion = "none"
          /\ r1.completion # "none" => e.kind = "completed" /\ r1.completion = Aggregate(r1)
          /\ r1.observation_failed = r.observation_failed
      BY <1>2, <1>a, <2>1, <2>4, <2>6, AcceptedShape
    <3>2. Aggregate(rec'[j]) = Aggregate(r1)
      BY <2>3 DEF Aggregate
    <3>3. /\ rec'[j].job.members = [rec[j].job.members EXCEPT ![e.member] = Says(e.kind)]
          /\ rec'[j].status = IF e.kind = "completed"
                              THEN [rec[j].status EXCEPT ![e.member] = e.status]
                              ELSE rec[j].status
          /\ rec[j].completion = "none"
          /\ rec'[j].completion # "none" =>
               e.kind = "completed" /\ rec'[j].completion = Aggregate(rec'[j])
          /\ rec'[j].observation_failed = rec[j].observation_failed
      BY <2>3, <3>1, <3>2
    <3> HIDE DEF r, r1
    <3>4. QED
      BY <1>4, <2>1, <2>2, <2>3, <2>6, <3>3 DEF e
  <2>7. QED
    BY <2>5, <2>6
<1>5. QED
  BY <1>3, <1>4

(* Receiving keeps processes, channel and records consistent. *)
LEMMA ReceivesWorld ==
  ASSUME Inv, World, Receives
  PROVE  World'
<1>1. /\ events # <<>> /\ events' = Tail(events) /\ Receive
      /\ nextJob' = nextJob /\ os' = os /\ report' = report /\ code' = code /\ obs' = obs
  BY DEF Receives, Receive, hostVars
<1>2. PICK e \in ObservationType : e = Head(events)
  BY <1>1 DEF Inv, HostTypeOK
<1>t. /\ events \in Seq(ObservationType) /\ table \subseteq JobIds
      /\ e.job \in JobIds /\ e.member \in Members
      /\ e.kind \in {"stopped", "continued", "completed", "failed"}
      /\ rec \in [JobIds -> RecordType]
  BY DEF Inv, TableInv, TableTypeOK, HostTypeOK, ObservationType
<1>s. /\ 1 \in DOMAIN events /\ e = events[1]
      /\ \A i \in DOMAIN events' : i \in Nat /\ i + 1 \in DOMAIN events
         /\ events'[i] = events[i + 1]
      /\ \A i \in DOMAIN events : i # 1 => i - 1 \in DOMAIN events'
      /\ \A i \in DOMAIN events : i \in Nat /\ 1 <= i
      /\ \A i \in DOMAIN events' : i \in Nat /\ 1 <= i
  BY <1>1, <1>2, <1>t, Shifted
<1>r. /\ table' = table
      /\ \A j \in JobIds : j # e.job => rec'[j] = rec[j]
      /\ e.job \notin table => rec' = rec
      /\ e.job \in table =>
           /\ e.kind = "failed" =>
                /\ rec'[e.job].job = rec[e.job].job /\ rec'[e.job].status = rec[e.job].status
                /\ rec'[e.job].completion = rec[e.job].completion
           /\ e.kind # "failed" =>
                /\ rec'[e.job].job.members =
                     [rec[e.job].job.members EXCEPT ![e.member] = Says(e.kind)]
                /\ rec'[e.job].status =
                     IF e.kind = "completed"
                     THEN [rec[e.job].status EXCEPT ![e.member] = e.status]
                     ELSE rec[e.job].status
                /\ rec[e.job].completion = "none"
                /\ rec'[e.job].completion # "none" =>
                     rec'[e.job].completion = Aggregate(rec'[e.job])
  BY <1>1, <1>2, ReceivedRecord
<1>h. e.job \in table =>
        /\ EventSound(e) /\ 1 \in EventsOf(e.job, e.member)
        /\ rec[e.job].job.members[e.member] \in {"running", "stopped"}
  BY <1>1, <1>2, HeadAccepted
<1>3. ProcInv'
  BY <1>1 DEF World, ProcInv, ProcessSound
<1>4. ChannelInv'
  <2>1. ASSUME NEW i \in DOMAIN events' PROVE EventSound(events[i])'
    <3>1. EventSound(events[i + 1]) /\ events'[i] = events[i + 1]
      BY <1>s DEF World, ChannelInv
    <3>2. QED
      BY <1>1, <3>1 DEF EventSound
  <2>2. ASSUME NEW i \in DOMAIN events', NEW k \in DOMAIN events', i < k,
               events'[i].job = events'[k].job, events'[i].member = events'[k].member
        PROVE  events'[i].kind \notin Terminal
    <3>1. i + 1 < k + 1
      BY <1>s, <2>2
    <3>2. QED
      BY <1>s, <2>2, <3>1 DEF World, ChannelInv
  <2>3. QED
    BY <2>1, <2>2 DEF ChannelInv
(* Every other member, and every member of every other job. *)
<1>5. ASSUME NEW j \in table, NEW m \in Members, j # e.job \/ m # e.member
      PROVE  /\ rec'[j].job.members[m] = rec[j].job.members[m]
             /\ rec'[j].status[m] = rec[j].status[m]
             /\ 1 \notin EventsOf(j, m)
  <2>1. 1 \notin EventsOf(j, m)
    BY <1>5, <1>s DEF EventsOf
  <2>2. CASE j # e.job
    BY <1>r, <1>t, <2>1, <2>2
  <2>3. CASE j = e.job
    <3>1. rec[j] \in RecordType
      BY <1>t
    <3>2. m # e.member /\ rec[j].job.members \in [Members -> MemberState]
          /\ rec[j].status \in [Members -> Status \cup {"none"}]
      BY <1>5, <2>3, <3>1 DEF RecordType, JobType
    <3>3. QED
      BY <1>r, <1>t, <2>1, <2>3, <3>2
  <2>4. QED
    BY <2>2, <2>3
<1>6. ASSUME NEW j, NEW m
      PROVE  /\ \A i : i \in EventsOf(j, m)' <=> i \in DOMAIN events' /\ i + 1 \in EventsOf(j, m)
             /\ \A i \in EventsOf(j, m) : i # 1 => i - 1 \in EventsOf(j, m)'
             /\ \A i : Newest(i, j, m)' => Newest(i + 1, j, m)
             /\ \A i \in EventsOf(j, m)' : i \in DOMAIN events'
  BY <1>1, <1>t, Remaining
<1>7. ASSUME NEW j, NEW m, EventsOf(j, m) = {} PROVE EventsOf(j, m)' = {}
  BY <1>6, <1>7
<1>8. ASSUME NEW j, NEW m, 1 \notin EventsOf(j, m), EventsOf(j, m)' = {} PROVE EventsOf(j, m) = {}
  BY <1>6, <1>8
<1>9. ASSUME e.kind \in Terminal PROVE EventsOf(e.job, e.member)' = {}
  <2>1. SUFFICES ASSUME NEW i \in EventsOf(e.job, e.member)' PROVE FALSE
    OBVIOUS
  <2>2. i \in DOMAIN events' /\ i + 1 \in DOMAIN events /\ events[i + 1].job = e.job
        /\ events[i + 1].member = e.member
    BY <1>6, <2>1 DEF EventsOf
  <2>3. 1 < i + 1
    BY <1>s, <2>2
  <2>4. QED
    BY <1>9, <1>s, <2>2, <2>3 DEF World, ChannelInv
<1>10. MemberInv'
  <2>1. ASSUME NEW j \in table, NEW m \in Members, j # e.job \/ m # e.member
        PROVE  MemberSound(j, m)'
    <3>1. MemberSound(j, m)
      BY DEF World, MemberInv
    <3>2. /\ rec'[j].job.members[m] = rec[j].job.members[m]
          /\ rec'[j].status[m] = rec[j].status[m]
          /\ 1 \notin EventsOf(j, m)
      BY <1>5, <2>1
    <3>3. ASSUME NEW i \in EventsOf(j, m), events[i].kind = "completed"
          PROVE  \E x \in EventsOf(j, m)' : events'[x].kind = "completed"
      <4>1. i # 1
        BY <3>2
      <4>2. i - 1 \in EventsOf(j, m)' /\ i - 1 \in DOMAIN events' /\ i \in Nat
        BY <1>6, <1>s, <4>1 DEF EventsOf
      <4>3. events'[i - 1] = events[(i - 1) + 1] /\ (i - 1) + 1 = i
        BY <1>s, <4>2
      <4>4. QED
        BY <3>3, <4>2, <4>3
    <3>4. QED
      BY <1>1, <1>7, <3>1, <3>2, <3>3 DEF MemberSound
  <2>2. ASSUME e.job \in table PROVE MemberSound(e.job, e.member)'
    <3>1. MemberSound(e.job, e.member) /\ EventSound(e)
          /\ rec[e.job].job.members[e.member] \in {"running", "stopped"}
      BY <1>h, <1>t, <2>2 DEF World, MemberInv
    <3>2. os[e.job][e.member] # "none"
      BY <3>1 DEF MemberSound
    <3>m. rec[e.job].job.members \in [Members -> MemberState]
          /\ rec[e.job].status \in [Members -> Status \cup {"none"}]
      BY <1>t DEF RecordType, JobType
    <3>3. CASE e.kind = "failed"
      <4>1. rec'[e.job].job = rec[e.job].job /\ os[e.job][e.member] = "zombie"
        BY <1>r, <2>2, <3>1, <3>3 DEF EventSound
      <4>2. QED
        BY <1>1, <3>1, <3>2, <4>1 DEF MemberSound
    <3>4. CASE e.kind = "completed"
      <4>1. /\ rec'[e.job].job.members[e.member] = "completed"
            /\ rec'[e.job].status[e.member] = e.status
        BY <1>r, <1>t, <2>2, <3>4, <3>m DEF Says
      <4>2. os[e.job][e.member] = "gone" /\ e.status = code[e.job][e.member]
        BY <3>1, <3>4 DEF EventSound
      <4>3. EventsOf(e.job, e.member)' = {}
        BY <1>9, <3>4 DEF Terminal
      <4>4. QED
        BY <1>1, <4>1, <4>2, <4>3 DEF MemberSound
    <3>5. CASE e.kind \in {"stopped", "continued"}
      <4>1. rec'[e.job].job.members[e.member] \in {"stopped", "running"}
        BY <1>r, <1>t, <2>2, <3>5, <3>m DEF Says
      <4>2. ASSUME os[e.job][e.member] = "gone"
            PROVE  \E x \in EventsOf(e.job, e.member)' : events'[x].kind = "completed"
        <5>1. PICK i \in EventsOf(e.job, e.member) : events[i].kind = "completed"
          BY <3>1, <4>2 DEF MemberSound
        <5>2. i # 1
          BY <1>s, <3>5, <5>1
        <5>3. i - 1 \in EventsOf(e.job, e.member)' /\ i - 1 \in DOMAIN events' /\ i \in Nat
          BY <1>6, <1>s, <5>2 DEF EventsOf
        <5>4. events'[i - 1] = events[(i - 1) + 1] /\ (i - 1) + 1 = i
          BY <1>s, <5>3
        <5>5. QED
          BY <5>1, <5>3, <5>4
      <4>3. QED
        BY <1>1, <3>2, <4>1, <4>2 DEF MemberSound
    <3>6. QED
      BY <1>t, <3>3, <3>4, <3>5
  <2>3. QED
    BY <1>r, <2>1, <2>2 DEF MemberInv
<1>11. ConvInv'
  <2>1. ASSUME NEW j \in table, NEW m \in Members, Alive(os[j][m]), report[j][m] = "none",
               NEW i \in DOMAIN events', Newest(i, j, m)'
        PROVE  Agrees(events'[i].kind, os[j][m])
    <3>1. Newest(i + 1, j, m) /\ i + 1 \in DOMAIN events /\ events'[i] = events[i + 1]
      BY <1>6, <1>s, <2>1
    <3>2. QED
      BY <2>1, <3>1 DEF World, ConvInv, Converging
  <2>2. ASSUME NEW j \in table, NEW m \in Members, Alive(os[j][m]), report[j][m] = "none",
               EventsOf(j, m)' = {}
        PROVE  Agrees(rec'[j].job.members[m], os[j][m])
    <3>1. CASE j # e.job \/ m # e.member
      <4>1. EventsOf(j, m) = {} /\ rec'[j].job.members[m] = rec[j].job.members[m]
        BY <1>5, <1>8, <2>2, <3>1
      <4>2. QED
        BY <2>2, <4>1 DEF World, ConvInv, Converging
    <3>2. CASE j = e.job /\ m = e.member
      <4>1. Newest(1, j, m)
        <5>1. 1 \in EventsOf(j, m)
          BY <1>h, <3>2
        <5>2. \A k \in EventsOf(j, m) : k = 1
          BY <1>6, <2>2
        <5>3. QED
          BY <5>1, <5>2 DEF Newest
      <4>2. Agrees(e.kind, os[j][m])
        BY <1>s, <2>2, <4>1 DEF World, ConvInv, Converging
      <4>3. e.kind \in {"stopped", "continued"}
        BY <1>t, <2>2, <4>2 DEF Agrees, Alive
      <4>m. rec[e.job].job.members \in [Members -> MemberState]
        BY <1>t DEF RecordType, JobType
      <4>4. rec'[j].job.members[m] = Says(e.kind)
        BY <1>r, <1>t, <3>2, <4>3, <4>m
      <4>5. QED
        BY <4>2, <4>3, <4>4 DEF Says, Agrees
    <3>3. QED
      BY <3>1, <3>2
  <2>3. QED
    BY <1>1, <1>r, <2>1, <2>2 DEF ConvInv, Converging
<1>12. OutcomeInv'
  <2>1. ASSUME NEW j \in table, rec'[j].completion # "none"
        PROVE  rec'[j].completion = Aggregate(rec'[j])
    <3>1. CASE j # e.job
      <4>1. rec'[j] = rec[j]
        BY <1>r, <1>t, <3>1
      <4>2. QED
        BY <2>1, <4>1 DEF World, OutcomeInv, Aggregate
    <3>2. CASE j = e.job /\ e.kind = "failed"
      <4>1. rec'[j].job = rec[j].job /\ rec'[j].status = rec[j].status
            /\ rec'[j].completion = rec[j].completion
        BY <1>r, <3>2
      <4>2. QED
        BY <2>1, <4>1 DEF World, OutcomeInv, Aggregate
    <3>3. CASE j = e.job /\ e.kind # "failed"
      BY <1>r, <2>1, <3>3
    <3>4. QED
      BY <3>1, <3>2, <3>3
  <2>2. ASSUME NEW j \in JobIds, j >= nextJob PROVE rec'[j].completion = "none"
    <3>1. j \notin table
      BY <2>2 DEF Inv, TableInv, TableTypeOK, JobIds
    <3>2. rec'[j] = rec[j]
      BY <1>r, <3>1
    <3>3. QED
      BY <2>2, <3>2 DEF World, OutcomeInv
  <2>3. QED
    BY <1>1, <1>r, <2>1, <2>2 DEF OutcomeInv
<1>13. QED
  BY <1>3, <1>4, <1>10, <1>11, <1>12 DEF World

-----------------------------------------------------------------------------
(* The steps that move processes.                                          *)

(* Every process moves.                                                    *)
AllMove == \A j \in JobIds, m \in Members : Moves(j, m)

(* Every delivered group signal moves processes the way the host does. *)
LEMMA DeliveredMoves ==
  ASSUME HostTypeOK, NEW j \in JobIds, NEW s, Delivered(j, s)
  PROVE  AllMove /\ (s = "continue" => \A m \in Members : os'[j][m] # "stopped")
<1>t. /\ os \in [JobIds -> [Members -> {"none", "running", "stopped", "zombie", "gone"}]]
      /\ report \in [JobIds -> [Members -> {"none", "stopped", "continued"}]]
      /\ code \in [JobIds -> [Members -> Status \cup {"none"}]]
  BY DEF HostTypeOK
<1>1. CASE s = "continue"
  <2>1. /\ os' = [os EXCEPT ![j] = [m \in Members |->
                    IF os[j][m] = "stopped" THEN "running" ELSE os[j][m]]]
        /\ report' = [report EXCEPT ![j] = [m \in Members |->
                    IF os[j][m] = "stopped" THEN "continued" ELSE report[j][m]]]
        /\ code' = code
    BY <1>1 DEF Delivered
  <2>2. /\ \A m \in Members : os'[j][m] = IF os[j][m] = "stopped" THEN "running" ELSE os[j][m]
        /\ \A i \in JobIds : i # j => os'[i] = os[i]
    BY <1>t, <2>1
  <2>3. /\ \A m \in Members : report'[j][m] = IF os[j][m] = "stopped" THEN "continued" ELSE report[j][m]
        /\ \A i \in JobIds : i # j => report'[i] = report[i]
    BY <1>t, <2>1
  <2>4. QED
    BY <1>1, <2>1, <2>2, <2>3 DEF AllMove, Moves, Kept
<1>2. CASE s = "stop"
  <2>1. /\ os' = [os EXCEPT ![j] = [m \in Members |->
                    IF os[j][m] = "running" THEN "stopped" ELSE os[j][m]]]
        /\ report' = [report EXCEPT ![j] = [m \in Members |->
                    IF os[j][m] = "running" THEN "stopped" ELSE report[j][m]]]
        /\ code' = code
    BY <1>2 DEF Delivered
  <2>2. /\ \A m \in Members : os'[j][m] = IF os[j][m] = "running" THEN "stopped" ELSE os[j][m]
        /\ \A i \in JobIds : i # j => os'[i] = os[i]
    BY <1>t, <2>1
  <2>3. /\ \A m \in Members : report'[j][m] = IF os[j][m] = "running" THEN "stopped" ELSE report[j][m]
        /\ \A i \in JobIds : i # j => report'[i] = report[i]
    BY <1>t, <2>1
  <2>4. QED
    BY <1>2, <2>1, <2>2, <2>3 DEF AllMove, Moves, Kept
<1>3. CASE s = "kill"
  <2>1. /\ os' = [os EXCEPT ![j] = [m \in Members |->
                    IF Alive(os[j][m]) THEN "zombie" ELSE os[j][m]]]
        /\ report' = [report EXCEPT ![j] = [m \in Members |->
                    IF Alive(os[j][m]) THEN "none" ELSE report[j][m]]]
        /\ code' = [code EXCEPT ![j] = [m \in Members |->
                    IF Alive(os[j][m]) THEN "err" ELSE code[j][m]]]
    BY <1>3 DEF Delivered
  <2>2. /\ \A m \in Members : os'[j][m] = IF Alive(os[j][m]) THEN "zombie" ELSE os[j][m]
        /\ \A i \in JobIds : i # j => os'[i] = os[i]
    BY <1>t, <2>1
  <2>3. /\ \A m \in Members : report'[j][m] = IF Alive(os[j][m]) THEN "none" ELSE report[j][m]
        /\ \A i \in JobIds : i # j => report'[i] = report[i]
    BY <1>t, <2>1
  <2>4. /\ \A m \in Members : code'[j][m] = IF Alive(os[j][m]) THEN "err" ELSE code[j][m]
        /\ \A i \in JobIds : i # j => code'[i] = code[i]
    BY <1>t, <2>1
  <2>5. QED
    BY <1>3, <2>2, <2>3, <2>4 DEF AllMove, Moves, Kept, Status
<1>4. CASE s \notin {"continue", "stop", "kill"}
  <2>1. UNCHANGED hostVars
    BY <1>4 DEF Delivered
  <2>2. QED
    BY <1>4, <2>1 DEF hostVars, AllMove, Moves, Kept
<1>5. QED
  BY <1>1, <1>2, <1>3, <1>4

(* One process moves by itself. *)
LEMMA HostMoves ==
  ASSUME HostTypeOK, Host
  PROVE  AllMove /\ UNCHANGED <<tableVars, nextJob, events, obs>>
<1>t. /\ os \in [JobIds -> [Members -> {"none", "running", "stopped", "zombie", "gone"}]]
      /\ report \in [JobIds -> [Members -> {"none", "stopped", "continued"}]]
      /\ code \in [JobIds -> [Members -> Status \cup {"none"}]]
  BY DEF HostTypeOK
<1>0. PICK j \in JobIds, m \in Members :
        HostStop(j, m) \/ HostContinue(j, m) \/ \E s \in Status : HostExit(j, m, s)
  BY DEF Host
<1>1. ASSUME NEW v \in {"running", "stopped", "zombie"}, os' = [os EXCEPT ![j][m] = v]
      PROVE  os'[j][m] = v /\ \A i \in JobIds, k \in Members : (i # j \/ k # m)
             => os'[i][k] = os[i][k]
  BY <1>t, <1>1
<1>2. ASSUME NEW v \in {"none", "stopped", "continued"}, report' = [report EXCEPT ![j][m] = v]
      PROVE  /\ report'[j][m] = v
             /\ \A i \in JobIds, k \in Members : (i # j \/ k # m) => report'[i][k] = report[i][k]
  BY <1>t, <1>2
<1>3. ASSUME NEW v \in Status, code' = [code EXCEPT ![j][m] = v]
      PROVE  code'[j][m] = v /\ \A i \in JobIds, k \in Members : (i # j \/ k # m)
             => code'[i][k] = code[i][k]
  BY <1>t, <1>3
<1>4. CASE HostStop(j, m)
  <2>1. os[j][m] = "running" /\ os' = [os EXCEPT ![j][m] = "stopped"]
        /\ report' = [report EXCEPT ![j][m] = "stopped"] /\ code' = code
        /\ UNCHANGED <<tableVars, nextJob, events, obs>>
    BY <1>4 DEF HostStop
  <2>2. QED
    BY <1>1, <1>2, <2>1 DEF AllMove, Moves, Kept
<1>5. CASE HostContinue(j, m)
  <2>1. os[j][m] = "stopped" /\ os' = [os EXCEPT ![j][m] = "running"]
        /\ report' = [report EXCEPT ![j][m] = "continued"] /\ code' = code
        /\ UNCHANGED <<tableVars, nextJob, events, obs>>
    BY <1>5 DEF HostContinue
  <2>2. QED
    BY <1>1, <1>2, <2>1 DEF AllMove, Moves, Kept
<1>6. CASE \E s \in Status : HostExit(j, m, s)
  <2>0. PICK s \in Status : HostExit(j, m, s)
    BY <1>6
  <2>1. Alive(os[j][m]) /\ os' = [os EXCEPT ![j][m] = "zombie"]
        /\ report' = [report EXCEPT ![j][m] = "none"] /\ code' = [code EXCEPT ![j][m] = s]
        /\ UNCHANGED <<tableVars, nextJob, events, obs>>
    BY <2>0 DEF HostExit, Alive
  <2>2. /\ os'[j][m] = "zombie" /\ report'[j][m] = "none" /\ code'[j][m] = s
        /\ \A i \in JobIds, k \in Members : (i # j \/ k # m) => Kept(i, k)
    <3>1. os'[j][m] = "zombie" /\ \A i \in JobIds, k \in Members : (i # j \/ k # m)
          => os'[i][k] = os[i][k]
      BY <1>1, <2>1
    <3>2. report'[j][m] = "none"
          /\ \A i \in JobIds, k \in Members : (i # j \/ k # m) => report'[i][k] = report[i][k]
      BY <1>2, <2>1
    <3>3. code'[j][m] = s /\ \A i \in JobIds, k \in Members : (i # j \/ k # m)
          => code'[i][k] = code[i][k]
      BY <1>3, <2>1
    <3>4. QED
      BY <3>1, <3>2, <3>3 DEF Kept
  <2>3. QED
    BY <2>1, <2>2 DEF AllMove, Moves
<1>7. QED
  BY <1>0, <1>4, <1>5, <1>6

(* A step that leaves the records alone, or changes nothing of them that   *)
(* matters to their members and outcome.                                   *)
LEMMA SteadyRuns ==
  ASSUME AllMove, UNCHANGED <<table, nextJob, events, obs>>, table \subseteq JobIds,
         NEW j \in JobIds, \A i \in JobIds : i # j => rec'[i] = rec[i],
         OutcomeKept(j), \A m \in Members : MemberKept(j, m)
  PROVE  Runs
<1>1. \A i \in JobIds : OutcomeKept(i)
  BY DEF OutcomeKept
<1>2. \A i \in table, m \in Members : MemberKept(i, m)
  BY DEF MemberKept
<1>3. QED
  BY <1>1, <1>2 DEF Runs, AllMove

(* A step of the session that leaves the processes alone.                  *)
LEMMA StillRuns ==
  ASSUME AllMove, UNCHANGED <<table, rec, nextJob, events, obs>>
  PROVE  Runs
  BY DEF Runs, AllMove, OutcomeKept, MemberKept

(* Unchanged processes move in the sense of AllMove.                       *)
LEMMA NobodyMoves ==
  ASSUME UNCHANGED hostVars
  PROVE  AllMove
  BY DEF hostVars, AllMove, Moves, Kept

(* A continuation the group received. *)
LEMMA ContinuedKept ==
  ASSUME TableInv, NEW j \in table, NEW p, Continued(j, p),
         \A m \in Members : os'[j][m] # "stopped"
  PROVE  /\ \A i \in JobIds : i # j => rec'[i] = rec[i]
         /\ OutcomeKept(j) /\ \A m \in Members : MemberKept(j, m)
         /\ rec'[j].observation_failed = rec[j].observation_failed
         /\ table' = table
<1>1. rec \in [JobIds -> RecordType] /\ j \in JobIds /\ rec[j] \in RecordType
  BY DEF TableInv, TableTypeOK
<1> DEFINE q == ContinueIn(rec[j].job, p)
<1>2. q.members = [m \in Members |-> IF rec[j].job.members[m] = "stopped" THEN "running"
                                     ELSE rec[j].job.members[m]]
  <2>1. rec[j].job \in JobType
    BY <1>1 DEF RecordType
  <2>2. QED
    BY <2>1 DEF ContinueIn, JobType
<1>3. rec' = [rec EXCEPT ![j] = [rec[j] EXCEPT !.job = q, !.resume_requested = FALSE]]
      /\ table' = table
  BY <1>1 DEF Continued
<1> HIDE DEF q
<1>4. rec'[j] = [rec[j] EXCEPT !.job = q, !.resume_requested = FALSE]
      /\ \A i \in JobIds : i # j => rec'[i] = rec[i]
  BY <1>1, <1>3
<1>5. rec'[j].job = q /\ rec'[j].status = rec[j].status /\ rec'[j].completion = rec[j].completion
      /\ rec'[j].observation_failed = rec[j].observation_failed
  BY <1>1, <1>4 DEF RecordType
<1>6. QED
  BY <1>2, <1>3, <1>4, <1>5 DEF OutcomeKept, MemberKept

(* signal_job moves processes and tells at most its own record. *)
LEMMA SignalJobRuns ==
  ASSUME Inv, NEW j, NEW s, SignalJob(j, s), UNCHANGED <<nextJob, events, obs>>
  PROVE  /\ Runs
         /\ \A i \in JobIds : rec'[i].observation_failed = rec[i].observation_failed
<1>1. j \in table /\ Delivered(j, HostSignal(j, s)) /\ HostTypeOK /\ TableInv
      /\ table \subseteq JobIds
  BY DEF SignalJob, SignalError, Inv, TableInv, TableTypeOK
<1>2. j \in JobIds
  BY <1>1
<1>3. AllMove /\ (HostSignal(j, s) = "continue" => \A m \in Members : os'[j][m] # "stopped")
  BY <1>1, <1>2, DeliveredMoves
<1>4. CASE s = "continue" /\ ~rec[j].observation_failed
  <2>1. Continued(j, "background") /\ HostSignal(j, s) = "continue"
    BY <1>4 DEF SignalJob, HostSignal
  <2>2. /\ \A i \in JobIds : i # j => rec'[i] = rec[i]
        /\ OutcomeKept(j) /\ \A m \in Members : MemberKept(j, m)
        /\ rec'[j].observation_failed = rec[j].observation_failed
        /\ table' = table
    BY <1>1, <1>3, <2>1, ContinuedKept
  <2>3. Runs
    BY <1>1, <1>2, <1>3, <2>2, SteadyRuns
  <2>4. QED
    BY <2>2, <2>3
<1>5. CASE ~(s = "continue" /\ ~rec[j].observation_failed)
  <2>1. UNCHANGED tableVars
    BY <1>5 DEF SignalJob
  <2>2. table' = table /\ rec' = rec
    BY <2>1 DEF tableVars
  <2>3. QED
    BY <1>3, <2>2, StillRuns
<1>6. QED
  BY <1>4, <1>5

-----------------------------------------------------------------------------
(* The steps of the session.                                               *)

(* Whether a record has failed or completed is as before. *)
Steady ==
  /\ table' \subseteq table
  /\ \A j \in JobIds : /\ rec'[j].completion = rec[j].completion
                       /\ rec'[j].observation_failed = rec[j].observation_failed

(* A step that touches neither table nor processes. *)
LEMMA QuietRuns ==
  ASSUME UNCHANGED <<table, rec, nextJob, events, hostVars, obs>>
  PROVE  Runs /\ Steady
  BY NobodyMoves, StillRuns DEF Steady

(* The front notice is acknowledged. *)
LEMMA AcknowledgedKind ==
  ASSUME Inv, NEW n \in notices, ~Refused(n), Acknowledged(n),
         UNCHANGED <<nextJob, events, hostVars, obs>>
  PROVE  /\ Steady
         /\ \/ Runs /\ table' = table /\ n.kind # "completed"
            \/ Removes /\ n.kind = "completed" /\ table' = table \ {n.job}
<1>1. /\ rec \in [JobIds -> RecordType] /\ table \subseteq JobIds
      /\ n.kind \in {"started", "stopped", "completed", "failed"} /\ n.job \in JobIds
      /\ rec[n.job] \in RecordType /\ rec[n.job].job \in JobType
  BY DEF Inv, TableInv, TableTypeOK, NoticeType, RecordType
<1>m. AllMove
  BY NobodyMoves
<1>2. CASE n.kind \in {"started", "failed"}
  <2>1. UNCHANGED <<table, rec>>
    BY <1>2 DEF Acknowledged
  <2>2. QED
    BY <1>2, <2>1, QuietRuns
<1>3. CASE n.kind = "stopped"
  <2> DEFINE q == AcknowledgeStopped(rec[n.job].job)
  <2>1. rec' = [rec EXCEPT ![n.job].job = q] /\ table' = table
    BY <1>3 DEF Acknowledged
  <2>2. q.members = rec[n.job].job.members
    BY <1>1 DEF AcknowledgeStopped, JobType
  <2> HIDE DEF q
  <2>3. rec'[n.job].job = q /\ rec'[n.job].status = rec[n.job].status
        /\ rec'[n.job].completion = rec[n.job].completion
        /\ rec'[n.job].observation_failed = rec[n.job].observation_failed
        /\ \A i \in JobIds : i # n.job => rec'[i] = rec[i]
    BY <1>1, <2>1 DEF RecordType
  <2>4. OutcomeKept(n.job) /\ \A m \in Members : MemberKept(n.job, m)
    BY <2>2, <2>3 DEF OutcomeKept, MemberKept
  <2>5. Runs
    BY <1>1, <1>m, <2>1, <2>3, <2>4, SteadyRuns
  <2>6. Steady
    BY <1>1, <2>1, <2>3 DEF Steady
  <2>7. QED
    BY <1>3, <2>1, <2>5, <2>6
<1>4. CASE n.kind = "completed"
  <2> DEFINE q == Reap(rec[n.job].job)
  <2> HIDE DEF q
  <2>1. rec' = [rec EXCEPT ![n.job].job = q] /\ table' = table \ {n.job}
    BY <1>4 DEF Acknowledged, q
  <2>2. rec'[n.job].completion = rec[n.job].completion
        /\ rec'[n.job].observation_failed = rec[n.job].observation_failed
        /\ \A i \in JobIds : i # n.job => rec'[i] = rec[i]
    BY <1>1, <2>1 DEF RecordType
  <2>3. n.job \in table /\ rec[n.job].job.state = "completed"
    BY <1>4 DEF Refused, CanReap
  <2>4. rec[n.job].completion # "none"
    BY <2>3 DEF Inv, TableInv, GoodRecord
  <2>5. Removes
    BY <1>1, <2>1, <2>2, <2>4 DEF Removes, hostVars
  <2>6. Steady
    BY <1>1, <2>1, <2>2 DEF Steady
  <2>7. QED
    BY <1>4, <2>1, <2>5, <2>6
<1>5. QED
  BY <1>1, <1>2, <1>3, <1>4

(* Completions are consumed without a notice. *)
LEMMA ConsumeRemoves ==
  ASSUME Inv, NEW js, Consume(js), \A j \in js : rec[j].completion # "none",
         UNCHANGED <<nextJob, events, hostVars, obs>>
  PROVE  Removes /\ Steady
<1>1. rec \in [JobIds -> RecordType] /\ table \subseteq JobIds
  BY DEF Inv, TableInv, TableTypeOK
<1>2. /\ table' = table \ js
      /\ rec' = [j \in JobIds |-> IF j \in js THEN [rec[j] EXCEPT !.job = Reap(@)] ELSE rec[j]]
  BY DEF Consume
<1>3. ASSUME NEW j \in JobIds
      PROVE  /\ rec'[j].completion = rec[j].completion
             /\ rec'[j].observation_failed = rec[j].observation_failed
  <2>1. rec[j] \in RecordType
    BY <1>1
  <2>2. /\ [rec[j] EXCEPT !.job = Reap(@)].completion = rec[j].completion
        /\ [rec[j] EXCEPT !.job = Reap(@)].observation_failed = rec[j].observation_failed
    BY <2>1 DEF RecordType
  <2>3. QED
    BY <1>2, <2>2
<1>4. \A j \in table' : j \in table /\ rec'[j] = rec[j]
  BY <1>1, <1>2
<1>5. QED
  BY <1>2, <1>3, <1>4 DEF Removes, Steady, hostVars

(* fg *)
LEMMA ForegroundEnterRuns ==
  ASSUME Inv, ForegroundEnter
  PROVE  Runs /\ Steady /\ call.job \in table
<1>0. PICK j \in table : j = call.job /\ Foregroundable(j)
  BY DEF ForegroundEnter, Foregroundable
<1>1. /\ TableInv /\ HostTypeOK /\ rec \in [JobIds -> RecordType] /\ table \subseteq JobIds
      /\ j \in JobIds /\ UNCHANGED <<nextJob, events, obs>>
      /\ rec[j] \in RecordType
  BY DEF Inv, TableInv, TableTypeOK, ForegroundEnter
<1>2. CASE Stopped(rec[j])
  <2>1. Delivered(j, "continue") /\ Continued(j, "foreground")
    BY <1>0, <1>2 DEF ForegroundEnter
  <2>2. AllMove /\ \A m \in Members : os'[j][m] # "stopped"
    BY <1>1, <2>1, DeliveredMoves
  <2>3. /\ \A i \in JobIds : i # j => rec'[i] = rec[i]
        /\ OutcomeKept(j) /\ \A m \in Members : MemberKept(j, m)
        /\ rec'[j].observation_failed = rec[j].observation_failed
        /\ table' = table
    BY <1>1, <2>1, <2>2, ContinuedKept
  <2>4. Runs
    BY <1>1, <2>2, <2>3, SteadyRuns
  <2>5. Steady
    BY <1>1, <2>3 DEF Steady, OutcomeKept
  <2>6. QED
    BY <1>0, <2>4, <2>5
<1>3. CASE ~Stopped(rec[j])
  <2> DEFINE q == MoveTo(rec[j].job, "foreground")
  <2>1. rec' = [rec EXCEPT ![j].job = q] /\ UNCHANGED <<table, hostVars>>
    BY <1>0, <1>3 DEF ForegroundEnter
  <2>2. q.members = rec[j].job.members
    BY <1>1 DEF MoveTo, RecordType, JobType
  <2> HIDE DEF q
  <2>3. rec'[j].job = q /\ rec'[j].status = rec[j].status
        /\ rec'[j].completion = rec[j].completion
        /\ rec'[j].observation_failed = rec[j].observation_failed
        /\ \A i \in JobIds : i # j => rec'[i] = rec[i]
    BY <1>1, <2>1 DEF RecordType
  <2>4. OutcomeKept(j) /\ \A m \in Members : MemberKept(j, m)
    BY <2>2, <2>3 DEF OutcomeKept, MemberKept
  <2>5. Runs
    BY <1>1, <2>1, <2>3, <2>4, NobodyMoves, SteadyRuns
  <2>6. Steady
    BY <1>1, <2>1, <2>3 DEF Steady
  <2>7. QED
    BY <1>0, <2>5, <2>6
<1>4. QED
  BY <1>2, <1>3

(* The signals of the session's end. *)
LEMMA SignalOrQuarantineRuns ==
  ASSUME Inv, NEW j \in table, NEW s, NEW r \in RecordType, SignalOrQuarantine(j, s, r),
         r.job = rec[j].job, r.status = rec[j].status, r.completion = rec[j].completion,
         r.observation_failed = rec[j].observation_failed,
         UNCHANGED <<nextJob, events, obs>>
  PROVE  /\ Runs /\ UNCHANGED <<table, notices>>
         /\ \A i \in JobIds : i # j => rec'[i] = rec[i]
         /\ rec'[j].completion = rec[j].completion
         /\ rec'[j].observation_failed = (~GroupExists(j) \/ rec[j].observation_failed)
<1>1. /\ HostTypeOK /\ rec \in [JobIds -> RecordType] /\ table \subseteq JobIds /\ j \in JobIds
      /\ rec[j].observation_failed \in BOOLEAN
  BY DEF Inv, TableInv, TableTypeOK, RecordType
<1>2. CASE GroupExists(j)
  <2>1. Delivered(j, s) /\ rec' = [rec EXCEPT ![j] = r] /\ UNCHANGED <<table, notices>>
    BY <1>2 DEF SignalOrQuarantine
  <2>2. AllMove
    BY <1>1, <2>1, DeliveredMoves
  <2>3. rec'[j] = r /\ \A i \in JobIds : i # j => rec'[i] = rec[i]
    BY <1>1, <2>1
  <2>4. OutcomeKept(j) /\ \A m \in Members : MemberKept(j, m)
    BY <2>3 DEF OutcomeKept, MemberKept
  <2>5. Runs
    BY <1>1, <2>1, <2>2, <2>3, <2>4, SteadyRuns
  <2>6. rec'[j].observation_failed = (~GroupExists(j) \/ rec[j].observation_failed)
    BY <1>1, <1>2, <2>3
  <2>7. QED
    BY <2>1, <2>3, <2>5, <2>6
<1>3. CASE ~GroupExists(j)
  <2> DEFINE q == [r EXCEPT !.observation_failed = TRUE]
  <2>1. UNCHANGED hostVars /\ rec' = [rec EXCEPT ![j] = q] /\ UNCHANGED <<table, notices>>
    BY <1>3 DEF SignalOrQuarantine
  <2>2. q.job = r.job /\ q.status = r.status /\ q.completion = r.completion
        /\ q.observation_failed = TRUE
    BY DEF RecordType
  <2> HIDE DEF q
  <2>3. rec'[j] = q /\ \A i \in JobIds : i # j => rec'[i] = rec[i]
    BY <1>1, <2>1
  <2>4. OutcomeKept(j) /\ \A m \in Members : MemberKept(j, m)
    BY <2>2, <2>3 DEF OutcomeKept, MemberKept
  <2>5. Runs
    BY <1>1, <2>1, <2>3, <2>4, NobodyMoves, SteadyRuns
  <2>6. rec'[j].observation_failed = (~GroupExists(j) \/ rec[j].observation_failed)
    BY <1>1, <1>3, <2>2, <2>3
  <2>7. QED
    BY <2>1, <2>2, <2>3, <2>5, <2>6
<1>4. QED
  BY <1>2, <1>3

(* The first signal of an ending session: resume_stopped, hang_up_all. *)
Quarantines(j) ==
  /\ j \in table /\ Live(rec[j]) /\ Runs /\ UNCHANGED <<table, notices>>
  /\ \A i \in JobIds : i # j => rec'[i] = rec[i]
  /\ rec'[j].completion = rec[j].completion
  /\ rec'[j].observation_failed = (~GroupExists(j) \/ rec[j].observation_failed)

(* resume_stopped signals one job or quarantines it: processes move, and   *)
(* at most the flags of that record change.                                *)
LEMMA ResumeOneKind ==
  ASSUME Inv, ResumeOne
  PROVE  \E j \in JobIds : Quarantines(j)
         /\ call' = [call EXCEPT !.failures = FailuresAfterSignal(j)]
<1>1. PICK j \in Unanswered :
        /\ SignalOrQuarantine(j, "continue", [rec[j] EXCEPT !.resume_requested = TRUE])
        /\ call' = [call EXCEPT !.failures = FailuresAfterSignal(j)]
        /\ UNCHANGED <<nextJob, events, obs>>
  BY DEF ResumeOne
<1>2. j \in table /\ Live(rec[j]) /\ j \in JobIds /\ rec[j] \in RecordType
  BY DEF Unanswered, Inv, TableInv, TableTypeOK
<1> DEFINE r == [rec[j] EXCEPT !.resume_requested = TRUE]
<1>3. /\ r \in RecordType /\ r.job = rec[j].job /\ r.status = rec[j].status
      /\ r.completion = rec[j].completion /\ r.observation_failed = rec[j].observation_failed
  BY <1>2 DEF RecordType
<1>4. SignalOrQuarantine(j, "continue", r)
  BY <1>1
<1> HIDE DEF r
<1>5. Quarantines(j)
  BY <1>1, <1>2, <1>3, <1>4, SignalOrQuarantineRuns DEF Quarantines
<1>6. QED
  BY <1>1, <1>2, <1>5

(* hang_up_all signals one job or quarantines it, in the same way.         *)
LEMMA HangUpOneKind ==
  ASSUME Inv, HangUpOne
  PROVE  \E j \in JobIds : /\ Quarantines(j)
                           /\ call' = [call EXCEPT !.failures = FailuresAfterSignal(j),
                              !.idx = j + 1]
<1>1. PICK j \in ToHangUp :
        /\ SignalOrQuarantine(j, "hangup", rec[j])
        /\ call' = [call EXCEPT !.failures = FailuresAfterSignal(j), !.idx = j + 1]
        /\ UNCHANGED <<nextJob, events, obs>>
  BY DEF HangUpOne
<1>2. j \in table /\ Live(rec[j]) /\ j \in JobIds /\ rec[j] \in RecordType
  BY DEF ToHangUp, LiveJobs, Inv, TableInv, TableTypeOK
<1>5. Quarantines(j)
  BY <1>1, <1>2, SignalOrQuarantineRuns DEF Quarantines
<1>6. QED
  BY <1>1, <1>2, <1>5

-----------------------------------------------------------------------------
(* Every step is of one kind.                                              *)

(* One observer thread takes a turn.                                       *)
Watches == \E j \in JobIds, m \in Members, e \in ObservationType : Observes(j, m, e)

(* A pipeline is spawned, in the foreground or the background.             *)
Spawns == \E ms \in Pipelines, p \in Placement : Spawn(ms, p)

(* Every step is of one of these kinds. *)
Kind == \/ Runs /\ Steady
        \/ Removes /\ Steady
        \/ \E j \in JobIds : Quarantines(j)
        \/ Watches
        \/ Spawns
        \/ StartFails
        \/ Receives

(* Every step of the system is of one of the kinds.                        *)
LEMMA StepKind ==
  ASSUME Inv, World, [Next]_vars
  PROVE  Kind
<1>0. ASSUME UNCHANGED <<table, rec, nextJob, events, hostVars, obs>> PROVE Kind
  BY <1>0, QuietRuns DEF Kind
<1>1. CASE UNCHANGED vars \/ Ended
  BY <1>0, <1>1 DEF vars, Ended, hostVars
<1>2. CASE Host
  <2>1. AllMove /\ UNCHANGED <<tableVars, nextJob, events, obs>>
    BY <1>2, HostMoves DEF Inv
  <2>2. Runs /\ Steady
    BY <2>1, StillRuns DEF tableVars, Steady
  <2>3. QED
    BY <2>2 DEF Kind
<1>3. CASE Observer
  BY <1>3, ObserverObserves DEF Kind, Watches
<1>4. CASE Command
  <2>1. CASE \E ms \in Pipelines : Start(ms) \/ StartForeground(ms)
    <3>1. Spawns
      BY <2>1 DEF Start, StartForeground, Spawns, Placement
    <3>2. QED
      BY <3>1 DEF Kind
  <2>2. CASE StartFails
    BY <2>2 DEF Kind
  <2>3. CASE NextNotice
    BY <2>3 DEF NextNotice, Receives, Kind
  <2>4. CASE \E n \in notices : Acknowledge(n)
    BY <2>4, AcknowledgedKind DEF Acknowledge, Kind
  <2>5. CASE \/ CallJobs
             \/ \E j \in JobIds : CallForeground(j)
             \/ \E next \in {"bg", "kill"}, j \in JobIds,
                s \in JobSignals : CallSignal(next, j, s)
             \/ \E targets \in TargetLists : CallWait(targets)
             \/ \E op \in {"join", "hangup"} : CallEnd(op)
    <3>1. UNCHANGED <<table, rec, nextJob, events, hostVars, obs>>
      BY <2>5 DEF CallJobs, CallForeground, CallSignal, CallWait, CallEnd, tableVars
    <3>2. QED
      BY <1>0, <3>1
  <2>6. QED
    BY <1>4, <2>1, <2>2, <2>3, <2>4, <2>5 DEF Command
<1>5. CASE Progress
  <2>1. CASE DrainOne \/ ForegroundReceive \/ WaitReceive \/ QuiesceReceive \/ DrainReceive
    <3>1. Receives
      BY <2>1 DEF DrainOne, ForegroundReceive, WaitReceive, QuiesceReceive, DrainReceive, Receives
    <3>2. QED
      BY <3>1 DEF Kind
  <2>2. CASE \/ DrainEnd \/ ForegroundRefused \/ SignalRefused
             \/ WaitRefused \/ WaitSelect \/ WaitResume \/ WaitSignalRefused
             \/ WaitLost \/ ResumeEnd \/ HangUpEnd \/ CollectOne
             \/ CollectEnd \/ EndSession
             \/ TakeTerminal \/ ForegroundFails \/ RestoreTerminal \/ DropGuard
             \/ HangUpReturn
    <3>1. UNCHANGED <<table, rec, nextJob, events, hostVars, obs>>
      BY <2>2 DEF DrainEnd, ForegroundRefused, SignalRefused, WaitRefused,
                  WaitSelect, WaitResume, WaitSignalRefused, WaitLost,
                  ResumeEnd, HangUpEnd, CollectOne, CollectEnd, EndSession, TakeTerminal,
                  ForegroundFails, RestoreTerminal, DropGuard, HangUpReturn, tableVars
    <3>2. QED
      BY <1>0, <3>1
  <2>3. CASE ForegroundEnter
    BY <2>3, ForegroundEnterRuns DEF Kind
  <2>4. CASE ForegroundReturn
    <3>1. CASE ~rec[call.job].observation_failed /\ rec[call.job].completion # "none"
      <4>1. Consume({call.job}) /\ UNCHANGED <<nextJob, events, hostVars, obs>>
        BY <2>4, <3>1 DEF ForegroundReturn, Live
      <4>2. \A j \in {call.job} : rec[j].completion # "none"
        BY <3>1
      <4>3. Removes /\ Steady
        BY <4>1, <4>2, ConsumeRemoves
      <4>4. QED
        BY <4>3 DEF Kind
    <3>2. CASE ~(~rec[call.job].observation_failed /\ rec[call.job].completion # "none")
      BY <1>0, <2>4, <3>2 DEF ForegroundReturn, tableVars
    <3>3. QED
      BY <3>1, <3>2
  <2>5. CASE SignalDone \/ WaitSignal
    <3>1. PICK j, s : SignalJob(j, s) /\ UNCHANGED <<nextJob, events, obs>>
      BY <2>5 DEF SignalDone, WaitSignal
    <3>2. Runs /\ \A i \in JobIds : rec'[i].observation_failed = rec[i].observation_failed
      BY <3>1, SignalJobRuns
    <3>3. Steady
      BY <3>2 DEF Runs, OutcomeKept, Steady, Inv, TableInv, TableTypeOK
    <3>4. QED
      BY <3>2, <3>3 DEF Kind
  <2>6. CASE WaitConsume
    <3>1. Consume(Targets) /\ UNCHANGED <<nextJob, events, hostVars, obs>>
          /\ \A j \in Targets : rec[j].completion # "none"
      BY <2>6 DEF WaitConsume, Finished
    <3>2. Removes /\ Steady
      BY <3>1, ConsumeRemoves
    <3>3. QED
      BY <3>2 DEF Kind
  <2>7. CASE ResumeOne
    BY <2>7, ResumeOneKind DEF Kind
  <2>8. CASE HangUpOne
    BY <2>8, HangUpOneKind DEF Kind
  <2>9. CASE \E n \in notices : DrainNotice(n)
    BY <2>9, AcknowledgedKind DEF DrainNotice, Kind
  <2>10. QED
    BY <1>5, <2>1, <2>2, <2>3, <2>4, <2>5, <2>6, <2>7, <2>8, <2>9 DEF Progress
<1>6. QED
  BY <1>1, <1>2, <1>3, <1>4, <1>5 DEF Next

(* Every step keeps processes, channel and records consistent.             *)
LEMMA WorldStep ==
  ASSUME Inv, World, Kind
  PROVE  World'
<1>1. CASE Runs \/ \E j \in JobIds : Quarantines(j)
  BY <1>1, RunsWorld DEF Quarantines
<1>2. CASE Removes
  BY <1>2, RemovesWorld
<1>3. CASE Watches
  BY <1>3, ObservesWorld DEF Watches
<1>4. CASE Spawns
  BY <1>4, SpawnWorld DEF Spawns
<1>5. CASE StartFails
  BY <1>5, SpentWorld
<1>6. CASE Receives
  BY <1>6, ReceivesWorld
<1>7. QED
  BY <1>1, <1>2, <1>3, <1>4, <1>5, <1>6 DEF Kind

(* A process that was given up stays a zombie nobody waits for. *)
LEMMA AbandonedStays ==
  ASSUME Inv, World, Kind, NEW j \in JobIds, NEW m \in Members, Abandoned(j, m), j < nextJob
  PROVE  Abandoned(j, m)'
<1>1. CASE Runs \/ \E i \in JobIds : Quarantines(i)
  <2>1. Moves(j, m) /\ obs' = obs
    BY <1>1 DEF Runs, Quarantines
  <2>2. QED
    BY <2>1 DEF Moves, Kept, Alive, Abandoned
<1>2. CASE Removes
  BY <1>2 DEF Removes, Abandoned
<1>3. CASE Watches
  <2>1. PICK i \in JobIds, k \in Members, e \in ObservationType : Observes(i, k, e)
    BY <1>3 DEF Watches
  <2>2. j # i \/ m # k
    BY <2>1 DEF Observes, Abandoned
  <2>3. Watched(j, m)
    BY <2>1, <2>2 DEF Observes
  <2>4. QED
    BY <2>3 DEF Watched, Kept, Abandoned
<1>4. CASE Spawns
  <2>1. PICK ms \in Pipelines, p \in Placement : Spawn(ms, p)
    BY <1>4 DEF Spawns
  <2>2. j # nextJob /\ nextJob \in JobIds
    BY <2>1 DEF Spawn, Inv, TableInv, TableTypeOK, JobIds
  <2>3. os'[j] = os[j] /\ obs'[j] = obs[j]
    BY <2>1, <2>2 DEF Spawn, SpawnAs, Inv, HostTypeOK
  <2>4. QED
    BY <2>3 DEF Abandoned
<1>5. CASE StartFails \/ Receives
  BY <1>5 DEF StartFails, Receives, hostVars, Abandoned
<1>6. QED
  BY <1>1, <1>2, <1>3, <1>4, <1>5 DEF Kind

-----------------------------------------------------------------------------
(* The notices.                                                            *)

(* Nothing is queued, and what stays queued stays addressable. *)
LEMMA NoticesKept ==
  ASSUME Inv, World, Kind, NoticeInv, notices' \subseteq notices,
         nextNotice' \in Nat, nextNotice <= nextNotice', \A n \in notices' : n.job \in table'
  PROVE  NoticeInv'
<1>1. ASSUME NEW n \in notices' PROVE n.job \in table' /\ n.id < nextNotice'
  <2>1. n.id < nextNotice /\ n.id \in Nat /\ nextNotice \in Nat
    BY DEF NoticeInv, Inv, TableInv, TableTypeOK, NoticeType
  <2>2. QED
    BY <2>1
<1>2. ASSUME NEW n \in notices', n.kind = "failed" PROVE \E m \in Members : Abandoned(n.job, m)'
  <2>1. PICK m \in Members : Abandoned(n.job, m)
    BY <1>2 DEF NoticeInv
  <2>2. PICK j \in JobIds : j = n.job /\ j < nextJob
    BY DEF Inv, TableInv, TableTypeOK, NoticeType
  <2>3. Abandoned(j, m)'
    BY <2>1, <2>2, AbandonedStays
  <2>4. QED
    BY <2>2, <2>3 DEF Abandoned
<1>3. QED
  BY <1>1, <1>2 DEF NoticeInv, Abandoned

(* One notice is queued behind the others: about a fresh job if it is a    *)
(* start, about an abandoned process if it is a loss.                      *)
LEMMA NoticesQueued ==
  ASSUME Inv, World, Kind, NoticeInv, NEW x \in NoticeType,
         notices' \subseteq notices \cup {x}, x.id = nextNotice,
         nextNotice' = nextNotice + 1, table \subseteq table', x.job \in table',
         x.kind = "started" => \A n \in notices : n.job # x.job,
         x.kind = "failed" => \E m \in Members : os'[x.job][m] = "zombie"
           /\ obs'[x.job][m] = "done"
  PROVE  NoticeInv'
<1>t. nextNotice \in Nat /\ notices \subseteq NoticeType
  BY DEF Inv, TableInv, TableTypeOK
<1>1. ASSUME NEW n \in notices PROVE n.job \in table' /\ n.id < nextNotice' /\ n.id < x.id
  <2>1. n.id < nextNotice /\ n.id \in Nat /\ n.job \in table
    BY <1>t DEF NoticeInv, NoticeType
  <2>2. QED
    BY <1>t, <2>1
<1>2. \A n \in notices' : n.job \in table' /\ n.id < nextNotice'
  BY <1>1, <1>t
<1>3. ASSUME NEW n \in notices, n.kind = "failed" PROVE \E m \in Members : Abandoned(n.job, m)'
  <2>1. PICK m \in Members : Abandoned(n.job, m)
    BY <1>3 DEF NoticeInv
  <2>2. PICK j \in JobIds : j = n.job /\ j < nextJob
    BY DEF Inv, TableInv, TableTypeOK, NoticeType
  <2>3. Abandoned(j, m)'
    BY <2>1, <2>2, AbandonedStays
  <2>4. QED
    BY <2>2, <2>3 DEF Abandoned
<1>4. \A n \in notices' : n.kind = "failed" => \E m \in Members : os'[n.job][m] = "zombie"
      /\ obs'[n.job][m] = "done"
  BY <1>3 DEF Abandoned
<1>5. ASSUME NEW n \in notices', NEW k \in notices', n.job = k.job, n.kind = "started",
             k.kind # "started"
      PROVE  n.id < k.id
  <2>1. CASE n \in notices /\ k \in notices
    BY <1>5, <2>1 DEF NoticeInv
  <2>2. CASE n \in notices /\ k = x
    BY <1>1, <2>2
  <2>3. CASE n = x /\ k \in notices
    BY <1>5, <2>3
  <2>4. QED
    BY <1>5, <2>1, <2>2, <2>3
<1>6. QED
  BY <1>2, <1>4, <1>5 DEF NoticeInv, Abandoned

(* Acknowledging a completion takes every notice of its job along: its     *)
(* start was handed out before, its one lifecycle notice is the front, and *)
(* a job that completed was never given up.                                *)
LEMMA FrontIsLast ==
  ASSUME Inv, World, NoticeInv, NEW n, IsFront(n), n.kind = "completed", ~Refused(n),
         NEW k \in notices, k.job = n.job
  PROVE  k = n
<1>1. n \in notices /\ n.job \in table /\ rec[n.job].job.state = "completed" /\ n.id <= k.id
  BY DEF IsFront, Refused, CanReap
<1>2. n.id \in Nat /\ k.id \in Nat /\ k.kind \in {"started", "stopped", "completed", "failed"}
  BY <1>1 DEF Inv, TableInv, TableTypeOK, NoticeType
<1>3. k.kind # "started"
  <2>1. SUFFICES ASSUME k.kind = "started" PROVE FALSE
    OBVIOUS
  <2>2. k.id < n.id
    BY <1>1, <2>1 DEF NoticeInv
  <2>3. QED
    BY <1>1, <1>2, <2>2
<1>4. k.kind # "failed"
  <2>1. SUFFICES ASSUME k.kind = "failed" PROVE FALSE
    OBVIOUS
  <2>2. PICK m \in Members : Abandoned(n.job, m)
    BY <2>1 DEF NoticeInv
  <2>3. rec[n.job].job.members[m] \in {"absent", "completed"}
    BY <1>1 DEF Inv, TableInv, GoodRecord, PublishedJob, AllCompleted
  <2>4. MemberSound(n.job, m)
    BY <1>1 DEF World, MemberInv
  <2>5. QED
    BY <2>2, <2>3, <2>4 DEF MemberSound, Abandoned
<1>5. k \in LifecycleNotices(n.job) /\ n \in LifecycleNotices(n.job)
  BY <1>1, <1>2, <1>3, <1>4 DEF LifecycleNotices
<1>6. QED
  BY <1>1, <1>5 DEF Inv, TableInv, QueueMatches

(* The front notice is acknowledged. *)
LEMMA AcknowledgedNotices ==
  ASSUME Inv, World, Kind, NoticeInv, NEW n, IsFront(n), ~Refused(n), Acknowledged(n),
         notices' = notices \ {n}, UNCHANGED <<nextJob, nextNotice, events, hostVars, obs>>
  PROVE  NoticeInv'
<1>0. n \in notices /\ nextNotice \in Nat
  BY DEF IsFront, Inv, TableInv, TableTypeOK
<1>1. \/ table' = table /\ n.kind # "completed"
      \/ n.kind = "completed" /\ table' = table \ {n.job}
  BY <1>0, AcknowledgedKind
<1>2. ASSUME NEW k \in notices' PROVE k.job \in table'
  <2>1. k \in notices /\ k # n /\ k.job \in table
    BY DEF NoticeInv
  <2>2. n.kind = "completed" => k.job # n.job
    BY <2>1, FrontIsLast
  <2>3. QED
    BY <1>1, <2>1, <2>2
<1>3. QED
  BY <1>0, <1>2, NoticesKept

(* Completions are consumed with the notices about them. *)
LEMMA ConsumeNotices ==
  ASSUME Inv, World, Kind, NoticeInv, NEW js, Consume(js)
  PROVE  NoticeInv'
<1>1. table' = table \ js /\ notices' = {n \in notices : n.job \notin js}
      /\ nextNotice' = nextNotice /\ nextNotice \in Nat
  BY DEF Consume, Inv, TableInv, TableTypeOK
<1>2. \A n \in notices' : n.job \in table'
  BY <1>1 DEF NoticeInv
<1>3. QED
  BY <1>1, <1>2, NoticesKept

(* An observation queues at most one notice, about its own job. *)
LEMMA ReceivesNotices ==
  ASSUME Inv, World, Kind, NoticeInv, Receives
  PROVE  NoticeInv'
<1>1. events # <<>> /\ Receive /\ Apply(Head(events)) /\ os' = os /\ obs' = obs
  BY DEF Receives, Receive, hostVars
<1>2. PICK e \in ObservationType : e = Head(events)
  BY <1>1 DEF Inv, HostTypeOK
<1>t. nextNotice \in Nat /\ e.job \in JobIds /\ e.member \in Members
  BY DEF Inv, TableInv, TableTypeOK, ObservationType
<1>3. CASE e.job \notin table
  <2>1. notices' = notices /\ nextNotice' = nextNotice /\ table' = table
    BY <1>1, <1>2, <1>3 DEF Apply, tableVars
  <2>2. QED
    BY <1>t, <2>1, NoticesKept DEF NoticeInv
<1>4. CASE e.job \in table
  <2> DEFINE r == rec[e.job]
             r1 == Observed(r, e)
             k == NoticeOf(r, r1, e)
             x == [id |-> nextNotice, job |-> e.job, kind |-> k]
  <2>1. /\ table' = table
        /\ IF k # "none" THEN QueueNotice(e.job, k)
           ELSE /\ notices' = IF e.kind = "continued" /\ Accepts(r.job, e.member)
                              THEN notices \ StoppedNotices(e.job) ELSE notices
                /\ nextNotice' = nextNotice
    BY <1>1, <1>2, <1>4 DEF Apply
  <2>2. EventSound(e)
    BY <1>1, <1>2, <1>4, HeadAccepted
  <2>3. k \in {"none", "failed", "stopped", "completed"} /\ (k = "failed" => e.kind = "failed")
    BY DEF NoticeOf
  <2> HIDE DEF k
  <2>4. CASE k = "none"
    <3>1. notices' \subseteq notices /\ nextNotice' = nextNotice /\ table' = table
      BY <2>1, <2>4
    <3>2. QED
      BY <1>t, <3>1, NoticesKept DEF NoticeInv
  <2>5. CASE k # "none"
    <3>1. notices' \subseteq notices \cup {x} /\ nextNotice' = nextNotice + 1 /\ table' = table
      BY <2>1, <2>5 DEF QueueNotice
    <3>2. x \in NoticeType /\ x.id = nextNotice /\ x.job = e.job /\ x.kind = k /\ k # "started"
      BY <1>t, <2>3, <2>5 DEF NoticeType
    <3>3. k = "failed" => os'[e.job][e.member] = "zombie" /\ obs'[e.job][e.member] = "done"
      BY <1>1, <2>2, <2>3 DEF EventSound, Terminal
    <3> HIDE DEF x
    <3>4. QED
      BY <1>4, <1>t, <3>1, <3>2, <3>3, NoticesQueued
  <2>6. QED
    BY <2>4, <2>5
<1>5. QED
  BY <1>3, <1>4

(* Every step keeps the notices addressable and in order. *)
LEMMA NoticeStep ==
  ASSUME Inv, World, Kind, NoticeInv, [Next]_vars
  PROVE  NoticeInv'
<1>t. nextNotice \in Nat /\ table \subseteq JobIds
  BY DEF Inv, TableInv, TableTypeOK
<1>0. ASSUME notices' \subseteq notices, nextNotice' = nextNotice, table' = table PROVE NoticeInv'
  BY <1>0, <1>t, NoticesKept DEF NoticeInv
<1>1. CASE UNCHANGED vars \/ Ended \/ Host \/ Observer
  <2>1. notices' = notices /\ nextNotice' = nextNotice /\ table' = table
    BY <1>1 DEF vars, Ended, Host, HostStop, HostContinue, HostExit, Observer,
                ObserveTransition, ObserveExit, ObserveFailure, tableVars
  <2>2. QED
    BY <1>0, <2>1
<1>2. CASE Command
  <2>1. CASE \E ms \in Pipelines : Start(ms)
    <3>1. PICK ms \in Pipelines : Start(ms)
      BY <2>1
    <3> DEFINE x == [id |-> nextNotice, job |-> nextJob, kind |-> "started"]
    <3>2. /\ notices' = notices \cup {x} /\ nextNotice' = nextNotice + 1
          /\ table' = table \cup {nextJob} /\ nextJob \in JobIds
      BY <3>1 DEF Start, Spawn, SpawnAs, Inv, TableInv, TableTypeOK, JobIds
    <3>3. x \in NoticeType /\ x.id = nextNotice /\ x.job = nextJob /\ x.kind = "started"
      BY <1>t, <3>2 DEF NoticeType
    <3>4. \A n \in notices : n.job # nextJob
      BY <3>2 DEF Inv, TableInv, JobIds
    <3> HIDE DEF x
    <3>5. QED
      BY <3>2, <3>3, <3>4, NoticesQueued
  <2>2. CASE \E ms \in Pipelines : StartForeground(ms)
    <3>1. notices' = notices /\ nextNotice' = nextNotice /\ table \subseteq table'
      BY <2>2 DEF StartForeground, Spawn, SpawnAs
    <3>2. QED
      BY <1>t, <3>1, NoticesKept DEF NoticeInv
  <2>3. CASE StartFails
    <3>1. /\ notices' = notices /\ table' = table
          /\ nextNotice' = nextNotice \/ nextNotice' = nextNotice + 1
      BY <2>3 DEF StartFails
    <3>2. nextNotice' \in Nat /\ nextNotice <= nextNotice'
      BY <1>t, <3>1
    <3>3. QED
      BY <3>1, <3>2, NoticesKept DEF NoticeInv
  <2>4. CASE NextNotice
    BY <2>4, ReceivesNotices DEF NextNotice, Receives
  <2>5. CASE \E n \in notices : Acknowledge(n)
    BY <2>5, AcknowledgedNotices DEF Acknowledge
  <2>6. CASE \/ CallJobs
             \/ \E j \in JobIds : CallForeground(j)
             \/ \E next \in {"bg", "kill"}, j \in JobIds,
                s \in JobSignals : CallSignal(next, j, s)
             \/ \E targets \in TargetLists : CallWait(targets)
             \/ \E op \in {"join", "hangup"} : CallEnd(op)
    <3>1. notices' = notices /\ nextNotice' = nextNotice /\ table' = table
      BY <2>6 DEF CallJobs, CallForeground, CallSignal, CallWait, CallEnd, tableVars
    <3>2. QED
      BY <1>0, <3>1
  <2>7. QED
    BY <1>2, <2>1, <2>2, <2>3, <2>4, <2>5, <2>6 DEF Command
<1>3. CASE Progress
  <2>1. CASE DrainOne \/ ForegroundReceive \/ WaitReceive \/ QuiesceReceive \/ DrainReceive
    <3>1. Receives
      BY <2>1 DEF DrainOne, ForegroundReceive, WaitReceive, QuiesceReceive, DrainReceive, Receives
    <3>2. QED
      BY <3>1, ReceivesNotices
  <2>2. CASE \/ DrainEnd \/ ForegroundRefused \/ SignalRefused
             \/ WaitRefused \/ WaitSelect \/ WaitResume \/ WaitSignalRefused
             \/ WaitLost \/ ResumeEnd \/ HangUpEnd \/ CollectOne
             \/ CollectEnd \/ EndSession
             \/ TakeTerminal \/ ForegroundFails \/ RestoreTerminal \/ DropGuard
             \/ HangUpReturn
    <3>1. notices' = notices /\ nextNotice' = nextNotice /\ table' = table
      BY <2>2 DEF DrainEnd, ForegroundRefused, SignalRefused, WaitRefused,
                  WaitSelect, WaitResume, WaitSignalRefused, WaitLost,
                  ResumeEnd, HangUpEnd, CollectOne, CollectEnd, EndSession, TakeTerminal,
                  ForegroundFails, RestoreTerminal, DropGuard, HangUpReturn, tableVars
    <3>2. QED
      BY <1>0, <3>1
  <2>3. CASE ForegroundEnter
    <3>1. notices' \subseteq notices /\ nextNotice' = nextNotice /\ table' = table
      BY <2>3 DEF ForegroundEnter, Continued
    <3>2. QED
      BY <1>0, <3>1
  <2>4. CASE ForegroundReturn
    <3>1. Consume({call.job}) \/ (notices' = notices /\ nextNotice' = nextNotice
          /\ table' = table)
      BY <2>4 DEF ForegroundReturn, tableVars
    <3>2. QED
      BY <1>0, <3>1, ConsumeNotices
  <2>5. CASE SignalDone \/ WaitSignal
    <3>1. PICK j, s : SignalJob(j, s)
      BY <2>5 DEF SignalDone, WaitSignal
    <3>2. notices' \subseteq notices /\ nextNotice' = nextNotice /\ table' = table
      BY <3>1 DEF SignalJob, Continued, tableVars
    <3>3. QED
      BY <1>0, <3>2
  <2>6. CASE WaitConsume
    BY <2>6, ConsumeNotices DEF WaitConsume
  <2>7. CASE ResumeOne \/ HangUpOne
    <3>1. PICK j, s, r : SignalOrQuarantine(j, s, r)
      BY <2>7 DEF ResumeOne, HangUpOne
    <3>2. notices' = notices /\ nextNotice' = nextNotice /\ table' = table
      BY <3>1 DEF SignalOrQuarantine
    <3>3. QED
      BY <1>0, <3>2
  <2>8. CASE \E n \in notices : DrainNotice(n)
    BY <2>8, AcknowledgedNotices DEF DrainNotice
  <2>9. QED
    BY <1>3, <2>1, <2>2, <2>3, <2>4, <2>5, <2>6, <2>7, <2>8 DEF Progress
<1>4. QED
  BY <1>1, <1>2, <1>3 DEF Next

-----------------------------------------------------------------------------
(* The locals of the session.                                              *)

(* A step that keeps the locals, or returns, keeps what they refer to. *)
LEMMA CallKept ==
  ASSUME CallInv, call' = call, table \subseteq table'
  PROVE  CallInv'
  BY DEF CallInv, At, Waiting, Ending, Targets, ElementsOf

(* A session between two builtins, or with no more than a terminal to give *)
(* back, refers to nothing.                                                *)
LEMMA CallIdle ==
  ASSUME call'.pc \in {"idle", "entered", "restore", "fail", "drainNotices", "ended"}
  PROVE  CallInv'
  BY DEF CallInv, At, Waiting

(* The locals after Return. *)
LEMMA IdleIs ==
  Idle.pc = "idle" /\ Idle.failures = <<>> /\ Idle.held = <<>>
  BY DEF Idle

(* The locals after a drain was entered.                                   *)
LEMMA DrainingIs ==
  ASSUME call \in CallType, NEW next
  PROVE  /\ Draining(next).pc = "drain" /\ Draining(next).next = next
         /\ Draining(next).selected = call.selected /\ Draining(next).failures = call.failures
         /\ Draining(next).held = call.held
  BY DEF Draining, CallType

(* The locals after wait went on to its next target.                       *)
LEMMA NextTargetIs ==
  ASSUME call \in CallType
  PROVE  /\ NextTarget.selected = call.selected /\ NextTarget.failures = call.failures
         /\ NextTarget.held = call.held
         /\ NextTarget.pc = "waitCheck"
            \/ (NextTarget.pc = "drain" /\ NextTarget.next = "waitResume")
         /\ NextTarget \in CallType
<1>1. CASE call.idx < Len(call.selected)
  <2> DEFINE d == Draining("waitResume")
  <2>1. d \in CallType /\ d.pc = "drain" /\ d.next = "waitResume"
        /\ d.selected = call.selected /\ d.failures = call.failures /\ d.held = call.held
    BY DrainingIs, DrainingTyped DEF Labels
  <2>2. NextTarget = [d EXCEPT !.idx = @ + 1]
    BY <1>1 DEF NextTarget
  <2> HIDE DEF d
  <2>3. QED
    BY <2>1, <2>2, NextTargetTyped DEF CallType
<1>2. CASE ~(call.idx < Len(call.selected))
  <2>1. NextTarget = [call EXCEPT !.pc = "waitCheck", !.idx = 1]
    BY <1>2 DEF NextTarget
  <2>2. QED
    BY <2>1, NextTargetTyped DEF CallType
<1>3. QED
  BY <1>1, <1>2

(* A session that waits, and whose targets stay in the table. *)
LEMMA CallWaiting ==
  ASSUME \/ call'.pc \in {"waitCheck", "waitResume", "waitSignal"}
         \/ call'.pc = "drain" /\ call'.next \in {"waitResume", "waitSignal"},
         ElementsOf(call'.selected) \subseteq table'
  PROVE  CallInv'
  BY DEF CallInv, At, Waiting, Ending, Targets

(* What the session works on stays in the table. *)
LEMMA CallStep ==
  ASSUME Inv, CallInv, [Next]_vars
  PROVE  CallInv'
<1>t. call \in CallType
  BY DEF Inv, SessionTypeOK
<1>1. CASE UNCHANGED vars \/ Ended \/ Host \/ Observer
  <2>1. call' = call /\ table' = table
    BY <1>1 DEF vars, Ended, Host, HostStop, HostContinue, HostExit, Observer,
                ObserveTransition, ObserveExit, ObserveFailure, tableVars
  <2>2. QED
    BY <2>1, CallKept
<1>r. ASSUME Receive PROVE table' = table
  BY <1>r DEF Receive, Apply, tableVars
<1>2. CASE Command
  <2>0. call.pc = "idle"
    BY <1>2 DEF Command, Start, StartForeground, StartFails, NextNotice, Acknowledge, CallJobs,
                CallForeground, CallSignal, CallWait, CallEnd, At
  <2>1. CASE \/ (\E ms \in Pipelines : Start(ms)) \/ StartFails \/ NextNotice
             \/ \E n \in notices : Acknowledge(n)
    <3>1. call' = call \/ call' = [call EXCEPT !.pc = "fail"]
      BY <2>1 DEF Start, StartFails, NextNotice, Acknowledge
    <3>2. call'.pc \in {"idle", "fail"}
      BY <1>t, <2>0, <3>1 DEF CallType
    <3>3. QED
      BY <3>2, CallIdle
  <2>2. CASE \E ms \in Pipelines : StartForeground(ms)
    <3>1. call' = [call EXCEPT !.pc = "foreground", !.job = nextJob] /\ nextJob \in table'
      BY <2>2 DEF StartForeground, Spawn, SpawnAs
    <3>2. call'.pc = "foreground" /\ call'.job \in table'
      BY <1>t, <3>1 DEF CallType
    <3>3. QED
      BY <3>2 DEF CallInv, At, Waiting
  <2>3. CASE \/ CallJobs
             \/ \E j \in JobIds : CallForeground(j)
             \/ \E next \in {"bg", "kill"}, j \in JobIds,
                s \in JobSignals : CallSignal(next, j, s)
             \/ \E targets \in TargetLists : CallWait(targets)
    <3>1. ASSUME NEW next PROVE Draining(next) = [call EXCEPT !.pc = "drain", !.next = next]
      BY DEF Draining
    <3>2. call'.pc = "drain" /\ call'.next \in {"idle", "fg", "bg", "kill", "waitSelect"}
      BY <1>t, <2>3, <3>1 DEF CallJobs, CallForeground, CallSignal, CallWait, CallType
    <3>3. QED
      BY <3>2 DEF CallInv, At, Waiting, Ending
  <2>4. CASE \E op \in {"join", "hangup"} : CallEnd(op)
    <3>1. call'.pc = "resume" /\ call'.next \in {"hangup", "quiesce"}
      BY <1>t, <2>4 DEF CallEnd, CallType
    <3>2. QED
      BY <3>1 DEF CallInv, At, Waiting
  <2>5. QED
    BY <1>2, <2>1, <2>2, <2>3, <2>4 DEF Command
<1>3. CASE Progress
  <2>1. CASE DrainOne \/ ForegroundReceive \/ DrainReceive
    <3>1. call' = call /\ table' = table
      BY <1>r, <2>1 DEF DrainOne, ForegroundReceive, DrainReceive
    <3>2. QED
      BY <3>1, CallKept
  <2>2. CASE ForegroundRefused \/ SignalDone \/ SignalRefused
             \/ WaitRefused \/ WaitLost \/ WaitConsume
    <3>1. call' = Idle
      BY <2>2 DEF ForegroundRefused, SignalDone, SignalRefused, WaitRefused,
                  WaitLost, WaitConsume, Return
    <3>2. QED
      BY <3>1, CallIdle, IdleIs
  <2>12. CASE \/ TakeTerminal \/ ForegroundFails \/ ForegroundReturn \/ RestoreTerminal
              \/ DropGuard
    <3>1. call' = Idle \/ call'.pc \in {"entered", "restore", "fail"}
      BY <1>t, <2>12 DEF TakeTerminal, ForegroundFails, ForegroundReturn, RestoreTerminal,
                         DropGuard, Return, CallType
    <3>2. QED
      BY <3>1, CallIdle, IdleIs
  <2>3. CASE DrainEnd
    <3>1. call.pc = "drain" /\ call' = [call EXCEPT !.pc = call.next] /\ table' = table
      BY <2>3 DEF DrainEnd, At, tableVars
    <3>2. call'.pc = call.next /\ call'.next = call.next /\ call'.selected = call.selected
      BY <1>t, <3>1 DEF CallType
    <3>3. /\ call.next \notin Ending \cup {"foreground", "waitCheck", "drain"}
          /\ call.next \in Waiting => Targets \subseteq table
      BY <3>1 DEF CallInv, At
    <3>4. CASE call.next \in Waiting
      BY <3>1, <3>2, <3>3, <3>4, CallWaiting DEF Waiting, Targets
    <3>5. CASE call.next \notin Waiting
      BY <3>2, <3>3, <3>5 DEF CallInv, At, Waiting, Ending
    <3>6. QED
      BY <3>4, <3>5
  <2>4. CASE ForegroundEnter
    <3>1. call' = [call EXCEPT !.pc = "foreground"] /\ call.job \in table /\ table' = table
      BY <2>4 DEF ForegroundEnter, Foregroundable, Continued
    <3>2. call'.pc = "foreground" /\ call'.job \in table'
      BY <1>t, <3>1 DEF CallType
    <3>3. QED
      BY <3>2 DEF CallInv, At, Waiting
  <2>5. CASE WaitSelect
    <3>1. table' = table
      BY <2>5 DEF WaitSelect, tableVars
    <3>2. Draining("waitResume") \in CallType /\ Draining("waitResume").pc = "drain"
          /\ Draining("waitResume").next = "waitResume"
          /\ Draining("waitResume").selected = call.selected
      BY <1>t, DrainingIs, DrainingTyped DEF Labels
    <3>3. \/ \E all \in TargetLists : /\ InOrder(all, Waitable)
                                      /\ call' = [Draining("waitResume") EXCEPT !.selected = all]
          \/ Targets \subseteq Waitable /\ call' = Draining("waitResume")
      BY <2>5 DEF WaitSelect
    <3>4. call'.pc = "drain" /\ call'.next = "waitResume"
          /\ ElementsOf(call'.selected) \subseteq Waitable
      <4>1. CASE \E all \in TargetLists : /\ InOrder(all, Waitable)
                                          /\ call' = [Draining("waitResume") EXCEPT !.selected = all]
        <5>1. PICK all \in TargetLists : /\ InOrder(all, Waitable)
                                         /\ call' = [Draining("waitResume") EXCEPT !.selected = all]
          BY <4>1
        <5>2. ElementsOf(all) = Waitable
          BY <5>1 DEF InOrder
        <5>3. call'.pc = "drain" /\ call'.next = "waitResume" /\ call'.selected = all
          BY <3>2, <5>1 DEF CallType
        <5>4. QED
          BY <5>2, <5>3
      <4>2. CASE Targets \subseteq Waitable /\ call' = Draining("waitResume")
        BY <3>2, <4>2 DEF Targets
      <4>3. QED
        BY <3>3, <4>1, <4>2
    <3>5. QED
      BY <3>1, <3>4, CallWaiting DEF Waitable
  <2>6. CASE WaitResume \/ WaitSignal \/ WaitSignalRefused \/ WaitReceive
    <3>1. call.pc \in Waiting
      BY <2>6 DEF WaitResume, WaitSignal, WaitSignalRefused, WaitReceive, At, Waiting
    <3>2. table' = table
      BY <1>r, <2>6 DEF WaitResume, WaitSignal, WaitSignalRefused, WaitReceive, tableVars,
                        SignalJob, Continued
    <3>3. Targets \subseteq table
      BY <3>1 DEF CallInv
    <3>4. /\ NextTarget.selected = call.selected /\ NextTarget \in CallType
          /\ NextTarget.pc = "waitCheck"
             \/ (NextTarget.pc = "drain" /\ NextTarget.next = "waitResume")
      BY <1>t, NextTargetIs
    <3>d. ASSUME NEW next \in Labels
          PROVE  /\ Draining(next) \in CallType /\ Draining(next).pc = "drain"
                 /\ Draining(next).next = next /\ Draining(next).selected = call.selected
      BY <1>t, DrainingIs, DrainingTyped
    <3>5. CASE call' = Idle
      BY <3>5, CallIdle, IdleIs
    <3>6. CASE WaitResume /\ call' # Idle
      <4>1. \/ call' = NextTarget
            \/ call' = [Draining("waitSignal") EXCEPT !.stopped = StoppedMembers(Target)]
        BY <3>6 DEF WaitResume, Return
      <4>2. CASE call' = NextTarget
        BY <3>2, <3>3, <3>4, <4>2, CallWaiting DEF Targets
      <4>3. CASE call' = [Draining("waitSignal") EXCEPT !.stopped = StoppedMembers(Target)]
        <5>1. call'.pc = "drain" /\ call'.next = "waitSignal" /\ call'.selected = call.selected
          BY <3>d, <4>3 DEF CallType, Labels
        <5>2. QED
          BY <3>2, <3>3, <5>1, CallWaiting DEF Targets
      <4>4. QED
        BY <4>1, <4>2, <4>3
    <3>7. CASE WaitSignal
      <4> DEFINE f == [NextTarget.resumes EXCEPT ![Target] =
                         [m \in Members |-> IF m \in call.stopped THEN @[m] + 1 ELSE @[m]]]
      <4>1. call' = [NextTarget EXCEPT !.resumes = f]
        BY <3>7 DEF WaitSignal
      <4> HIDE DEF f
      <4>2. call'.pc = NextTarget.pc /\ call'.next = NextTarget.next
            /\ call'.selected = call.selected
        BY <3>4, <4>1 DEF CallType
      <4>3. QED
        BY <3>2, <3>3, <3>4, <4>2, CallWaiting DEF Targets
    <3>8. CASE WaitSignalRefused /\ call' # Idle
      <4>1. call' = NextTarget
        BY <3>8 DEF WaitSignalRefused, Return
      <4>2. QED
        BY <3>2, <3>3, <3>4, <4>1, CallWaiting DEF Targets
    <3>9. CASE WaitReceive
      <4>1. call' = Draining("waitResume")
        BY <3>9 DEF WaitReceive
      <4>2. QED
        BY <3>2, <3>3, <3>d, <4>1, CallWaiting DEF Targets, Labels
    <3>10. QED
      BY <2>6, <3>5, <3>6, <3>7, <3>8, <3>9
  <2>7. CASE ResumeOne \/ HangUpOne \/ CollectOne \/ QuiesceReceive
    <3>1. call.pc \in {"resume", "hangup", "quiesce"}
      BY <2>7 DEF ResumeOne, HangUpOne, CollectOne, QuiesceReceive, At
    <3>2. call'.pc \in {call.pc, "resume"} /\ call'.next = call.next
      BY <1>t, <2>7 DEF ResumeOne, HangUpOne, CollectOne, QuiesceReceive, CallType
    <3>3. QED
      BY <3>1, <3>2 DEF CallInv, At, Waiting
  <2>8. CASE ResumeEnd
    <3>1. call'.pc = call.next /\ call'.next = call.next /\ call.next \in {"hangup", "quiesce"}
      BY <1>t, <2>8 DEF ResumeEnd, CallType, CallInv, At
    <3>2. QED
      BY <3>1 DEF CallInv, At, Waiting
  <2>9. CASE HangUpEnd
    <3>1. call'.pc = "resume" /\ call'.next = "quiesce"
      BY <1>t, <2>9 DEF HangUpEnd, CallType
    <3>2. QED
      BY <3>1 DEF CallInv, At, Waiting
  <2>10. CASE CollectEnd \/ HangUpReturn \/ EndSession \/ \E n \in notices : DrainNotice(n)
    <3>1. call'.pc \in {"drainNotices", "ended"}
      BY <1>t, <2>10 DEF CollectEnd, HangUpReturn, EndSession, DrainNotice, At, CallType
    <3>2. QED
      BY <3>1, CallIdle
  <2>11. QED
    BY <1>3, <2>1, <2>2, <2>3, <2>4, <2>5, <2>6, <2>7, <2>8, <2>9, <2>10, <2>12 DEF Progress
<1>4. QED
  BY <1>1, <1>2, <1>3 DEF Next

-----------------------------------------------------------------------------
(* The failures of an ending session.                                      *)

(* A failure that was named, and what the lists say, after the step.       *)
FailedNext(j) == rec'[j].observation_failed \/ rec'[j].completion = "err"
TruthfulNext(f) ==
  FailedNext(f.job) /\ (f.reason = "exited" <=> ~rec'[f.job].observation_failed)
SoundNext(list) ==
  /\ \A i \in DOMAIN list : TruthfulNext(list[i])
  /\ \A i, k \in DOMAIN list : list[i].job = list[k].job => i = k

(* A job that failed stays failed, and for the same reason. *)
Sticks ==
  \A j \in JobIds : Failed(j) =>
    FailedNext(j) /\ (rec'[j].observation_failed <=> rec[j].observation_failed)

(* The lists outlive a step that leaves the failures as they were. *)
LEMMA SoundKept ==
  ASSUME NEW list \in Seq(FailureType), ListSound(list), Sticks
  PROVE  SoundNext(list)
<1>1. ASSUME NEW i \in DOMAIN list PROVE TruthfulNext(list[i])
  <2>0. list[i] \in FailureType
    BY <1>1
  <2>1. list[i].job \in JobIds
    BY <2>0 DEF FailureType
  <2>2. Truthful(list[i])
    BY <1>1 DEF ListSound
  <2>3. QED
    BY <2>1, <2>2 DEF Truthful, TruthfulNext, Sticks
<1>2. QED
  BY <1>1 DEF ListSound, SoundNext

(* One more failure, of a job that was not named. *)
LEMMA SoundGrows ==
  ASSUME NEW list \in Seq(FailureType), SoundNext(list), NEW f \in FailureType,
         TruthfulNext(f), f.job \notin JobsIn(list)
  PROVE  SoundNext(Append(list, f))
<1> DEFINE n == Len(list) + 1
           new == Append(list, f)
<1>1. /\ DOMAIN new = DOMAIN list \cup {n} /\ n \notin DOMAIN list
      /\ \A i \in DOMAIN list : new[i] = list[i]
      /\ new[n] = f
  OBVIOUS
<1> HIDE DEF new, n
<1>2. \A i \in DOMAIN new : TruthfulNext(new[i])
  BY <1>1 DEF SoundNext
<1>3. \A i \in DOMAIN list : list[i].job # f.job
  BY DEF JobsIn
<1>4. \A i, k \in DOMAIN new : new[i].job = new[k].job => i = k
  BY <1>1, <1>3 DEF SoundNext
<1>5. QED
  BY <1>2, <1>4 DEF SoundNext, new

(* Nothing was collected yet. *)
LEMMA FailuresNone ==
  ASSUME call'.failures = <<>>, call'.held = <<>>, call'.pc \notin Returned
  PROVE  FailuresInv'
  BY DEF FailuresInv, ListSound

(* The session is ending, and has nothing to return yet. *)
LEMMA FailuresBusy ==
  ASSUME SoundNext(call'.failures), SoundNext(call'.held), call'.pc \in Ending \ Returned
  PROVE  FailuresInv'
<1>1. ListSound(call.failures)' /\ ListSound(call.held)'
  BY DEF ListSound, SoundNext, Truthful, TruthfulNext, Failed, FailedNext
<1>2. QED
  BY <1>1 DEF FailuresInv

(* The session has returned what it collected. *)
LEMMA FailuresReturned ==
  ASSUME SoundNext(call'.failures), SoundNext(call'.held), call'.pc \in Returned,
         \A j \in table' : ~Live(rec'[j]) /\ (FailedNext(j) => j \in JobsIn(call'.failures)),
         call'.op = "hangup" => \A i, k \in DOMAIN call'.failures :
           i < k => call'.failures[i].job < call'.failures[k].job
  PROVE  FailuresInv'
<1>1. ListSound(call.failures)' /\ ListSound(call.held)'
  BY DEF ListSound, SoundNext, Truthful, TruthfulNext, Failed, FailedNext
<1>2. \A j \in table' : ~Live(rec[j])'
  BY DEF Live
<1>3. \A j : j \in JobsIn(call'.failures) => Reported(j)'
  BY DEF JobsIn, Reported
<1>4. \A j : Failed(j)' => FailedNext(j)
  BY DEF Failed, FailedNext
<1>5. call'.pc \in Ending
  BY DEF Ending, Returned
<1>6. QED
  BY <1>1, <1>2, <1>3, <1>4, <1>5 DEF FailuresInv

(* A steady step leaves the live and the failed records as they were. *)
LEMMA SteadyKeeps ==
  ASSUME Steady, table \subseteq JobIds
  PROVE  /\ Sticks
         /\ \A j \in table' : /\ j \in table
                              /\ Live(rec[j]) <=> Live(rec'[j])
                              /\ Failed(j) <=> FailedNext(j)
<1>1. Sticks
  BY DEF Steady, Sticks, Failed, FailedNext
<1>2. \A j \in table' : /\ j \in table
                        /\ Live(rec[j]) <=> Live(rec'[j])
                        /\ Failed(j) <=> FailedNext(j)
  BY DEF Steady, Live, Failed, FailedNext
<1>3. QED
  BY <1>1, <1>2

(* An observation brings no record back to life, and does not change what  *)
(* was said of a failed one: of a completed job nothing is under way.      *)
LEMMA ReceivesSettles ==
  ASSUME Inv, World, Receives, NEW j \in JobIds, Failed(j) \/ (j \in table /\ ~Live(rec[j]))
  PROVE  /\ Live(rec'[j]) => Live(rec[j])
         /\ FailedNext(j) <=> Failed(j)
         /\ rec'[j].observation_failed <=> rec[j].observation_failed
<1> DEFINE e == Head(events)
<1>0. Receive /\ events # <<>>
  BY DEF Receives, Receive
<1>1. CASE j # e.job \/ j \notin table
  <2>1. rec'[j] = rec[j]
    BY <1>0, <1>1, ReceivedRecord
  <2>2. QED
    BY <2>1 DEF Live, Failed, FailedNext
<1>2. CASE j = e.job /\ j \in table /\ rec[j].observation_failed
  <2>1. rec'[j].observation_failed
    <3>1. CASE e.kind = "failed"
      BY <1>0, <1>2, <3>1, ReceivedRecord
    <3>2. CASE e.kind # "failed"
      <4>1. rec'[j].observation_failed = rec[j].observation_failed
        BY <1>0, <1>2, <3>2, ReceivedRecord
      <4>2. QED
        BY <1>2, <4>1
    <3>3. QED
      BY <3>1, <3>2
  <2>2. QED
    BY <1>2, <2>1 DEF Live, Failed, FailedNext
<1>3. CASE j = e.job /\ j \in table /\ ~rec[j].observation_failed
  <2>1. rec[j].completion # "none"
    BY <1>3 DEF Live, Failed
  <2>2. AllCompleted(rec[j].job)
    BY <1>3, <2>1 DEF Inv, TableInv, GoodRecord, PublishedJob
  <2>3. e \in ObservationType /\ rec[j].job.members[e.member] \in {"running", "stopped"}
    BY <1>0, <1>3, HeadAccepted
  <2>4. QED
    BY <2>2, <2>3 DEF AllCompleted, ObservationType
<1>4. QED
  BY <1>1, <1>2, <1>3

(* So what was said of the failures stays true while observations arrive.  *)
LEMMA ReceivesSticks ==
  ASSUME Inv, World, Receives
  PROVE  Sticks
  BY ReceivesSettles DEF Sticks

(* A live job the session signals was not named, and is if the signal      *)
(* could not be delivered.                                                 *)
LEMMA QuarantineFailures ==
  ASSUME Inv, FailuresInv, NEW j \in JobIds, Quarantines(j),
         call'.failures = FailuresAfterSignal(j), call'.held = call.held,
         call'.pc \in Ending \ Returned
  PROVE  FailuresInv'
<1>1. /\ j \in table /\ Live(rec[j]) /\ table' = table /\ table \subseteq JobIds
      /\ \A i \in JobIds : i # j => rec'[i] = rec[i]
      /\ rec'[j].completion = rec[j].completion
      /\ rec'[j].observation_failed = (~GroupExists(j) \/ rec[j].observation_failed)
      /\ rec[j].completion = "none" /\ ~rec[j].observation_failed
  BY DEF Quarantines, Inv, TableInv, TableTypeOK, Live
<1>2. call.failures \in Seq(FailureType) /\ call.held \in Seq(FailureType)
  BY DEF Inv, SessionTypeOK, CallType
<1>3. ~Failed(j)
  BY <1>1 DEF Failed
<1>4. Sticks
  BY <1>1, <1>3 DEF Sticks, Failed, FailedNext
<1>5. SoundNext(call.failures) /\ SoundNext(call.held)
  BY <1>2, <1>4, SoundKept DEF FailuresInv
<1>6. CASE GroupExists(j)
  <2>1. call'.failures = call.failures
    BY <1>6 DEF FailuresAfterSignal
  <2>2. QED
    BY <1>5, <2>1, FailuresBusy
<1>7. CASE ~GroupExists(j)
  <2> DEFINE f == Failure(j, "signal")
  <2>1. call'.failures = Append(call.failures, f)
    BY <1>7 DEF FailuresAfterSignal
  <2>2. f \in FailureType /\ f.job = j /\ f.reason = "signal"
    BY DEF Failure, FailureType, Reasons
  <2> HIDE DEF f
  <2>3. TruthfulNext(f)
    BY <1>1, <1>7, <2>2 DEF TruthfulNext, FailedNext
  <2>4. j \notin JobsIn(call.failures)
    BY <1>3 DEF FailuresInv, ListSound, Truthful, JobsIn
  <2>5. SoundNext(call'.failures)
    BY <1>2, <1>5, <2>1, <2>2, <2>3, <2>4, SoundGrows
  <2>6. QED
    BY <1>5, <2>5, FailuresBusy
<1>8. QED
  BY <1>6, <1>7

(* The entry the merge takes for a job is one of the two lists' own.       *)
LEMMA MergedEntry ==
  ASSUME NEW j \in JobsIn(call.held) \cup JobsIn(call.failures),
         ListSound(call.held), ListSound(call.failures)
  PROVE  Truthful(FirstEntry(j)) /\ FirstEntry(j).job = j
<1>1. ASSUME NEW list, j \in JobsIn(list), ListSound(list)
      PROVE  Truthful(EntryOf(list, j)) /\ EntryOf(list, j).job = j
  <2>1. \E i \in DOMAIN list : list[i].job = j
    BY <1>1 DEF JobsIn
  <2> DEFINE i == CHOOSE x \in DOMAIN list : list[x].job = j
  <2>2. i \in DOMAIN list /\ list[i].job = j
    BY <2>1
  <2>3. EntryOf(list, j) = list[i]
    BY DEF EntryOf
  <2> HIDE DEF i
  <2>4. QED
    BY <1>1, <2>2, <2>3 DEF ListSound
<1>2. QED
  BY <1>1 DEF FirstEntry

(* hang_up_all returns the merged list: every failing record in identity   *)
(* order, and none twice although both phases may have named it.           *)
LEMMA HangUpReturnFailures ==
  ASSUME Inv, FailuresInv, HangUpReturn
  PROVE  FailuresInv'
<1>t. call \in CallType /\ table \subseteq JobIds
  BY DEF Inv, SessionTypeOK, TableInv, TableTypeOK
<1>1. /\ LiveJobs = {} /\ Uncollected = {} /\ UNCHANGED <<table, rec>>
      /\ ListSound(call.held) /\ ListSound(call.failures)
  BY DEF HangUpReturn, tableVars, FailuresInv
<1>2. PICK order \in TargetLists :
        /\ InOrder(order, JobsIn(call.held) \cup JobsIn(call.failures))
        /\ call' = [call EXCEPT !.pc = "drainNotices", !.held = <<>>,
                      !.failures = [i \in DOMAIN order |-> FirstEntry(order[i])]]
  BY DEF HangUpReturn
<1> DEFINE fs == [i \in DOMAIN order |-> FirstEntry(order[i])]
<1>3. call'.pc = "drainNotices" /\ call'.held = <<>> /\ call'.failures = fs
  BY <1>t, <1>2 DEF CallType
<1>4. DOMAIN fs = DOMAIN order /\ \A i \in DOMAIN order : fs[i] = FirstEntry(order[i])
  OBVIOUS
<1> HIDE DEF fs
<1>5. /\ ElementsOf(order) = JobsIn(call.held) \cup JobsIn(call.failures)
      /\ \A i, k \in DOMAIN order : i < k => order[i] < order[k]
      /\ \A i, k \in DOMAIN order : order[i] = order[k] => i = k
  BY <1>2 DEF InOrder, TargetLists
<1>6. ASSUME NEW i \in DOMAIN order PROVE Truthful(fs[i]) /\ fs[i].job = order[i]
  <2>1. order[i] \in JobsIn(call.held) \cup JobsIn(call.failures)
    BY <1>5 DEF ElementsOf
  <2>2. QED
    BY <1>1, <1>4, <2>1, MergedEntry
<1>7. SoundNext(fs)
  <2>1. ASSUME NEW i \in DOMAIN fs PROVE TruthfulNext(fs[i])
    <3>1. Truthful(fs[i])
      BY <1>4, <1>6, <2>1
    <3>2. rec' = rec
      BY <1>1
    <3>3. QED
      BY <3>1, <3>2 DEF Truthful, TruthfulNext, Failed, FailedNext
  <2>2. \A i, k \in DOMAIN fs : fs[i].job = fs[k].job => i = k
    BY <1>4, <1>5, <1>6
  <2>3. QED
    BY <2>1, <2>2 DEF SoundNext
<1>8. SoundNext(<<>>)
  BY DEF SoundNext
<1>9. ASSUME NEW j \in table', FailedNext(j) PROVE j \in JobsIn(fs)
  <2>1. Failed(j) /\ j \in table
    BY <1>1, <1>9 DEF Failed, FailedNext
  <2>2. Reported(j)
    BY <1>1, <2>1 DEF Uncollected
  <2>3. j \in JobsIn(call.failures)
    BY <2>2 DEF Reported, JobsIn
  <2>4. PICK i \in DOMAIN order : order[i] = j
    BY <1>5, <2>3 DEF ElementsOf
  <2>5. QED
    BY <1>4, <1>6, <2>4 DEF JobsIn
<1>10. \A j \in table' : ~Live(rec'[j])
  BY <1>1 DEF LiveJobs
<1>11. \A i, k \in DOMAIN fs : i < k => fs[i].job < fs[k].job
  BY <1>4, <1>5, <1>6
<1>12. QED
  BY <1>3, <1>7, <1>8, <1>9, <1>10, <1>11, FailuresReturned DEF Returned

(* The failures of an ending session. *)
LEMMA FailuresStep ==
  ASSUME Inv, World, CallInv, FailuresInv, [Next]_vars
  PROVE  FailuresInv'
<1>t. /\ call \in CallType /\ table \subseteq JobIds
      /\ call.failures \in Seq(FailureType) /\ call.held \in Seq(FailureType)
  BY DEF Inv, SessionTypeOK, TableInv, TableTypeOK, CallType
<1>n. ASSUME call.pc \notin Ending PROVE call.failures = <<>> /\ call.held = <<>>
  BY <1>n DEF FailuresInv
<1>s. ASSUME Sticks PROVE SoundNext(call.failures) /\ SoundNext(call.held)
  BY <1>t, <1>s, SoundKept DEF FailuresInv
<1>q. ASSUME UNCHANGED <<table, rec>> PROVE Steady
  BY <1>q DEF Steady
<1>r. ASSUME call.pc \in Returned, call'.pc \in Returned, Sticks, table' \subseteq table,
             call'.failures = call.failures, call'.held = call.held, call'.op = call.op,
             \A j \in table' : ~Live(rec[j]) =>
                                 ~Live(rec'[j]) /\ (FailedNext(j) => Failed(j))
      PROVE  FailuresInv'
  <2>1. \A j \in table' : ~Live(rec[j]) /\ (Failed(j) => j \in JobsIn(call.failures))
    BY <1>r DEF FailuresInv, Reported, JobsIn
  <2>2. \A j \in table' : ~Live(rec'[j]) /\ (FailedNext(j) => j \in JobsIn(call'.failures))
    BY <1>r, <2>1
  <2>3. SoundNext(call'.failures) /\ SoundNext(call'.held)
    BY <1>r, <1>s
  <2>4. call'.op = "hangup" => \A i, k \in DOMAIN call'.failures :
          i < k => call'.failures[i].job < call'.failures[k].job
    BY <1>r DEF FailuresInv
  <2>5. QED
    BY <1>r, <2>2, <2>3, <2>4, FailuresReturned
<1>0. ASSUME Steady, call' = call PROVE FailuresInv'
  <2>1. Sticks
    BY <1>t, <1>0, SteadyKeeps
  <2>2. CASE call.pc \notin Ending
    BY <1>0, <1>n, <2>2, FailuresNone DEF Ending, Returned
  <2>3. CASE call.pc \in Ending \ Returned
    BY <1>0, <1>s, <2>1, <2>3, FailuresBusy
  <2>4. CASE call.pc \in Returned
    <3>1. \A j \in table' : /\ j \in table
                            /\ ~Live(rec[j]) => ~Live(rec'[j]) /\ (FailedNext(j) => Failed(j))
      BY <1>t, <1>0, SteadyKeeps
    <3>2. QED
      BY <1>0, <1>r, <2>1, <2>4, <3>1
  <2>5. QED
    BY <2>2, <2>3, <2>4
<1>1. CASE UNCHANGED vars \/ Ended \/ Host \/ Observer
  <2>1. UNCHANGED <<table, rec, call>>
    BY <1>1 DEF vars, Ended, Host, HostStop, HostContinue, HostExit, Observer,
                ObserveTransition, ObserveExit, ObserveFailure, tableVars
  <2>2. QED
    BY <1>0, <1>q, <2>1
<1>2. CASE Command
  <2>0. call.pc = "idle"
    BY <1>2 DEF Command, Start, StartForeground, StartFails, NextNotice, Acknowledge, CallJobs,
                CallForeground, CallSignal, CallWait, CallEnd, At
  <2>1. call.failures = <<>> /\ call.held = <<>>
    BY <1>n, <2>0 DEF Ending
  <2>2. /\ call'.failures = call.failures /\ call'.held = call.held
        /\ call'.pc \in {"idle", "foreground", "fail", "drain", "resume"}
    <3>1. CASE \/ (\E ms \in Pipelines : Start(ms)) \/ StartFails \/ NextNotice
               \/ \E n \in notices : Acknowledge(n)
      <4>1. call' = call \/ call' = [call EXCEPT !.pc = "fail"]
        BY <3>1 DEF Start, StartFails, NextNotice, Acknowledge
      <4>2. QED
        BY <1>t, <2>0, <4>1 DEF CallType
    <3>2. CASE (\E ms \in Pipelines : StartForeground(ms))
               \/ \E op \in {"join", "hangup"} : CallEnd(op)
      BY <1>t, <3>2 DEF StartForeground, CallEnd, CallType
    <3>3. CASE \/ CallJobs
               \/ \E j \in JobIds : CallForeground(j)
               \/ \E next \in {"bg", "kill"}, j \in JobIds,
                  s \in JobSignals : CallSignal(next, j, s)
               \/ \E targets \in TargetLists : CallWait(targets)
      <4>1. ASSUME NEW next PROVE Draining(next) = [call EXCEPT !.pc = "drain", !.next = next]
        BY DEF Draining
      <4>2. QED
        BY <1>t, <3>3, <4>1 DEF CallJobs, CallForeground, CallSignal, CallWait, CallType
    <3>4. QED
      BY <1>2, <3>1, <3>2, <3>3 DEF Command
  <2>3. QED
    BY <2>1, <2>2, FailuresNone DEF Returned
<1>3. CASE Progress
  <2>1. CASE DrainOne \/ ForegroundReceive
    <3>1. call.pc \in {"drain", "foreground"} /\ call' = call
      BY <2>1 DEF DrainOne, ForegroundReceive, At
    <3>2. QED
      BY <1>n, <3>1, FailuresNone DEF Ending, Returned
  <2>2. CASE ForegroundRefused \/ SignalDone \/ SignalRefused \/ DropGuard
             \/ WaitRefused \/ WaitLost \/ WaitConsume
    <3>1. call' = Idle
      BY <2>2 DEF ForegroundRefused, SignalDone, SignalRefused, DropGuard, WaitRefused,
                  WaitLost, WaitConsume, Return
    <3>2. QED
      BY <3>1, FailuresNone, IdleIs DEF Returned
  <2>3. CASE DrainEnd
    <3>1. call.pc = "drain" /\ call' = [call EXCEPT !.pc = call.next]
      BY <2>3 DEF DrainEnd, At
    <3>2. call'.pc = call.next /\ call'.failures = call.failures /\ call'.held = call.held
      BY <1>t, <3>1 DEF CallType
    <3>3. call.next \notin Ending
      BY <3>1 DEF CallInv, At
    <3>4. QED
      BY <1>n, <3>1, <3>2, <3>3, FailuresNone DEF Ending, Returned
  <2>4. CASE \/ TakeTerminal \/ ForegroundEnter \/ ForegroundFails \/ ForegroundReturn
             \/ RestoreTerminal
    <3>1. call.pc \in {"fg", "entered", "foreground", "restore"}
      BY <2>4 DEF TakeTerminal, ForegroundEnter, ForegroundFails, ForegroundReturn,
                  RestoreTerminal, At
    <3>2. \/ call' = Idle
          \/ \E pc \in {"entered", "foreground", "restore", "fail"} :
               call' = [call EXCEPT !.pc = pc]
      BY <2>4 DEF TakeTerminal, ForegroundEnter, ForegroundFails, ForegroundReturn,
                  RestoreTerminal, Return
    <3>3. call.failures = <<>> /\ call.held = <<>>
      BY <1>n, <3>1 DEF Ending
    <3>4. /\ call'.pc \in {"idle", "entered", "foreground", "restore", "fail"}
          /\ call'.failures = <<>> /\ call'.held = <<>>
      BY <1>t, <3>2, <3>3, IdleIs DEF CallType
    <3>5. QED
      BY <3>4, FailuresNone DEF Returned
  <2>5. CASE WaitSelect \/ WaitResume \/ WaitSignal \/ WaitSignalRefused \/ WaitReceive
    <3>1. call.failures = <<>> /\ call.held = <<>>
      BY <1>n, <2>5 DEF WaitSelect, WaitResume, WaitSignal, WaitSignalRefused, WaitReceive, At,
         Ending
    <3>2. /\ NextTarget \in CallType /\ NextTarget.failures = call.failures
          /\ NextTarget.held = call.held /\ NextTarget.pc \in {"waitCheck", "drain"}
      BY <1>t, NextTargetIs
    <3>3. ASSUME NEW next \in Labels
          PROVE  /\ Draining(next) \in CallType /\ Draining(next).pc = "drain"
                 /\ Draining(next).failures = call.failures /\ Draining(next).held = call.held
      BY <1>t, DrainingIs, DrainingTyped
    <3>4. call'.failures = <<>> /\ call'.held = <<>> /\ call'.pc \in {"idle", "waitCheck", "drain"}
      <4>1. CASE WaitSelect
        <5> DEFINE d == Draining("waitResume")
        <5>1. d \in CallType /\ d.pc = "drain" /\ d.failures = <<>> /\ d.held = <<>>
          BY <3>1, <3>3 DEF Labels
        <5>2. call' = d \/ \E all \in TargetLists : call' = [d EXCEPT !.selected = all]
          BY <4>1 DEF WaitSelect
        <5> HIDE DEF d
        <5>3. QED
          BY <5>1, <5>2 DEF CallType
      <4>2. CASE WaitResume
        <5> DEFINE d == Draining("waitSignal")
        <5>1. d \in CallType /\ d.pc = "drain" /\ d.failures = <<>> /\ d.held = <<>>
          BY <3>1, <3>3 DEF Labels
        <5>2. \/ call' = Idle \/ call' = NextTarget
              \/ call' = [d EXCEPT !.stopped = StoppedMembers(Target)]
          BY <4>2 DEF WaitResume, Return
        <5> HIDE DEF d
        <5>3. CASE call' = [d EXCEPT !.stopped = StoppedMembers(Target)]
          BY <5>1, <5>3 DEF CallType
        <5>4. QED
          BY <3>1, <3>2, <5>2, <5>3, IdleIs
      <4>3. CASE WaitSignal
        <5> DEFINE f == [NextTarget.resumes EXCEPT ![Target] =
                           [m \in Members |-> IF m \in call.stopped THEN @[m] + 1 ELSE @[m]]]
        <5>1. call' = [NextTarget EXCEPT !.resumes = f]
          BY <4>3 DEF WaitSignal
        <5> HIDE DEF f
        <5>2. QED
          BY <3>1, <3>2, <5>1 DEF CallType
      <4>4. CASE WaitSignalRefused
        BY <3>1, <3>2, <4>4, IdleIs DEF WaitSignalRefused, Return
      <4>5. CASE WaitReceive
        BY <3>1, <3>3, <4>5 DEF WaitReceive, Labels
      <4>6. QED
        BY <2>5, <4>1, <4>2, <4>3, <4>4, <4>5
    <3>5. QED
      BY <3>4, FailuresNone DEF Returned
  <2>6. CASE ResumeOne
    <3>1. PICK j \in JobIds : Quarantines(j)
          /\ call' = [call EXCEPT !.failures = FailuresAfterSignal(j)]
      BY <2>6, ResumeOneKind
    <3>2. /\ call'.failures = FailuresAfterSignal(j) /\ call'.held = call.held
          /\ call'.pc = "resume"
      BY <1>t, <2>6, <3>1 DEF CallType, ResumeOne, At
    <3>3. QED
      BY <3>1, <3>2, QuarantineFailures DEF Ending, Returned
  <2>7. CASE HangUpOne
    <3>1. PICK j \in JobIds : /\ Quarantines(j)
                              /\ call' = [call EXCEPT !.failures = FailuresAfterSignal(j),
                                 !.idx = j + 1]
      BY <2>7, HangUpOneKind
    <3>2. /\ call'.failures = FailuresAfterSignal(j) /\ call'.held = call.held
          /\ call'.pc = "hangup"
      BY <1>t, <2>7, <3>1 DEF CallType, HangUpOne, At
    <3>3. QED
      BY <3>1, <3>2, QuarantineFailures DEF Ending, Returned
  <2>8. CASE ResumeEnd
    <3>1. /\ call.pc = "resume" /\ call'.pc = call.next /\ call'.failures = call.failures
          /\ call'.held = call.held /\ UNCHANGED <<table, rec>>
      BY <1>t, <2>8 DEF ResumeEnd, CallType, At, tableVars
    <3>2. call.next \in {"hangup", "quiesce"}
      BY <3>1 DEF CallInv
    <3>3. Sticks
      BY <1>t, <1>q, <3>1, SteadyKeeps
    <3>4. QED
      BY <1>s, <3>1, <3>2, <3>3, FailuresBusy DEF Ending, Returned
  <2>9. CASE HangUpEnd
    <3>1. /\ call'.pc = "resume" /\ call'.failures = <<>> /\ call'.held = call.failures
          /\ UNCHANGED <<table, rec>>
      BY <1>t, <2>9 DEF HangUpEnd, CallType, tableVars
    <3>2. Sticks
      BY <1>t, <1>q, <3>1, SteadyKeeps
    <3>3. SoundNext(<<>>)
      BY DEF SoundNext
    <3>4. QED
      BY <1>s, <3>1, <3>2, <3>3, FailuresBusy DEF Ending, Returned
  <2>10. CASE QuiesceReceive
    <3>1. /\ Receives /\ call'.pc = "resume" /\ call'.failures = call.failures
          /\ call'.held = call.held
      BY <1>t, <2>10 DEF QuiesceReceive, Receives, CallType
    <3>2. QED
      BY <1>s, <3>1, ReceivesSticks, FailuresBusy DEF Ending, Returned
  <2>11. CASE CollectOne
    <3>1. PICK j \in Uncollected :
            call' = [call EXCEPT !.failures = Append(@, Failure(j,
                       IF rec[j].observation_failed THEN "observation" ELSE "exited"))]
      BY <2>11 DEF CollectOne
    <3>2. call.pc = "quiesce" /\ UNCHANGED <<table, rec>>
      BY <2>11 DEF CollectOne, At, tableVars
    <3> DEFINE f == Failure(j, IF rec[j].observation_failed THEN "observation" ELSE "exited")
    <3>3. /\ f \in FailureType /\ f.job = j /\ Failed(j) /\ ~Reported(j)
          /\ f.reason = "exited" <=> ~rec[j].observation_failed
      BY <1>t DEF Failure, FailureType, Reasons, Uncollected
    <3> HIDE DEF f
    <3>4. /\ call'.failures = Append(call.failures, f) /\ call'.held = call.held
          /\ call'.pc = "quiesce"
      BY <1>t, <3>1, <3>2 DEF CallType, f
    <3>5. Sticks
      BY <1>t, <1>q, <3>2, SteadyKeeps
    <3>6. TruthfulNext(f)
      BY <3>2, <3>3 DEF TruthfulNext, FailedNext, Failed
    <3>7. f.job \notin JobsIn(call.failures)
      BY <3>3 DEF Reported, JobsIn
    <3>8. SoundNext(call'.failures) /\ SoundNext(call'.held)
      BY <1>s, <1>t, <3>3, <3>4, <3>5, <3>6, <3>7, SoundGrows
    <3>9. QED
      BY <3>4, <3>8, FailuresBusy DEF Ending, Returned
  <2>12. CASE CollectEnd
    <3>1. /\ call' = [call EXCEPT !.pc = "drainNotices"] /\ LiveJobs = {} /\ Uncollected = {}
          /\ call.op # "hangup" /\ UNCHANGED <<table, rec>>
      BY <2>12 DEF CollectEnd, tableVars
    <3>2. /\ call'.pc = "drainNotices" /\ call'.failures = call.failures
          /\ call'.held = call.held /\ call'.op = call.op
      BY <1>t, <3>1 DEF CallType
    <3>3. Sticks
      BY <1>t, <1>q, <3>1, SteadyKeeps
    <3>4. \A j \in table' : ~Live(rec'[j])
      BY <3>1 DEF LiveJobs
    <3>5. \A j \in table' : FailedNext(j) => j \in JobsIn(call'.failures)
      BY <3>1, <3>2 DEF Uncollected, Failed, FailedNext, Reported, JobsIn
    <3>6. QED
      BY <1>s, <3>1, <3>2, <3>3, <3>4, <3>5, FailuresReturned DEF Returned
  <2>13. CASE \E n \in notices : DrainNotice(n)
    <3>1. PICK n \in notices : DrainNotice(n)
      BY <2>13
    <3>2. Steady /\ call' = call
      BY <3>1, AcknowledgedKind DEF DrainNotice
    <3>3. QED
      BY <1>0, <3>2
  <2>14. CASE DrainReceive
    <3>1. Receives /\ call' = call /\ call.pc = "drainNotices"
      BY <2>14 DEF DrainReceive, Receives, At
    <3>2. table' = table
      BY <3>1 DEF Receives, Receive, Apply, tableVars
    <3>3. \A j \in table' : ~Live(rec[j]) => ~Live(rec'[j]) /\ (FailedNext(j) => Failed(j))
      BY <1>t, <3>1, <3>2, ReceivesSettles
    <3>4. QED
      BY <1>r, <3>1, <3>2, <3>3, ReceivesSticks DEF Returned
  <2>15. CASE EndSession
    <3>1. /\ call.pc = "drainNotices" /\ call'.pc = "ended" /\ call'.failures = call.failures
          /\ call'.held = call.held /\ call'.op = call.op /\ UNCHANGED <<table, rec>>
      BY <1>t, <2>15 DEF EndSession, At, CallType, tableVars
    <3>2. Sticks
      BY <1>t, <1>q, <3>1, SteadyKeeps
    <3>3. \A j \in table' : ~Live(rec[j]) => ~Live(rec'[j]) /\ (FailedNext(j) => Failed(j))
      BY <3>1 DEF Failed, FailedNext
    <3>4. QED
      BY <1>r, <3>1, <3>2, <3>3 DEF Returned
  <2>16. CASE HangUpReturn
    BY <2>16, HangUpReturnFailures
  <2>17. QED
    BY <1>3, <2>1, <2>2, <2>3, <2>4, <2>5, <2>6, <2>7, <2>8, <2>9, <2>10, <2>11, <2>12, <2>13,
       <2>14, <2>15, <2>16 DEF Progress
<1>4. QED
  BY <1>1, <1>2, <1>3 DEF Next

-----------------------------------------------------------------------------
(* The theorems.                                                           *)

(* Initially there is no process, no record and nothing under way.         *)
LEMMA InitReality ==
  ASSUME Init
  PROVE  Reality
<1>1. /\ table = {} /\ notices = {} /\ events = <<>> /\ call = Idle /\ nextJob = 1
      /\ rec = [j \in JobIds |-> NewRecord]
      /\ os = [j \in JobIds |-> [m \in Members |-> "none"]]
      /\ report = [j \in JobIds |-> [m \in Members |-> "none"]]
      /\ code = [j \in JobIds |-> [m \in Members |-> "none"]]
      /\ obs = [j \in JobIds |-> [m \in Members |-> "none"]]
  BY DEF Init
<1>2. ProcInv
  BY <1>1 DEF ProcInv, ProcessSound, Alive
<1>3. ChannelInv
  BY <1>1 DEF ChannelInv
<1>4. MemberInv /\ ConvInv /\ NoticeInv
  BY <1>1 DEF MemberInv, ConvInv, NoticeInv
<1>5. OutcomeInv
  BY <1>1 DEF OutcomeInv, NewRecord
<1>6. CallInv
  BY <1>1, IdleIs DEF CallInv, At, Waiting
<1>7. FailuresInv
  BY <1>1, IdleIs DEF FailuresInv, ListSound, Returned
<1>8. QED
  BY <1>2, <1>3, <1>4, <1>5, <1>6, <1>7 DEF Reality

(* The job table and what it is about stay consistent, at every step of    *)
(* the session, the observer threads, the host and the children, for any   *)
(* number of jobs and members.                                             *)
THEOREM RealityKept == Spec => [](Inv /\ Reality)
<1>1. Init => Reality
  BY InitReality
<1>2. Inv /\ Reality /\ [Next]_vars => Reality'
  <2> SUFFICES ASSUME Inv, Reality, [Next]_vars PROVE Reality'
    OBVIOUS
  <2>1. World /\ NoticeInv /\ CallInv /\ FailuresInv
    BY DEF Reality, World
  <2>2. Kind
    BY <2>1, StepKind
  <2>3. World'
    BY <2>1, <2>2, WorldStep
  <2>4. NoticeInv'
    BY <2>1, <2>2, NoticeStep
  <2>5. CallInv'
    BY <2>1, CallStep
  <2>6. FailuresInv'
    BY <2>1, FailuresStep
  <2>7. QED
    BY <2>3, <2>4, <2>5, <2>6 DEF Reality, World
<1>3. QED
  BY <1>1, <1>2, Invariance, PTL DEF Spec

(* A nonempty set of positions has a last one. *)
LEMMA LastPosition ==
  ASSUME NEW n \in Nat, NEW T, T \subseteq 1..n, T # {}
  PROVE  \E i \in T : \A k \in T : k <= i
<1> DEFINE D == {n - i : i \in T}
<1>0. \A i \in T : i \in Nat /\ i <= n /\ n - i \in Nat
  OBVIOUS
<1>1. D \subseteq Nat /\ D # {}
  BY <1>0
<1>2. PICK d \in D : \A c \in D : ~(<<c, d>> \in OpToRel(<, Nat))
  <2> HIDE DEF D
  <2>1. QED
    BY <1>1, NatLessThanWellFounded, WFMin
<1>3. \A c \in D : ~(c < d)
  BY <1>1, <1>2 DEF OpToRel
<1>4. PICK i \in T : d = n - i
  BY <1>2
<1>5. ASSUME NEW k \in T PROVE k <= i
  <2>1. n - k \in D /\ ~(n - k < n - i)
    BY <1>3, <1>4
  <2>2. k \in Nat /\ i \in Nat
    BY <1>0
  <2>3. ~(k > i)
    BY <2>1, <2>2
  <2>4. QED
    BY <2>2, <2>3
<1>6. QED
  BY <1>5

(* With the invariant, the record and the observations under way add up to *)
(* what each process is doing.                                             *)
LEMMA Converges == Inv /\ Reality => TableConverges
<1> SUFFICES ASSUME Inv, Reality, NEW j \in table, NEW m \in Members
             PROVE  /\ os[j][m] = "running" => View(j, m) \in {"running", "continued"}
                    /\ os[j][m] = "stopped" => View(j, m) = "stopped"
                    /\ os[j][m] = "gone" => View(j, m) \in {"completed", "failed"}
  BY DEF TableConverges
<1>1. /\ ProcessSound(j, m) /\ MemberSound(j, m) /\ Converging(j, m)
      /\ report[j][m] \in {"none", "stopped", "continued"}
      /\ events \in Seq(ObservationType)
  BY DEF Reality, ProcInv, MemberInv, ConvInv, Inv, TableInv, TableTypeOK, HostTypeOK
<1>2. CASE report[j][m] # "none"
  <2>1. View(j, m) = report[j][m]
    BY <1>2 DEF View
  <2>2. QED
    BY <1>1, <1>2, <2>1 DEF ProcessSound
<1>3. CASE report[j][m] = "none" /\ EventsOf(j, m) = {}
  <2>1. View(j, m) = rec[j].job.members[m]
    BY <1>3 DEF View
  <2>2. QED
    BY <1>1, <1>3, <2>1 DEF Converging, MemberSound, Agrees, Alive
<1>4. CASE report[j][m] = "none" /\ EventsOf(j, m) # {}
  <2> DEFINE seen == EventsOf(j, m)
             last == CHOOSE i \in seen : \A k \in seen : k <= i
  <2>1. seen \subseteq 1..Len(events) /\ Len(events) \in Nat
    BY <1>1 DEF EventsOf
  <2>2. \E i \in seen : \A k \in seen : k <= i
    <3> HIDE DEF seen
    <3>1. seen # {}
      BY <1>4 DEF seen
    <3>2. QED
      BY <2>1, <3>1, LastPosition
  <2>3. last \in seen /\ \A k \in seen : k <= last
    BY <2>2
  <2>4. View(j, m) = events[last].kind
    BY <1>4 DEF View
  <2> HIDE DEF last
  <2>5. Newest(last, j, m) /\ last \in DOMAIN events /\ last \in Nat
    BY <1>1, <2>3 DEF Newest, EventsOf
  <2>6. Alive(os[j][m]) => Agrees(events[last].kind, os[j][m])
    BY <1>1, <1>4, <2>5 DEF Converging
  <2>7. ASSUME os[j][m] = "gone" PROVE events[last].kind = "completed"
    <3>1. PICK i \in seen : events[i].kind = "completed"
      BY <1>1, <1>4, <2>7 DEF MemberSound
    <3>2. i \in DOMAIN events /\ i <= last /\ i \in Nat
          /\ events[i].job = events[last].job /\ events[i].member = events[last].member
      BY <1>1, <2>3, <3>1 DEF EventsOf
    <3>3. ~(i < last)
      BY <2>5, <3>1, <3>2 DEF Reality, ChannelInv, Terminal
    <3>4. i = last
      BY <2>5, <3>2, <3>3
    <3>5. QED
      BY <3>1, <3>4
  <2>8. QED
    BY <2>4, <2>6, <2>7 DEF Agrees, Alive
<1>5. QED
  BY <1>2, <1>3, <1>4

(* TableConverges: what the table shows of a member, corrected by the      *)
(* observations still under way, is what its process is doing, after any   *)
(* interleaving of stops, continuations, exits and the session's           *)
(* continue_in (apply_observation).                                        *)
THEOREM ConvergenceSound == Spec => []TableConverges
  BY Converges, RealityKept, PTL

(* With the invariant, a published completion is what the processes exited *)
(* with.                                                                   *)
LEMMA Real == Inv /\ Reality => CompletionIsReal
<1> SUFFICES ASSUME Inv, Reality, NEW j \in table, rec[j].completion # "none"
             PROVE  LET stages == {m \in Members : os[j][m] # "none"} IN
                    /\ \A m \in stages : os[j][m] = "gone" /\ obs[j][m] = "done"
                    /\ rec[j].completion = IF \E m \in stages :
                                                /\ code[j][m] = "err"
                                                /\ PipeFail \/ \A k \in stages : k <= m
                                           THEN "err" ELSE "ok"
  BY DEF CompletionIsReal
<1> DEFINE stages == {m \in Members : os[j][m] # "none"}
<1>0. j \in JobIds
  BY DEF Inv, TableInv, TableTypeOK
<1>1. \A m \in Members : ProcessSound(j, m) /\ MemberSound(j, m)
  BY <1>0 DEF Reality, ProcInv, MemberInv
<1>2. AllCompleted(rec[j].job)
  BY DEF Inv, TableInv, GoodRecord, PublishedJob
<1>3. \A m \in stages : os[j][m] = "gone" /\ obs[j][m] = "done" /\ rec[j].status[m] = code[j][m]
  BY <1>1, <1>2 DEF AllCompleted, MemberSound, ProcessSound
<1>4. stages = {m \in Members : rec[j].job.members[m] # "absent"}
  BY <1>1 DEF MemberSound
<1>5. rec[j].completion = Aggregate(rec[j])
  BY DEF Reality, OutcomeInv
<1> HIDE DEF stages
<1>6. Aggregate(rec[j]) = IF \E m \in stages : /\ rec[j].status[m] = "err"
                                               /\ PipeFail \/ \A k \in stages : k <= m
                          THEN "err" ELSE "ok"
  BY <1>4 DEF Aggregate
<1>7. (\E m \in stages : rec[j].status[m] = "err" /\ (PipeFail \/ \A k \in stages : k <= m))
        <=> (\E m \in stages : code[j][m] = "err" /\ (PipeFail \/ \A k \in stages : k <= m))
  BY <1>3
<1>8. rec[j].completion = IF \E m \in stages : /\ code[j][m] = "err"
                                               /\ PipeFail \/ \A k \in stages : k <= m
                          THEN "err" ELSE "ok"
  BY <1>5, <1>6, <1>7
<1>9. QED
  BY <1>3, <1>8 DEF stages

(* CompletionIsReal: a job is published as completed only when every       *)
(* process of its pipeline was reaped, and its outcome is the aggregate of *)
(* their true exit statuses.                                               *)
THEOREM CompletionsReal == Spec => []CompletionIsReal
  BY Real, RealityKept, PTL

(* NoticesAddressable: every queued notice is about a record of the table, *)
(* so acknowledge never meets a job it does not know.                      *)
THEOREM NoticesReachable == Spec => []NoticesAddressable
<1>1. Inv /\ Reality => NoticesAddressable
  BY DEF Reality, NoticeInv, NoticesAddressable
<1>2. QED
  BY <1>1, RealityKept, PTL

(* JoinReportsEveryFailure: what join_background_jobs and                  *)
(* hang_up_background_jobs return names exactly the jobs that failed or    *)
(* were abandoned, each once and with the reason its record shows; the     *)
(* list the hang-up merges from two is in identity order.                  *)
THEOREM JoinHonest == Spec => []JoinReportsEveryFailure
<1>1. Inv /\ Reality => JoinReportsEveryFailure
  <2> SUFFICES ASSUME Inv, Reality, call.pc \in Returned
               PROVE  /\ \A j \in table : Failed(j) => Reported(j)
                      /\ \A i \in DOMAIN call.failures : Truthful(call.failures[i])
                      /\ \A i, k \in DOMAIN call.failures :
                           i < k => /\ call.failures[i].job # call.failures[k].job
                                    /\ call.op = "hangup" =>
                                         call.failures[i].job < call.failures[k].job
    BY DEF JoinReportsEveryFailure, Returned
  <2>1. FailuresInv /\ call.failures \in Seq(FailureType)
    BY DEF Reality, Inv, SessionTypeOK, CallType
  <2>2. \A i \in DOMAIN call.failures : i \in Nat
    BY <2>1
  <2>3. QED
    BY <2>1, <2>2 DEF FailuresInv, ListSound
<1>2. QED
  BY <1>1, RealityKept, PTL

-----------------------------------------------------------------------------
(* The ledger.                                                             *)

(* The ledger's view of the state. *)
LifeOf == [j \in JobIds |-> Life(j)]

WidthOf == [j \in JobIds |-> {m \in Members : os[j][m] # "none"}]

OutcomeOf == [j \in JobIds |-> rec[j].completion]

(* Some living processes of one group exit together. *)
ExitTogether ==
  \E j \in JobIds, ms \in SUBSET Members, s \in Status :
    /\ \A m \in ms : Alive(os[j][m])
    /\ code' = [code EXCEPT ![j] = [m \in Members |-> IF m \in ms THEN s ELSE code[j][m]]]

(* One process exits. *)
LEMMA OneExits ==
  ASSUME HostTypeOK, NEW j \in JobIds, NEW m \in Members, NEW s \in Status, Alive(os[j][m]),
         code' = [code EXCEPT ![j][m] = s]
  PROVE  ExitTogether
<1>1. code \in [JobIds -> [Members -> Status \cup {"none"}]]
  BY DEF HostTypeOK
<1>2. PICK ms \in SUBSET Members : ms = {m}
  OBVIOUS
<1>3. [code[j] EXCEPT ![m] = s] = [k \in Members |-> IF k \in ms THEN s ELSE code[j][k]]
  BY <1>1, <1>2
<1>4. code' = [code EXCEPT ![j] = [k \in Members |-> IF k \in ms THEN s ELSE code[j][k]]]
  BY <1>1, <1>3
<1>5. \A k \in ms : Alive(os[j][k])
  BY <1>2
<1>6. \E ns \in SUBSET Members, v \in Status :
        /\ \A k \in ns : Alive(os[j][k])
        /\ code' = [code EXCEPT ![j] = [k \in Members |-> IF k \in ns THEN v ELSE code[j][k]]]
  BY <1>4, <1>5
<1>7. QED
  BY <1>6 DEF ExitTogether

(* A delivered signal ends processes of one job only.                      *)
LEMMA DeliveredExits ==
  ASSUME HostTypeOK, NEW j \in JobIds, NEW s, Delivered(j, s)
  PROVE  code' = code \/ ExitTogether
<1>1. CASE s = "kill"
  <2> DEFINE ms == {m \in Members : Alive(os[j][m])}
  <2>1. code' = [code EXCEPT ![j] = [m \in Members |-> IF Alive(os[j][m]) THEN "err" ELSE code[j][m]]]
    BY <1>1 DEF Delivered
  <2>2. [m \in Members |-> IF Alive(os[j][m]) THEN "err" ELSE code[j][m]]
          = [m \in Members |-> IF m \in ms THEN "err" ELSE code[j][m]]
    OBVIOUS
  <2>3. code' = [code EXCEPT ![j] = [m \in Members |-> IF m \in ms THEN "err" ELSE code[j][m]]]
    BY <2>1, <2>2
  <2>4. ms \in SUBSET Members /\ \A m \in ms : Alive(os[j][m])
    OBVIOUS
  <2> HIDE DEF ms
  <2>5. QED
    BY <2>3, <2>4 DEF ExitTogether, Status
<1>2. CASE s # "kill"
  <2>1. CASE s = "continue"
    BY <2>1 DEF Delivered
  <2>2. CASE s = "stop"
    BY <2>2 DEF Delivered
  <2>3. CASE s \notin {"continue", "stop", "kill"}
    BY <2>3 DEF Delivered, hostVars
  <2>4. QED
    BY <1>2, <2>1, <2>2, <2>3
<1>3. QED
  BY <1>1, <1>2

(* Exit statuses appear for living processes of one job at a time. *)
LEMMA CodeStep ==
  ASSUME Inv, Reality, [Next]_vars
  PROVE  code' = code \/ ExitTogether
<1>t. HostTypeOK /\ table \subseteq JobIds
  BY DEF Inv, TableInv, TableTypeOK
<1>1. CASE UNCHANGED vars \/ Ended
  BY <1>1 DEF vars, Ended
<1>2. CASE Host
  <2>1. PICK j \in JobIds, m \in Members :
          HostStop(j, m) \/ HostContinue(j, m) \/ \E s \in Status : HostExit(j, m, s)
    BY <1>2 DEF Host
  <2>2. CASE HostStop(j, m) \/ HostContinue(j, m)
    BY <2>2 DEF HostStop, HostContinue
  <2>3. CASE \E s \in Status : HostExit(j, m, s)
    <3>1. PICK s \in Status : HostExit(j, m, s)
      BY <2>3
    <3>2. Alive(os[j][m]) /\ code' = [code EXCEPT ![j][m] = s]
      BY <3>1 DEF HostExit, Alive
    <3>3. QED
      BY <1>t, <3>2, OneExits
  <2>4. QED
    BY <2>1, <2>2, <2>3
<1>3. CASE Observer
  <2>1. PICK j \in JobIds, m \in Members :
          ObserveTransition(j, m) \/ ObserveExit(j, m) \/ ObserveFailure(j, m)
    BY <1>3 DEF Observer
  <2>2. CASE ObserveTransition(j, m) \/ ObserveExit(j, m)
    BY <2>2 DEF ObserveTransition, ObserveExit
  <2>3. CASE ObserveFailure(j, m)
    <3>1. CASE Alive(os[j][m])
      <4>1. code' = [code EXCEPT ![j][m] = "err"]
        BY <2>3, <3>1 DEF ObserveFailure
      <4>2. QED
        BY <1>t, <3>1, <4>1, OneExits DEF Status
    <3>2. CASE ~Alive(os[j][m])
      <4>1. code' = [code EXCEPT ![j][m] = code[j][m]]
        BY <2>3, <3>2 DEF ObserveFailure
      <4>2. code \in [JobIds -> [Members -> Status \cup {"none"}]]
        BY <1>t DEF HostTypeOK
      <4>3. QED
        BY <4>1, <4>2
    <3>3. QED
      BY <3>1, <3>2
  <2>4. QED
    BY <2>1, <2>2, <2>3
<1>4. CASE Command
  BY <1>4 DEF Command, Start, StartForeground, Spawn, SpawnAs, StartFails,
              NextNotice, Acknowledge, CallJobs, CallForeground, CallSignal, CallWait, CallEnd,
                hostVars
<1>5. CASE Progress
  <2>1. CASE \/ DrainOne \/ DrainEnd \/ ForegroundRefused \/ ForegroundReceive \/ ForegroundReturn
             \/ SignalRefused \/ WaitRefused \/ WaitSelect \/ WaitResume \/ WaitSignalRefused
             \/ WaitReceive \/ WaitLost \/ WaitConsume \/ ResumeEnd \/ HangUpEnd
             \/ QuiesceReceive \/ CollectOne \/ CollectEnd
             \/ (\E n \in notices : DrainNotice(n)) \/ DrainReceive \/ EndSession
             \/ TakeTerminal \/ ForegroundFails \/ RestoreTerminal \/ DropGuard
             \/ HangUpReturn
    BY <2>1 DEF DrainOne, DrainEnd, ForegroundRefused, ForegroundReceive, ForegroundReturn,
                SignalRefused, WaitRefused, WaitSelect, WaitResume, WaitSignalRefused,
                WaitReceive, WaitLost, WaitConsume, ResumeEnd, HangUpEnd, QuiesceReceive,
                CollectOne, CollectEnd, DrainNotice, DrainReceive, EndSession, TakeTerminal,
                ForegroundFails, RestoreTerminal, DropGuard, HangUpReturn, hostVars
  <2>2. CASE ForegroundEnter \/ SignalDone \/ WaitSignal \/ ResumeOne \/ HangUpOne
    <3>1. (\E j \in table : \E s : Delivered(j, s)) \/ UNCHANGED hostVars
      <4>1. CASE ForegroundEnter
        BY <4>1 DEF ForegroundEnter, Foregroundable
      <4>2. CASE SignalDone
        <5>1. call.job \in table /\ Delivered(call.job, HostSignal(call.job, call.signal))
          BY <4>2 DEF SignalDone, SignalJob, SignalError
        <5>2. QED
          BY <5>1
      <4>3. CASE WaitSignal
        <5>1. Target \in table /\ Delivered(Target, HostSignal(Target, "continue"))
          BY <4>3 DEF WaitSignal, SignalJob, SignalError
        <5>2. QED
          BY <5>1
      <4>4. CASE ResumeOne
        BY <4>4 DEF ResumeOne, Unanswered, SignalOrQuarantine
      <4>5. CASE HangUpOne
        BY <4>5 DEF HangUpOne, ToHangUp, LiveJobs, SignalOrQuarantine
      <4>6. QED
        BY <2>2, <4>1, <4>2, <4>3, <4>4, <4>5
    <3>2. CASE \E j \in table : \E s : Delivered(j, s)
      BY <1>t, <3>2, DeliveredExits
    <3>3. CASE UNCHANGED hostVars
      BY <3>3 DEF hostVars
    <3>4. QED
      BY <3>1, <3>2, <3>3
  <2>3. QED
    BY <1>5, <2>1, <2>2 DEF Progress
<1>6. QED
  BY <1>1, <1>2, <1>3, <1>4, <1>5 DEF Next

(* Nobody starts or stops being a member, and the outcomes are as before:  *)
(* the ledger sees the exits, if any.                                      *)
LEMMA ExitsOnly ==
  ASSUME Inv, Reality, LifeOf' = LifeOf, WidthOf' = WidthOf, OutcomeOf' = OutcomeOf,
         code' = code \/ ExitTogether
  PROVE  [Ledger!Next]_(Ledger!vars)
<1>1. CASE code' = code
  BY <1>1 DEF Ledger!vars, LifeOf, WidthOf, OutcomeOf
<1>2. CASE ExitTogether
  <2>1. PICK j \in JobIds, ms \in SUBSET Members, s \in Status :
          /\ \A m \in ms : Alive(os[j][m])
          /\ code' = [code EXCEPT ![j] = [m \in Members |-> IF m \in ms THEN s ELSE code[j][m]]]
    BY <1>2 DEF ExitTogether
  <2>p. \A m \in Members : ProcessSound(j, m)
    BY DEF Reality, ProcInv
  <2>t. code \in [JobIds -> [Members -> Status \cup {"none"}]] /\ nextJob \in Nat /\ j \in Nat
    BY BoundsAssumption DEF Inv, HostTypeOK, TableInv, TableTypeOK, JobIds
  <2>2. CASE ms = {}
    <3>1. code' = code
      BY <2>1, <2>2, <2>t
    <3>2. QED
      BY <1>1, <3>1
  <2>3. CASE ms # {}
    <3>1. PICK m \in ms : Alive(os[j][m])
      BY <2>1, <2>3
    <3>2. j < nextJob
      <4>1. ~(j >= nextJob)
        BY <2>p, <3>1 DEF ProcessSound, Alive
      <4>2. QED
        BY <2>t, <4>1
    <3>3. LifeOf[j] # "none"
      BY <3>2 DEF LifeOf, Life
    <3>4. \A k \in ms : os[j][k] # "none" /\ code[j][k] = "none"
      BY <2>1, <2>p DEF ProcessSound, Alive
    <3>5. ms \in SUBSET {k \in WidthOf[j] : code[j][k] = "none"}
      BY <3>4 DEF WidthOf
    <3>6. Ledger!Exit(j)
      BY <2>1, <3>3, <3>5 DEF Ledger!Exit, LifeOf, WidthOf, OutcomeOf, Status
    <3>7. QED
      BY <3>6 DEF Ledger!Next
  <2>4. QED
    BY <2>2, <2>3
<1>3. QED
  BY <1>1, <1>2

(* Processes move, or are observed: the ledger sees at most exits. *)
LEMMA RunsLedger ==
  ASSUME Inv, Reality, [Next]_vars,
         UNCHANGED <<table, nextJob>>,
         \A j \in JobIds : rec'[j].completion = rec[j].completion,
         \A j \in JobIds, m \in Members : os'[j][m] = "none" <=> os[j][m] = "none"
  PROVE  [Ledger!Next]_(Ledger!vars)
<1>1. \A j \in JobIds : Life(j)' = Life(j)
  BY DEF Life
<1>2. LifeOf' = LifeOf
  BY <1>1 DEF LifeOf
<1>3. \A j \in JobIds : {m \in Members : os'[j][m] # "none"} = {m \in Members : os[j][m] # "none"}
  OBVIOUS
<1>4. WidthOf' = WidthOf
  BY <1>3 DEF WidthOf
<1>5. OutcomeOf' = OutcomeOf
  BY DEF OutcomeOf
<1>6. QED
  BY <1>2, <1>4, <1>5, CodeStep, ExitsOnly

(* Completions are handed out. *)
LEMMA RemovesLedger ==
  ASSUME Inv, Removes
  PROVE  [Ledger!Next]_(Ledger!vars)
<1>1. /\ os' = os /\ code' = code /\ nextJob' = nextJob /\ table' \subseteq table
      /\ \A j \in JobIds : rec'[j].completion = rec[j].completion
      /\ \A j \in table : j \notin table' => rec[j].completion # "none"
  BY DEF Removes
<1>t. table \subseteq JobIds /\ \A j \in table : j < nextJob
  BY DEF Inv, TableInv, TableTypeOK
<1> DEFINE js == table \ table'
<1>2. js \in SUBSET JobIds
  BY <1>t
<1>3. \A j \in js : LifeOf[j] = "completed" /\ Life(j)' = "closed"
  BY <1>1, <1>t DEF LifeOf, Life
<1>4. \A j \in JobIds : j \notin js => Life(j)' = Life(j)
  BY <1>1 DEF Life
<1> HIDE DEF js
<1>5. LifeOf' = [j \in JobIds |-> IF j \in js THEN "closed" ELSE LifeOf[j]]
  BY <1>3, <1>4 DEF LifeOf
<1>6. WidthOf' = WidthOf /\ OutcomeOf' = OutcomeOf
  BY <1>1 DEF WidthOf, OutcomeOf
<1>7. Ledger!Deliver(js)
  BY <1>1, <1>3, <1>5, <1>6 DEF Ledger!Deliver, LifeOf, WidthOf, OutcomeOf
<1>8. QED
  BY <1>2, <1>7 DEF Ledger!Next

(* A pipeline is opened under a fresh identity. *)
LEMMA SpawnsLedger ==
  ASSUME Inv, Reality, Spawns
  PROVE  [Ledger!Next]_(Ledger!vars)
<1>0. PICK ms \in Pipelines, p \in Placement : Spawn(ms, p)
  BY DEF Spawns
<1>j. PICK j \in JobIds : j = nextJob
  BY <1>0 DEF Spawn, Inv, TableInv, TableTypeOK, JobIds
<1>m. ms \in SUBSET Members /\ ms # {}
  BY BoundsAssumption DEF Pipelines
<1>1. /\ nextJob' = j + 1 /\ table' = table \cup {j}
      /\ rec' = [rec EXCEPT ![j] = Published(ms, p)]
      /\ os' = [os EXCEPT ![j] = [m \in Members |-> IF m \in ms THEN "running" ELSE "none"]]
      /\ code' = code
  BY <1>0, <1>j DEF Spawn, SpawnAs
<1>t. /\ table \subseteq JobIds /\ rec \in [JobIds -> RecordType] /\ j \in Nat
      /\ os \in [JobIds -> [Members -> {"none", "running", "stopped", "zombie", "gone"}]]
      /\ \A i \in table : i < nextJob
  BY DEF Inv, TableInv, TableTypeOK, HostTypeOK, JobIds
<1>r. rec'[j].completion = "none" /\ \A i \in JobIds : i # j => rec'[i] = rec[i]
  BY <1>1, <1>m, <1>t, PublishedMembers
<1>o. /\ \A m \in Members : os'[j][m] = IF m \in ms THEN "running" ELSE "none"
      /\ \A i \in JobIds : i # j => os'[i] = os[i]
  BY <1>1, <1>t
<1>2. rec[j].completion = "none"
  BY <1>j, <1>t DEF Reality, OutcomeInv
<1>3. j \notin table /\ ~(j < nextJob)
  BY <1>j, <1>t
<1>4. LifeOf[j] = "none"
  BY <1>3 DEF LifeOf, Life
<1>5. Life(j)' = "open"
  BY <1>1, <1>r DEF Life
<1>6. ASSUME NEW i \in JobIds, i # j PROVE Life(i)' = Life(i)
  <2>1. i < nextJob' <=> i < nextJob
    BY <1>1, <1>6, <1>j, <1>t DEF JobIds
  <2>2. i \in table' <=> i \in table
    BY <1>1, <1>6
  <2>3. QED
    BY <1>6, <1>r, <2>1, <2>2 DEF Life
<1>7. LifeOf' = [LifeOf EXCEPT ![j] = "open"]
  BY <1>5, <1>6 DEF LifeOf
<1>8. {m \in Members : os'[j][m] # "none"} = ms
  BY <1>m, <1>o
<1>9. WidthOf' = [WidthOf EXCEPT ![j] = ms]
  BY <1>8, <1>o DEF WidthOf
<1>10. OutcomeOf' = OutcomeOf
  BY <1>2, <1>r DEF OutcomeOf
<1>11. Ledger!Open(j, ms)
  BY <1>1, <1>m, <1>4, <1>7, <1>9, <1>10 DEF Ledger!Open, LifeOf, WidthOf, OutcomeOf
<1>12. QED
  BY <1>m, <1>11 DEF Ledger!Next

(* A failed start spends its identity. *)
LEMMA SpentLedger ==
  ASSUME Inv, StartFails
  PROVE  [Ledger!Next]_(Ledger!vars)
<1>1. /\ nextJob' = nextJob + 1 /\ nextJob <= MaxJobs /\ table' = table /\ rec' = rec
      /\ os' = os /\ code' = code
  BY DEF StartFails, hostVars
<1>j. PICK j \in JobIds : j = nextJob
  BY <1>1 DEF Inv, TableInv, TableTypeOK, JobIds
<1>t. j \in Nat /\ \A i \in table : i < nextJob /\ i \in Nat
  BY DEF Inv, TableInv, TableTypeOK, JobIds
<1>2. j \notin table /\ ~(j < nextJob) /\ j < nextJob'
  BY <1>1, <1>j, <1>t
<1>3. LifeOf[j] = "none" /\ Life(j)' = "closed"
  BY <1>1, <1>2 DEF LifeOf, Life
<1>4. ASSUME NEW i \in JobIds, i # j PROVE Life(i)' = Life(i)
  <2>1. i < nextJob' <=> i < nextJob
    BY <1>1, <1>4, <1>j, <1>t DEF JobIds
  <2>2. QED
    BY <1>1, <2>1 DEF Life
<1>5. LifeOf' = [LifeOf EXCEPT ![j] = "closed"]
  BY <1>3, <1>4 DEF LifeOf
<1>6. WidthOf' = WidthOf /\ OutcomeOf' = OutcomeOf
  BY <1>1 DEF WidthOf, OutcomeOf
<1>7. Ledger!Abort(j)
  BY <1>1, <1>3, <1>5, <1>6 DEF Ledger!Abort, LifeOf, WidthOf, OutcomeOf
<1>8. QED
  BY <1>7 DEF Ledger!Next

(* An observation completes a job, or the ledger sees nothing. *)
LEMMA ReceivesLedger ==
  ASSUME Inv, Reality, Inv', Reality', Receives
  PROVE  [Ledger!Next]_(Ledger!vars)
<1>1. /\ Receive /\ events # <<>> /\ nextJob' = nextJob /\ os' = os /\ code' = code
      /\ World
  BY DEF Receives, Receive, hostVars, Reality, World
<1>2. PICK e \in ObservationType : e = Head(events)
  BY <1>1 DEF Inv, HostTypeOK
<1>3. table' = table /\ \A i \in JobIds : i # e.job => rec'[i] = rec[i]
  BY <1>1, <1>2, ReceivedRecord
<1>w. WidthOf' = WidthOf
  BY <1>1 DEF WidthOf
<1>4. CASE \A i \in JobIds : rec'[i].completion = rec[i].completion
  <2>1. \A i \in JobIds : Life(i)' = Life(i)
    BY <1>1, <1>3, <1>4 DEF Life
  <2>2. LifeOf' = LifeOf /\ OutcomeOf' = OutcomeOf
    BY <1>4, <2>1 DEF LifeOf, OutcomeOf
  <2>3. QED
    BY <1>1, <1>w, <2>2 DEF Ledger!vars, LifeOf, WidthOf, OutcomeOf
<1>5. CASE ~(\A i \in JobIds : rec'[i].completion = rec[i].completion)
  <2>1. PICK j \in JobIds : j = e.job /\ rec'[j].completion # rec[j].completion
    BY <1>3, <1>5
  <2>2. j \in table
    BY <1>1, <1>2, <2>1, ReceivedRecord
  <2>3. rec[j].completion = "none" /\ rec'[j].completion # "none"
    <3>1. e.kind # "failed"
      BY <1>1, <1>2, <2>1, <2>2, ReceivedRecord
    <3>2. rec[j].completion = "none"
      BY <1>1, <1>2, <2>1, <2>2, <3>1, ReceivedRecord
    <3>3. QED
      BY <2>1, <3>2
  <2> DEFINE stages == {m \in Members : os[j][m] # "none"}
  <2>4. /\ \A m \in stages : os[j][m] = "gone"
        /\ rec'[j].completion = IF \E m \in stages : /\ code[j][m] = "err"
                                                     /\ PipeFail \/ \A k \in stages : k <= m
                                THEN "err" ELSE "ok"
    <3>1. CompletionIsReal'
      BY Real, PTL
    <3>2. QED
      BY <1>1, <1>3, <2>2, <2>3, <3>1 DEF CompletionIsReal
  <2>5. LifeOf[j] = "open" /\ Life(j)' = "completed"
    BY <1>3, <2>2, <2>3 DEF LifeOf, Life
  <2>6. ASSUME NEW i \in JobIds, i # j PROVE Life(i)' = Life(i)
               /\ rec'[i].completion = rec[i].completion
    BY <1>1, <1>3, <2>1, <2>6 DEF Life
  <2>7. LifeOf' = [LifeOf EXCEPT ![j] = "completed"]
    BY <2>5, <2>6 DEF LifeOf
  <2>8. OutcomeOf' = [OutcomeOf EXCEPT ![j] = rec'[j].completion]
    BY <2>6 DEF OutcomeOf
  <2>9. WidthOf[j] = stages
    BY DEF WidthOf
  <2>10. \A m \in stages : code[j][m] # "none"
    <3>1. ASSUME NEW m \in stages PROVE code[j][m] # "none"
      <4>1. ProcessSound(j, m) /\ os[j][m] = "gone"
        BY <2>4 DEF Reality, ProcInv
      <4>2. QED
        BY <4>1 DEF ProcessSound
    <3>2. QED
      BY <3>1
  <2> HIDE DEF stages
  <2>11. rec'[j].completion = Ledger!AggregateExit(j)
    BY <2>4, <2>9 DEF Ledger!AggregateExit, WidthOf
  <2>12. Ledger!Complete(j)
    BY <1>1, <1>w, <2>5, <2>7, <2>8, <2>9, <2>10, <2>11 DEF Ledger!Complete, LifeOf, WidthOf,
       OutcomeOf
  <2>13. QED
    BY <2>12 DEF Ledger!Next
<1>6. QED
  BY <1>4, <1>5

(* The initial states are initial states of the ledger.                    *)
LEMMA LedgerInit ==
  ASSUME Init
  PROVE  Ledger!Init
<1>1. /\ table = {} /\ nextJob = 1
      /\ rec = [j \in JobIds |-> NewRecord]
      /\ os = [j \in JobIds |-> [m \in Members |-> "none"]]
      /\ code = [j \in JobIds |-> [m \in Members |-> "none"]]
  BY DEF Init
<1>2. \A j \in JobIds : Life(j) = "none"
  BY <1>1 DEF Life, JobIds
<1>3. \A j \in JobIds : {m \in Members : os[j][m] # "none"} = {} /\ rec[j].completion = "none"
  BY <1>1 DEF NewRecord
<1>4. QED
  BY <1>1, <1>2, <1>3 DEF Ledger!Init

(* Every step is a step of the ledger or a stuttering one.                 *)
LEMMA LedgerStep ==
  ASSUME Inv, Reality, Inv', Reality', [Next]_vars
  PROVE  [Ledger!Next]_(Ledger!vars)
<1>0. World /\ Kind
  BY StepKind DEF Reality, World
<1>1. CASE Runs \/ \E j \in JobIds : Quarantines(j)
  <2>1. Runs
    BY <1>1 DEF Quarantines
  <2>2. /\ UNCHANGED <<table, nextJob>>
        /\ \A j \in JobIds : rec'[j].completion = rec[j].completion
        /\ \A j \in JobIds, m \in Members : os'[j][m] = "none" <=> os[j][m] = "none"
    BY <2>1 DEF Runs, OutcomeKept, Moves, Kept, Alive
  <2>3. QED
    BY <2>2, RunsLedger
<1>2. CASE Watches
  <2>1. PICK j \in JobIds, m \in Members, e \in ObservationType : Observes(j, m, e)
    BY <1>2 DEF Watches
  <2>2. UNCHANGED <<table, rec, nextJob>> /\ obs[j][m] = "waiting"
    BY <2>1 DEF Observes
  <2>3. os[j][m] # "none" /\ os'[j][m] # "none"
    <3>1. ProcessSound(j, m)
      BY DEF Reality, ProcInv
    <3>2. os[j][m] # "none"
      BY <2>2, <3>1 DEF ProcessSound
    <3>3. QED
      BY <2>1, <3>2 DEF Observes
  <2>4. \A i \in JobIds, k \in Members : (i # j \/ k # m) => os'[i][k] = os[i][k]
    BY <2>1 DEF Observes, Watched, Kept
  <2>5. QED
    BY <2>2, <2>3, <2>4, RunsLedger
<1>3. CASE Removes
  BY <1>3, RemovesLedger
<1>4. CASE Spawns
  BY <1>4, SpawnsLedger
<1>5. CASE StartFails
  BY <1>5, SpentLedger
<1>6. CASE Receives
  BY <1>6, ReceivesLedger
<1>7. QED
  BY <1>0, <1>1, <1>2, <1>3, <1>4, <1>5, <1>6 DEF Kind

(* ImplementsLedger: seen through the lifecycle, the width and the outcome *)
(* of each job, the session with its observers and its channel is the      *)
(* JobLedger: identities are spent once, and a job completes once, after   *)
(* all of its processes, with their aggregate.                             *)
THEOREM LedgerKept == Spec => ImplementsLedger
<1>1. Init => Ledger!Init
  BY LedgerInit
<1>2. Inv /\ Reality /\ (Inv /\ Reality)' /\ [Next]_vars => [Ledger!Next]_(Ledger!vars)
  BY LedgerStep
<1>3. QED
  BY <1>1, <1>2, RealityKept, PTL DEF Spec, ImplementsLedger, Ledger!Spec
=============================================================================
