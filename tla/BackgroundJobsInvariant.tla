----------------------- MODULE BackgroundJobsInvariant -----------------------
(***************************************************************************)
(* What relates the job table to the processes it is about, beyond the     *)
(* invariant of BackgroundJobsProofs: processes and observers, the         *)
(* observations under way, the members of a record, the notices and the    *)
(* locals of the session.                                                  *)
(***************************************************************************)
EXTENDS BackgroundJobs

(* One process: it is observed exactly from its start until it is reaped   *)
(* or abandoned, has an exit status exactly when it has ended, and an      *)
(* unreported transition says what it is doing.                            *)
ProcessSound(j, m) ==
  /\ j >= nextJob => os[j][m] = "none"
  /\ os[j][m] = "none" <=> obs[j][m] = "none"
  /\ Alive(os[j][m]) => obs[j][m] = "waiting"
  /\ os[j][m] = "gone" => obs[j][m] = "done"
  /\ code[j][m] = "none" <=> os[j][m] \in {"none", "running", "stopped"}
  /\ report[j][m] = "stopped" => os[j][m] = "stopped"
  /\ report[j][m] = "continued" => os[j][m] = "running"
ProcInv == \A j \in JobIds, m \in Members : ProcessSound(j, m)

(* An observation under way is about an observed process; the last one of  *)
(* an observer says how the process ended, and nothing follows it.         *)
Terminal == {"completed", "failed"}
EventSound(e) ==
  /\ obs[e.job][e.member] # "none"
  /\ e.kind \in Terminal => obs[e.job][e.member] = "done"
  /\ e.kind = "completed" => os[e.job][e.member] = "gone" /\ e.status = code[e.job][e.member]
  /\ e.kind = "failed" => os[e.job][e.member] = "zombie"
ChannelInv ==
  /\ \A i \in DOMAIN events : EventSound(events[i])
  /\ \A i, k \in DOMAIN events :
       (i < k /\ events[i].job = events[k].job /\ events[i].member = events[k].member)
         => events[i].kind \notin Terminal

(* A member of a record: in the pipeline exactly if it has a process,      *)
(* completed only when that is reaped and everything seen of it is         *)
(* applied; a reaped one is completed or its completion is under way.      *)
MemberSound(j, m) ==
  LET q == rec[j].job.members[m] IN
  /\ q = "absent" <=> os[j][m] = "none"
  /\ q = "completed" =>
       os[j][m] = "gone" /\ rec[j].status[m] = code[j][m] /\ EventsOf(j, m) = {}
  /\ os[j][m] = "gone" =>
       q = "completed" \/ \E i \in EventsOf(j, m) : events[i].kind = "completed"
MemberInv == \A j \in table, m \in Members : MemberSound(j, m)

(* The newest thing known of a living process is what it is doing. *)
Agrees(v, p) == /\ p = "running" => v \in {"running", "continued"}
                /\ p = "stopped" => v = "stopped"
Newest(i, j, m) == i \in EventsOf(j, m) /\ \A k \in EventsOf(j, m) : k <= i
Converging(j, m) ==
  (Alive(os[j][m]) /\ report[j][m] = "none") =>
    /\ \A i \in DOMAIN events : Newest(i, j, m) => Agrees(events[i].kind, os[j][m])
    /\ EventsOf(j, m) = {} => Agrees(rec[j].job.members[m], os[j][m])
ConvInv == \A j \in table, m \in Members : Converging(j, m)

(* A published completion is the aggregate of the statuses, and a reserved *)
(* identity has none.                                                      *)
OutcomeInv ==
  /\ \A j \in table : rec[j].completion # "none" => rec[j].completion = Aggregate(rec[j])
  /\ \A j \in JobIds : j >= nextJob => rec[j].completion = "none"

(* Queued notices: a start comes before everything else about its job, and *)
(* a loss is about a process that is abandoned.                            *)
Abandoned(j, m) == os[j][m] = "zombie" /\ obs[j][m] = "done"
NoticeInv ==
  /\ \A n \in notices : n.job \in table /\ n.id < nextNotice
  /\ \A n, k \in notices :
       (n.job = k.job /\ n.kind = "started" /\ k.kind # "started") => n.id < k.id
  /\ \A n \in notices : n.kind = "failed" => \E m \in Members : Abandoned(n.job, m)

(* The session: what it works on is in the table.                          *)
Waiting == {"waitResume", "waitSignal", "waitCheck"}
Ending == {"resume", "hangup", "quiesce", "drainNotices", "ended"}
CallInv ==
  /\ At("foreground") => call.job \in table
  /\ (call.pc \in Waiting \/ (At("drain") /\ call.next \in Waiting)) => Targets \subseteq table
  /\ At("drain") => call.next \notin Ending \cup {"foreground", "waitCheck", "drain"}
  /\ call.pc \in {"resume", "hangup", "quiesce"} => call.next \in {"hangup", "quiesce"}

(* The failures of an ending session, those the hang-up keeps aside and    *)
(* those of the wait, are each of a different job and say why it failed.   *)
(* Such a job is no longer live.  What is returned names every failing     *)
(* record, and a hang-up returns it in identity order.                     *)
ListSound(list) ==
  /\ \A i \in DOMAIN list : Truthful(list[i])
  /\ \A i, k \in DOMAIN list : list[i].job = list[k].job => i = k
Returned == {"drainNotices", "ended"}
FailuresInv ==
  /\ call.pc \notin Ending => call.failures = <<>> /\ call.held = <<>>
  /\ ListSound(call.failures) /\ ListSound(call.held)
  /\ call.pc \in Returned =>
       /\ \A j \in table : ~Live(rec[j]) /\ (Failed(j) => Reported(j))
       /\ call.op = "hangup" => \A i, k \in DOMAIN call.failures :
            i < k => call.failures[i].job < call.failures[k].job

Reality == /\ ProcInv /\ ChannelInv /\ MemberInv /\ ConvInv /\ OutcomeInv /\ NoticeInv /\ CallInv
           /\ FailuresInv
=============================================================================
