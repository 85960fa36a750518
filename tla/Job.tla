-------------------------------- MODULE Job --------------------------------
(***************************************************************************)
(* The pure lifecycle of one shell job (crates/opaal-runtime/src/job.rs).  *)
(*                                                                         *)
(* A job is a record: its aggregate state, the placement it was last       *)
(* published under, the latest observation of each member, and whether a   *)
(* stop or completion notice is still owed.  JobState::Stopped { resume }  *)
(* is state = "stopped" with its payload in resume.  Every method of the   *)
(* code is a guard (what makes it return Ok) and the job it leaves.        *)
(***************************************************************************)
CONSTANT Members        \* the processes of one pipeline, in source order

Placement == {"foreground", "background"}
Running   == {"foreground", "background"}
JobState  == {"planned", "starting", "foreground", "background",
              "stopped", "completed", "notified", "reaped"}
MemberState == {"absent", "running", "stopped", "completed"}

JobType == [state     : JobState,
            placement : Placement \cup {"none"},
            resume    : Placement \cup {"none"},
            members   : [Members -> MemberState],
            pending   : BOOLEAN]

(* Job::new: a reserved identity. *)
NewJob == [state     |-> "planned",
           placement |-> "none",
           resume    |-> "none",
           members   |-> [m \in Members |-> "absent"],
           pending   |-> FALSE]

-----------------------------------------------------------------------------
(* The states in which an observation is accepted. *)
Observable(j) == j.state \in {"starting", "foreground", "background", "stopped"}

(* Mutant: a stopped member is not listened to. *)
Accepts_RunningOnly(j, m) == Observable(j) /\ j.members[m] = "running"

(* An observation of a member that is in the job and not yet terminal. *)
Accepts(j, m) == Observable(j) /\ j.members[m] \in {"running", "stopped"}

(* Mutant: the first completed member completes the job. *)
AllCompleted_Any(j) == \E m \in Members : j.members[m] = "completed"

AllCompleted(j) ==
  \A m \in Members : j.members[m] \in {"absent", "completed"}

AllLiveStopped(j) ==
  \A m \in Members : j.members[m] \in {"absent", "completed", "stopped"}

(* Fold the members into the aggregate; a newly reached stop or completion *)
(* owes a notice.  Nothing is published while children are registered.     *)
Reconcile(j) ==
  IF j.state = "starting" THEN j
  ELSE IF AllCompleted(j)
  THEN [j EXCEPT !.state = "completed", !.resume = "none",
                 !.pending = @ \/ j.state # "completed"]
  ELSE IF AllLiveStopped(j)
  THEN [j EXCEPT !.state = "stopped", !.resume = j.placement,
                 !.pending = @ \/ j.state # "stopped"]
  ELSE [j EXCEPT !.state = j.placement, !.resume = "none"]

-----------------------------------------------------------------------------
BeginStarting(j) == [j EXCEPT !.state = "starting"]

(* add_process for each child of the pipeline. *)
AddProcesses(j, ms) ==
  [j EXCEPT !.members = [m \in Members |-> IF m \in ms THEN "running" ELSE @[m]]]

FinishStarting(j, placement) ==
  Reconcile([j EXCEPT !.placement = placement, !.state = placement])

ObserveStopped(j, m) == Reconcile([j EXCEPT !.members[m] = "stopped"])

(* Mutant: the placement is always taken from the stop. *)
ObserveContinued_AlwaysResumes(j, m) ==
  Reconcile([j EXCEPT !.members[m] = "running", !.placement = j.resume,
                      !.pending = FALSE])

ObserveContinued(j, m) ==
  Reconcile([j EXCEPT !.members[m] = "running",
                      !.placement = IF j.state = "stopped" THEN j.resume ELSE @,
                      !.pending = FALSE])

ObserveCompleted(j, m) == Reconcile([j EXCEPT !.members[m] = "completed"])

(* Only a running job changes placement. *)
MoveTo(j, placement) ==
  [j EXCEPT !.placement = placement, !.state = placement]

(* A delivered group continuation of a stopped job. *)
ContinueIn(j, placement) ==
  [j EXCEPT !.members = [m \in Members |->
                           IF @[m] = "stopped" THEN "running" ELSE @[m]],
            !.placement = placement, !.state = placement,
            !.resume = "none", !.pending = FALSE]

CanAcknowledgeStopped(j) == j.state = "stopped" /\ j.pending
AcknowledgeStopped(j)    == [j EXCEPT !.pending = FALSE]

(* mark_notified followed by mark_reaped, the two steps every consumer of a *)
(* completion takes together.                                               *)
CanReap(j) == j.state = "completed"
Reap(j)    == [j EXCEPT !.state = "reaped", !.pending = FALSE]
=============================================================================
