------------------------------ MODULE JobLedger ------------------------------
(***************************************************************************)
(* What the job table promises its user, without channels, observers or    *)
(* notices: a job is opened once, its processes exit, it is completed with *)
(* the aggregate of their exit statuses and only after the last of them,   *)
(* and the completion is handed out once, after which the identity is      *)
(* closed for good.                                                        *)
(***************************************************************************)
EXTENDS Naturals

CONSTANTS JobIds, Members, PipeFail

VARIABLES life,     \* "none", "open", "completed" or "closed"
          width,    \* the members of each opened job
          exit,     \* the exit status of each process, "none" while it lives
          outcome   \* the published completion

vars == <<life, width, exit, outcome>>

(* The last stage decides, or under pipefail any failing one. *)
AggregateExit(j) ==
  IF \E m \in width[j] : /\ exit[j][m] = "err"
                         /\ PipeFail \/ \A k \in width[j] : k <= m
  THEN "err" ELSE "ok"

Init ==
  /\ life = [j \in JobIds |-> "none"]
  /\ width = [j \in JobIds |-> {}]
  /\ exit = [j \in JobIds |-> [m \in Members |-> "none"]]
  /\ outcome = [j \in JobIds |-> "none"]

Open(j, ms) ==
  /\ life[j] = "none" /\ ms # {}
  /\ life' = [life EXCEPT ![j] = "open"]
  /\ width' = [width EXCEPT ![j] = ms]
  /\ UNCHANGED <<exit, outcome>>

(* A start that fails spends its identity. *)
Abort(j) ==
  /\ life[j] = "none"
  /\ life' = [life EXCEPT ![j] = "closed"]
  /\ UNCHANGED <<width, exit, outcome>>

(* Some processes of one group exit together. *)
Exit(j) ==
  /\ life[j] # "none"
  /\ \E ms \in SUBSET {m \in width[j] : exit[j][m] = "none"}, s \in {"ok", "err"} :
       exit' = [exit EXCEPT ![j] = [m \in Members |-> IF m \in ms THEN s ELSE @[m]]]
  /\ UNCHANGED <<life, width, outcome>>

Complete(j) ==
  /\ life[j] = "open"
  /\ \A m \in width[j] : exit[j][m] # "none"
  /\ life' = [life EXCEPT ![j] = "completed"]
  /\ outcome' = [outcome EXCEPT ![j] = AggregateExit(j)]
  /\ UNCHANGED <<width, exit>>

(* A notice is acknowledged, or a wait returns with all it selected. *)
Deliver(js) ==
  /\ \A j \in js : life[j] = "completed"
  /\ life' = [j \in JobIds |-> IF j \in js THEN "closed" ELSE life[j]]
  /\ UNCHANGED <<width, exit, outcome>>

Next ==
  \/ \E j \in JobIds, ms \in SUBSET Members : Open(j, ms)
  \/ \E j \in JobIds : Abort(j) \/ Exit(j) \/ Complete(j)
  \/ \E js \in SUBSET JobIds : Deliver(js)

Spec == Init /\ [][Next]_vars
=============================================================================
