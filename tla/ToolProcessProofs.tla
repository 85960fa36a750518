------------------------- MODULE ToolProcessProofs -------------------------
(***************************************************************************)
(* Theorems about ToolProcess, for any limits, any amount of output and    *)
(* any number of failing system calls.  The invariant says what each phase *)
(* of a run knows: what the supervisor has seen of pipes, leader and group *)
(* stays true whatever the processes do next.                              *)
(***************************************************************************)
EXTENDS ToolProcess, TLAPS

Before == {"idle", "admit", "verify", "start"}
Zero == [s \in Streams |-> 0]

(* The type invariant in the parts that steps change together. *)
ControlType == pc \in Labels /\ phase \in {"first", "term", "kill"} /\ outcome \in Outcomes
CountType == attempts \in 0..MaxAttempts /\ runs \in Nat /\ faults \in Nat
FlagType == cancel \in BOOLEAN /\ late \in BOOLEAN /\ grace \in BOOLEAN
BufferType ==
    /\ retained \in [Streams -> 0..Limit]
    /\ pipe \in [Streams -> Nat] /\ written \in [Streams -> Nat]
ProcessesType == leader \in ProcessType /\ child \in ProcessType
LocalsType == run \in RunType
Typed == ControlType /\ CountType /\ FlagType /\ BufferType /\ ProcessesType /\ LocalsType

(* Outside run_process there is nothing of a run, and an attempt is left    *)
(* for the tool that is being verified.                                     *)
Quiet ==
    /\ pc \in Before =>
        /\ run = NoRun /\ leader = NoProcess /\ child = NoProcess
        /\ retained = Zero /\ pipe = Zero /\ written = Zero
    /\ pc = "verify" => attempts # MaxAttempts

(* Until something fails there is no error and the pipes are ours; cleanup *)
(* has an error to report.                                                 *)
Succeeding == pc \in Polling \cup {"setup"} \/ (pc = "finish" /\ run.primary = "none")
Clean ==
    /\ Succeeding => run.primary = "none" /\ ~run.dropped /\ ~run.cleanup
    /\ pc \in Cleaning \cup {"reap", "signal"} => run.primary # "none"

(* The leader is gone exactly when it has been waited for. *)
Waited ==
    /\ run.reaped <=> leader.life = "gone"
    /\ pc \notin Before => leader.life # "none"
    /\ pc = "group" => run.reaped

(* A pipe seen ended has ended: it is empty, and nobody can write to it    *)
(* again.  (After a failed read nothing is claimed.)                       *)
EndsSeen ==
    ~run.cleanup => \A s \in run.eof : run.dropped \/ (pipe[s] = 0 /\ Holders = {})

(* Until the limit strikes, every byte written is in a pipe or retained,   *)
(* and a run whose limit struck never gets as far as its status.           *)
Accounted ==
    (Succeeding /\ ~run.exceeded) => \A s \in Streams : retained[s] + pipe[s] = written[s]
WithinLimit ==
    (pc \in {"wait", "group"} \/ (pc = "finish" /\ run.primary = "none")) => ~run.exceeded

(* A run without a failed cleanup returns only when everything is gone. *)
Settled ==
    (pc = "finish" /\ ~run.cleanup) => run.reaped /\ run.eof = Streams /\ ~GroupExists

IInv ==
    /\ Typed
    /\ Quiet /\ Clean /\ Waited /\ EndsSeen /\ Accounted /\ WithinLimit /\ Settled

-----------------------------------------------------------------------------
(* Constants and the records of a run. *)
USE DEF Streams, Polling, Cleaning, Before

(* What the assumptions say of the limits.                                 *)
LEMMA ConstantsType == Limit \in Nat /\ MaxAttempts \in Nat
  BY ToolAssumption

(* The locals before a run have their type.                                *)
LEMMA NoRunType == NoRun \in RunType
  BY DEF NoRun, RunType

(* No process, and a new one, have their type.                             *)
LEMMA NoProcessType == NoProcess \in ProcessType /\ NewProcess \in ProcessType
  BY DEF NoProcess, NewProcess, ProcessType, Life

(* A leader that is waited for stays a process. *)
LEMMA ReapedType == \A p \in ProcessType : [p EXCEPT !.life = "gone"] \in ProcessType
  BY DEF ProcessType, Life

(* The parts of Typed are those of TypeOK. *)
LEMMA TypedIsTypeOK == Typed <=> TypeOK
  BY DEF Typed, ControlType, CountType, FlagType, BufferType, ProcessesType, LocalsType, TypeOK

(* The invariant holds at first.                                           *)
LEMMA InitIInv == Init => IInv
<1> SUFFICES ASSUME Init PROVE IInv
  OBVIOUS
<1>1. ControlType /\ CountType
  BY ConstantsType DEF Init, ControlType, CountType, Labels, Outcomes
<1>2. FlagType
  BY DEF Init, FlagType
<1>3. BufferType
  BY ConstantsType DEF Init, BufferType
<1>4. ProcessesType /\ LocalsType
  BY NoProcessType, NoRunType DEF Init, ProcessesType, LocalsType
<1>5. Quiet /\ Clean
  BY DEF Init, Quiet, Clean, Succeeding, Zero
<1>6. Waited /\ EndsSeen
  BY DEF Init, Waited, EndsSeen, NoRun, NoProcess
<1>7. Accounted /\ WithinLimit /\ Settled
  BY DEF Init, Accounted, WithinLimit, Settled, Succeeding
<1>8. QED
  BY <1>1, <1>2, <1>3, <1>4, <1>5, <1>6, <1>7 DEF IInv, Typed

-----------------------------------------------------------------------------
(* What a read of a pipe does: the locals keep their types, an end that is *)
(* noted is one, and no byte is lost before the limit strikes.             *)
LEMMA DrainKeeps ==
  ASSUME Typed, NEW s \in Streams, Drain(s, run)
  PROVE  /\ run' \in RunType
         /\ retained' \in [Streams -> 0..Limit] /\ pipe' \in [Streams -> Nat]
         /\ run'.primary = run.primary /\ run'.dropped = run.dropped
         /\ run'.cleanup = run.cleanup /\ run'.reaped = run.reaped
         /\ run'.eof = run.eof \/ (run'.eof = run.eof \cup {s} /\ Ended(s) /\ UNCHANGED pipe)
         /\ \A t \in Streams : pipe[t] = 0 => pipe'[t] = 0
         /\ ~run'.exceeded => /\ ~run.exceeded
                              /\ \A t \in Streams : retained'[t] + pipe'[t] = retained[t] + pipe[t]
<1> USE DEF Typed, BufferType, LocalsType
<1>1. CASE /\ run' = [run EXCEPT !.eof = IF Ended(s) THEN @ \cup {s} ELSE @]
           /\ UNCHANGED <<retained, pipe>>
  BY <1>1 DEF RunType
<1>2. ASSUME NEW n \in 1..pipe[s], NEW admitted,
             admitted = IF n <= Limit - retained[s] THEN n ELSE Limit - retained[s],
             retained' = [retained EXCEPT ![s] = @ + admitted],
             pipe' = [pipe EXCEPT ![s] = @ - n],
             run' = [run EXCEPT !.exceeded = @ \/ admitted # n]
      PROVE  /\ run' \in RunType
             /\ retained' \in [Streams -> 0..Limit] /\ pipe' \in [Streams -> Nat]
             /\ run'.primary = run.primary /\ run'.dropped = run.dropped
             /\ run'.cleanup = run.cleanup /\ run'.reaped = run.reaped
             /\ run'.eof = run.eof
             /\ \A t \in Streams : pipe[t] = 0 => pipe'[t] = 0
             /\ ~run'.exceeded => /\ ~run.exceeded
                                  /\ \A t \in Streams : retained'[t] + pipe'[t] = retained[t] + pipe[t]
  <2>1. run' \in RunType
    BY <1>2 DEF RunType
  <2>2. retained' \in [Streams -> 0..Limit] /\ pipe' \in [Streams -> Nat]
    BY <1>2, ConstantsType
  <2>3. /\ run'.primary = run.primary /\ run'.dropped = run.dropped
        /\ run'.cleanup = run.cleanup /\ run'.reaped = run.reaped
        /\ run'.eof = run.eof
    BY <1>2 DEF RunType
  <2>4. ~run'.exceeded => ~run.exceeded /\ admitted = n
    BY <1>2 DEF RunType
  <2>5. \A t \in Streams : pipe[t] = 0 => pipe'[t] = 0
    BY <1>2
  <2>6. ~run'.exceeded => \A t \in Streams : retained'[t] + pipe'[t] = retained[t] + pipe[t]
    BY <1>2, <2>4, ConstantsType
  <2>7. QED
    BY <2>1, <2>2, <2>3, <2>4, <2>5, <2>6
<1>3. QED
  BY <1>1, <1>2 DEF Drain

-----------------------------------------------------------------------------
(* One step per action.  A system call that may fail changes no counter    *)
(* but the one of failures.                                                *)
LEMMA FaultKeeps ==
  ASSUME CountType, NEW kind, UNCHANGED budget, NoFault \/ Fault(kind)
  PROVE  CountType'
  BY DEF CountType, budget, NoFault, Fault

(* The tool is started. *)
LEMMA KeepsStart == ASSUME IInv, Start PROVE IInv'
<1> USE DEF IInv, Typed, Start, clocks, processes, pipes, budget
<1>1. ControlType'
  BY DEF ControlType, Labels, Outcomes, RunType
<1>2. CountType'
  BY DEF CountType, Fault, NoFault
<1>3. FlagType'
  BY DEF FlagType
<1>4. BufferType'
  BY ConstantsType DEF BufferType
<1>5. ProcessesType'
  BY NoProcessType DEF ProcessesType, ProcessType, Life
<1>6. LocalsType'
  BY NoRunType DEF LocalsType, RunType
<1>7. Quiet'
  BY DEF Quiet, Zero
<1>8. Clean'
  BY DEF Clean, Succeeding, LocalsType, RunType, Quiet, NoRun
<1>9. Waited'
  BY DEF Waited, LocalsType, RunType, ProcessesType, ProcessType, Life, Quiet, NoRun, NoProcess, NewProcess
<1>10. EndsSeen'
  BY DEF EndsSeen, Holders, Running, LocalsType, RunType, ProcessesType, ProcessType, Quiet, NoRun
<1>11. Accounted'
  BY DEF Accounted, Clean, Succeeding, LocalsType, RunType, Quiet, Zero, NoRun
<1>12. WithinLimit'
  BY DEF WithinLimit, Clean, Succeeding, LocalsType, RunType, Quiet, NoRun
<1>13. Settled'
  BY DEF Settled, GroupExists, InGroup, LocalsType, RunType, Waited, ProcessesType, ProcessType
<1>14. QED
  BY <1>1, <1>2, <1>3, <1>4, <1>5, <1>6, <1>7, <1>8, <1>9, <1>10, <1>11, <1>12, <1>13

(* Making the pipes nonblocking, or failing to. *)
LEMMA KeepsSetup == ASSUME IInv, Setup PROVE IInv'
<1>1. CountType'
  BY FaultKeeps DEF IInv, Typed, Setup
<1> USE DEF IInv, Typed, Setup, Fault, NoFault, clocks, processes, pipes, budget
<1>2. ControlType'
  BY DEF ControlType, Labels, Outcomes, RunType
<1>3. FlagType'
  BY DEF FlagType
<1>4. BufferType'
  BY ConstantsType DEF BufferType
<1>5. ProcessesType'
  BY DEF ProcessesType
<1>6. LocalsType'
  BY NoRunType DEF LocalsType, RunType
<1>7. Quiet'
  BY DEF Quiet, Zero
<1>8. Clean'
  BY DEF Clean, Succeeding, LocalsType, RunType, Quiet, NoRun
<1>9. Waited'
  BY DEF Waited, LocalsType, RunType, ProcessesType, ProcessType, Life, Quiet, NoRun, NoProcess, NewProcess
<1>10. EndsSeen'
  BY DEF EndsSeen, Holders, Running, LocalsType, RunType, ProcessesType, ProcessType, Quiet, NoRun
<1>11. Accounted'
  BY DEF Accounted, Clean, Succeeding, LocalsType, RunType, Quiet, Zero, NoRun
<1>12. WithinLimit'
  BY DEF WithinLimit, Clean, Succeeding, LocalsType, RunType, Quiet, NoRun
<1>13. Settled'
  BY DEF Settled, GroupExists, InGroup, LocalsType, RunType, Waited, ProcessesType, ProcessType
<1>14. QED
  BY <1>1, <1>2, <1>3, <1>4, <1>5, <1>6, <1>7, <1>8, <1>9, <1>10, <1>11, <1>12, <1>13

(* The three reasons to stop a run. *)
LEMMA KeepsCheck == ASSUME IInv, Check PROVE IInv'
<1> USE DEF IInv, Typed, Check, Terminate, clocks, processes, pipes, budget
<1>1. ControlType'
  BY DEF ControlType, Labels, Outcomes, RunType
<1>2. CountType'
  BY DEF CountType, Fault, NoFault
<1>3. FlagType'
  BY DEF FlagType
<1>4. BufferType'
  BY ConstantsType DEF BufferType
<1>5. ProcessesType'
  BY NoProcessType DEF ProcessesType, ProcessType, Life
<1>6. LocalsType'
  BY NoRunType DEF LocalsType, RunType
<1>7. Quiet'
  BY DEF Quiet, Zero
<1>8. Clean'
  BY DEF Clean, Succeeding, LocalsType, RunType, Quiet, NoRun
<1>9. Waited'
  BY DEF Waited, LocalsType, RunType, ProcessesType, ProcessType, Life, Quiet, NoRun, NoProcess, NewProcess
<1>10. EndsSeen'
  BY DEF EndsSeen, Holders, Running, LocalsType, RunType, ProcessesType, ProcessType, Quiet, NoRun
<1>11. Accounted'
  BY DEF Accounted, Clean, Succeeding, LocalsType, RunType, Quiet, Zero, NoRun
<1>12. WithinLimit'
  BY DEF WithinLimit, Clean, Succeeding, LocalsType, RunType, Quiet, NoRun
<1>13. Settled'
  BY DEF Settled, GroupExists, InGroup, LocalsType, RunType, Waited, ProcessesType, ProcessType
<1>14. QED
  BY <1>1, <1>2, <1>3, <1>4, <1>5, <1>6, <1>7, <1>8, <1>9, <1>10, <1>11, <1>12, <1>13

(* Looking for the status. *)
LEMMA KeepsWait == ASSUME IInv, Wait PROVE IInv'
<1>1. CountType'
  BY FaultKeeps DEF IInv, Typed, Wait
<1> USE DEF IInv, Typed, Wait, Terminate, TryWait, Fault, NoFault, clocks, processes, pipes, budget
<1>2. ControlType'
  BY DEF ControlType, Labels, Outcomes, RunType
<1>3. FlagType'
  BY DEF FlagType
<1>4. BufferType'
  BY ConstantsType DEF BufferType
<1>5. ProcessesType'
  BY ReapedType DEF ProcessesType
<1>6. LocalsType'
  BY NoRunType DEF LocalsType, RunType
<1>7. Quiet'
  BY DEF Quiet, Zero
<1>8. Clean'
  BY DEF Clean, Succeeding, LocalsType, RunType, Quiet, NoRun
<1>9. Waited'
  BY DEF Waited, LocalsType, RunType, ProcessesType, ProcessType, Life, Quiet, NoRun, NoProcess, NewProcess
<1>10. EndsSeen'
  BY DEF EndsSeen, Holders, Running, LocalsType, RunType, ProcessesType, ProcessType, Quiet, NoRun
<1>11. Accounted'
  BY DEF Accounted, Clean, Succeeding, LocalsType, RunType, Quiet, Zero, NoRun
<1>12. WithinLimit'
  BY DEF WithinLimit, Clean, Succeeding, LocalsType, RunType, Quiet, NoRun
<1>13. Settled'
  BY DEF Settled, GroupExists, InGroup, LocalsType, RunType, Waited, ProcessesType, ProcessType
<1>14. QED
  BY <1>1, <1>2, <1>3, <1>4, <1>5, <1>6, <1>7, <1>8, <1>9, <1>10, <1>11, <1>12, <1>13

(* Probing the group. *)
LEMMA KeepsGroup == ASSUME IInv, Group PROVE IInv'
<1>1. CountType'
  BY FaultKeeps DEF IInv, Typed, Group
<1> USE DEF IInv, Typed, Group, TerminateAfterStatus, Fault, NoFault, clocks, processes, pipes, budget
<1>2. ControlType'
  BY DEF ControlType, Labels, Outcomes, RunType
<1>3. FlagType'
  BY DEF FlagType
<1>4. BufferType'
  BY ConstantsType DEF BufferType
<1>5. ProcessesType'
  BY DEF ProcessesType
<1>6. LocalsType'
  BY NoRunType DEF LocalsType, RunType
<1>7. Quiet'
  BY DEF Quiet, Zero
<1>8. Clean'
  BY DEF Clean, Succeeding, LocalsType, RunType, Quiet, NoRun
<1>9. Waited'
  BY DEF Waited, LocalsType, RunType, ProcessesType, ProcessType, Life, Quiet, NoRun, NoProcess, NewProcess
<1>10. EndsSeen'
  BY DEF EndsSeen, Holders, Running, LocalsType, RunType, ProcessesType, ProcessType, Quiet, NoRun
<1>11. Accounted'
  BY DEF Accounted, Clean, Succeeding, LocalsType, RunType, Quiet, Zero, NoRun
<1>12. WithinLimit'
  BY DEF WithinLimit, Clean, Succeeding, LocalsType, RunType, Quiet, NoRun
<1>13. Settled'
  BY DEF Settled, GroupExists, InGroup, LocalsType, RunType, Waited, ProcessesType, ProcessType
<1>14. QED
  BY <1>1, <1>2, <1>3, <1>4, <1>5, <1>6, <1>7, <1>8, <1>9, <1>10, <1>11, <1>12, <1>13

(* Entering the cleanup. *)
LEMMA KeepsReap == ASSUME IInv, Reap PROVE IInv'
<1>1. CountType'
  BY FaultKeeps DEF IInv, Typed, Reap
<1> USE DEF IInv, Typed, Reap, TryWait, Fault, NoFault, clocks, processes, pipes, budget
<1>2. ControlType'
  BY DEF ControlType, Labels, Outcomes, RunType
<1>3. FlagType'
  BY DEF FlagType
<1>4. BufferType'
  BY ConstantsType DEF BufferType
<1>5. ProcessesType'
  BY ReapedType DEF ProcessesType
<1>6. LocalsType'
  BY NoRunType DEF LocalsType, RunType
<1>7. Quiet'
  BY DEF Quiet, Zero
<1>8. Clean'
  BY DEF Clean, Succeeding, LocalsType, RunType, Quiet, NoRun
<1>9. Waited'
  BY DEF Waited, LocalsType, RunType, ProcessesType, ProcessType, Life, Quiet, NoRun, NoProcess, NewProcess
<1>10. EndsSeen'
  BY DEF EndsSeen, Holders, Running, LocalsType, RunType, ProcessesType, ProcessType, Quiet, NoRun
<1>11. Accounted'
  BY DEF Accounted, Clean, Succeeding, LocalsType, RunType, Quiet, Zero, NoRun
<1>12. WithinLimit'
  BY DEF WithinLimit, Clean, Succeeding, LocalsType, RunType, Quiet, NoRun
<1>13. Settled'
  BY DEF Settled, GroupExists, InGroup, LocalsType, RunType, Waited, ProcessesType, ProcessType
<1>14. QED
  BY <1>1, <1>2, <1>3, <1>4, <1>5, <1>6, <1>7, <1>8, <1>9, <1>10, <1>11, <1>12, <1>13

(* Looking for the status while cleaning up. *)
LEMMA KeepsCleanWait == ASSUME IInv, CleanWait PROVE IInv'
<1>1. CountType'
  BY FaultKeeps DEF IInv, Typed, CleanWait
<1> USE DEF IInv, Typed, CleanWait, TryWait, Fault, NoFault, clocks, processes, pipes, budget
<1>2. ControlType'
  BY DEF ControlType, Labels, Outcomes, RunType
<1>3. FlagType'
  BY DEF FlagType
<1>4. BufferType'
  BY ConstantsType DEF BufferType
<1>5. ProcessesType'
  BY ReapedType DEF ProcessesType
<1>6. LocalsType'
  BY NoRunType DEF LocalsType, RunType
<1>7. Quiet'
  BY DEF Quiet, Zero
<1>8. Clean'
  BY DEF Clean, Succeeding, LocalsType, RunType, Quiet, NoRun
<1>9. Waited'
  BY DEF Waited, LocalsType, RunType, ProcessesType, ProcessType, Life, Quiet, NoRun, NoProcess, NewProcess
<1>10. EndsSeen'
  BY DEF EndsSeen, Holders, Running, LocalsType, RunType, ProcessesType, ProcessType, Quiet, NoRun
<1>11. Accounted'
  BY DEF Accounted, Clean, Succeeding, LocalsType, RunType, Quiet, Zero, NoRun
<1>12. WithinLimit'
  BY DEF WithinLimit, Clean, Succeeding, LocalsType, RunType, Quiet, NoRun
<1>13. Settled'
  BY DEF Settled, GroupExists, InGroup, LocalsType, RunType, Waited, ProcessesType, ProcessType
<1>14. QED
  BY <1>1, <1>2, <1>3, <1>4, <1>5, <1>6, <1>7, <1>8, <1>9, <1>10, <1>11, <1>12, <1>13

(* Signalling the group. *)
LEMMA KeepsSignalGroup == ASSUME IInv, SignalGroup PROVE IInv'
<1>1. CountType'
  BY FaultKeeps DEF IInv, Typed, SignalGroup
<1> USE DEF IInv, Typed, SignalGroup, Enter, Fault, NoFault, clocks, processes, pipes, budget
<1>g. \A p \in ProcessType : Signalled(p) \in ProcessType /\ Signalled(p).life = p.life
  BY DEF Signalled, ProcessType
<1>2. ControlType'
  BY DEF ControlType, Labels, Outcomes, RunType
<1>3. FlagType'
  BY DEF FlagType
<1>4. BufferType'
  BY ConstantsType DEF BufferType
<1>5. ProcessesType'
  BY <1>g DEF ProcessesType
<1>6. LocalsType'
  BY NoRunType DEF LocalsType, RunType
<1>7. Quiet'
  BY DEF Quiet, Zero
<1>8. Clean'
  BY DEF Clean, Succeeding, LocalsType, RunType, Quiet, NoRun
<1>9. Waited'
  <2>1. leader'.life = leader.life
    BY <1>g DEF ProcessesType
  <2>2. run'.reaped = run.reaped /\ pc' # "group"
    BY DEF LocalsType, RunType
  <2>3. QED
    BY <2>1, <2>2 DEF Waited
<1>10. EndsSeen'
  BY DEF EndsSeen, Holders, Running, LocalsType, RunType, ProcessesType, ProcessType, Quiet, NoRun
<1>11. Accounted'
  BY DEF Accounted, Clean, Succeeding, LocalsType, RunType, Quiet, Zero, NoRun
<1>12. WithinLimit'
  BY DEF WithinLimit, Clean, Succeeding, LocalsType, RunType, Quiet, NoRun
<1>13. Settled'
  BY DEF Settled, GroupExists, InGroup, LocalsType, RunType, Waited, ProcessesType, ProcessType
<1>14. QED
  BY <1>1, <1>2, <1>3, <1>4, <1>5, <1>6, <1>7, <1>8, <1>9, <1>10, <1>11, <1>12, <1>13

(* The run returns. *)
LEMMA KeepsFinish == ASSUME IInv, Finish PROVE IInv'
<1> USE DEF IInv, Typed, Finish, Return, clocks, processes, pipes, budget
<1>r. \A q \in {"cancelled", "timed_out", "limit", "protocol", "io"} : Reported(q) \in Outcomes
  BY DEF Reported, Outcomes
<1>1. ControlType'
  BY <1>r DEF ControlType, LocalsType, Labels, Outcomes, RunType
<1>2. CountType'
  BY DEF CountType, Fault, NoFault
<1>3. FlagType'
  BY DEF FlagType
<1>4. BufferType'
  BY ConstantsType DEF BufferType
<1>5. ProcessesType'
  BY NoProcessType DEF ProcessesType, ProcessType, Life
<1>6. LocalsType'
  BY NoRunType DEF LocalsType, RunType
<1>7. Quiet'
  BY DEF Quiet, Zero
<1>8. Clean'
  BY DEF Clean, Succeeding, LocalsType, RunType, Quiet, NoRun
<1>9. Waited'
  BY DEF Waited, LocalsType, RunType, ProcessesType, ProcessType, Life, Quiet, NoRun, NoProcess, NewProcess
<1>10. EndsSeen'
  BY DEF EndsSeen, Holders, Running, LocalsType, RunType, ProcessesType, ProcessType, Quiet, NoRun
<1>11. Accounted'
  BY DEF Accounted, Clean, Succeeding, LocalsType, RunType, Quiet, Zero, NoRun
<1>12. WithinLimit'
  BY DEF WithinLimit, Clean, Succeeding, LocalsType, RunType, Quiet, NoRun
<1>13. Settled'
  BY DEF Settled, GroupExists, InGroup, LocalsType, RunType, Waited, ProcessesType, ProcessType
<1>14. QED
  BY <1>1, <1>2, <1>3, <1>4, <1>5, <1>6, <1>7, <1>8, <1>9, <1>10, <1>11, <1>12, <1>13

(* Reading: what a step of the polling loop does to pipes and locals. *)
LEMMA ReadEffect ==
  ASSUME IInv, NEW at, NEW s \in Streams, NEW next, ReadStep(at, s, next)
  PROVE  /\ run' \in RunType
         /\ retained' \in [Streams -> 0..Limit] /\ pipe' \in [Streams -> Nat]
         /\ run'.dropped = run.dropped /\ run'.cleanup = run.cleanup /\ run'.reaped = run.reaped
         /\ \/ pc' = next /\ run'.primary = run.primary
            \/ pc' = "reap" /\ run'.primary = "io"
         /\ \A t \in run'.eof : t \in run.eof \/ Ended(t)
         /\ \A t \in Streams : pipe[t] = 0 => pipe'[t] = 0
         /\ ~run'.exceeded => /\ ~run.exceeded
                              /\ \A t \in Streams : retained'[t] + pipe'[t] = retained[t] + pipe[t]
<1> USE DEF IInv, Typed, BufferType, LocalsType, RunType
<1>1. CASE Drain(s, run) /\ pc' = next
  BY <1>1, DrainKeeps
<1>2. CASE pc' = next /\ UNCHANGED <<run, retained, pipe>>
  BY <1>2
<1>3. CASE Terminate("io") /\ UNCHANGED <<retained, pipe>>
  BY <1>3 DEF Terminate
<1>4. QED
  BY <1>1, <1>2, <1>3 DEF ReadStep

(* A read of a pipe keeps the invariant, pipe by pipe.                     *)
LEMMA KeepsReadStep ==
  ASSUME IInv, NEW at \in {"read stdout", "read stderr"}, NEW s \in Streams,
         NEW next \in {"read stderr", "check"}, ReadStep(at, s, next)
  PROVE  IInv'
<1>1. CountType'
  BY FaultKeeps DEF IInv, Typed, ReadStep
<1>2. FlagType' /\ ProcessesType'
  BY DEF IInv, Typed, FlagType, ProcessesType, ReadStep, clocks, processes
<1>3. pc = at /\ UNCHANGED <<phase, outcome, leader, child, written>>
  BY DEF ReadStep, Terminate, processes
<1> USE <1>3 DEF IInv, Typed
<1>4. ControlType'
  <2>1. pc' \in {next, "reap"}
    BY ReadEffect
  <2>2. QED
    BY <2>1 DEF ControlType, Labels
<1>5. BufferType' /\ LocalsType'
  BY ReadEffect DEF BufferType, LocalsType
<1>6. Quiet' /\ WithinLimit' /\ Settled'
  BY ReadEffect DEF Quiet, WithinLimit, Settled
<1>7. Clean'
  <2>1. run.primary = "none" /\ ~run.dropped /\ ~run.cleanup
    BY DEF Clean, Succeeding
  <2>2. /\ run'.dropped = run.dropped /\ run'.cleanup = run.cleanup
        /\ \/ pc' = next /\ run'.primary = run.primary
           \/ pc' = "reap" /\ run'.primary = "io"
    BY ReadEffect
  <2>3. QED
    BY <2>1, <2>2 DEF Clean, Succeeding
<1>8. Waited'
  BY ReadEffect DEF Waited
<1>9. EndsSeen'
  <2>1. Holders' = Holders
    BY DEF Holders, Running
  <2>2. SUFFICES ASSUME ~run'.cleanup, NEW t \in run'.eof
                 PROVE  run'.dropped \/ (pipe'[t] = 0 /\ Holders' = {})
    BY DEF EndsSeen
  <2>3. t \in Streams /\ ~run.cleanup /\ (t \in run.eof \/ Ended(t))
    BY <2>2, ReadEffect DEF RunType
  <2>4. run.dropped \/ (pipe[t] = 0 /\ Holders = {})
    BY <2>3 DEF EndsSeen, Ended
  <2>5. (pipe[t] = 0 => pipe'[t] = 0) /\ run'.dropped = run.dropped
    BY <2>3, ReadEffect
  <2>6. QED
    BY <2>1, <2>4, <2>5
<1>10. Accounted'
  BY ReadEffect DEF Accounted, Succeeding, BufferType
<1>11. QED
  BY <1>1, <1>2, <1>4, <1>5, <1>6, <1>7, <1>8, <1>9, <1>10

(* Reading the pipes keeps the invariant.                                  *)
LEMMA KeepsRead == ASSUME IInv, Read PROVE IInv'
  BY KeepsReadStep DEF Read

(* The same while cleaning up, where a failed read ends the pipe. *)
LEMMA CleanEffect ==
  ASSUME IInv, NEW at, NEW s \in Streams, NEW next, CleanStep(at, s, next)
  PROVE  /\ run' \in RunType
         /\ retained' \in [Streams -> 0..Limit] /\ pipe' \in [Streams -> Nat]
         /\ run'.dropped = run.dropped /\ run'.primary = run.primary /\ run'.reaped = run.reaped
         /\ ~run'.cleanup => ~run.cleanup /\ \A t \in run'.eof : t \in run.eof \/ Ended(t)
         /\ \A t \in Streams : pipe[t] = 0 => pipe'[t] = 0
<1> USE DEF IInv, Typed, BufferType, LocalsType, RunType
<1>1. CASE Drain(s, run)
  BY <1>1, DrainKeeps
<1>2. CASE UNCHANGED <<run, retained, pipe>>
  BY <1>2
<1>3. CASE /\ run' = [run EXCEPT !.cleanup = TRUE, !.eof = @ \cup {s}]
           /\ UNCHANGED <<retained, pipe>>
  <2>1. run' \in RunType
    BY <1>3
  <2>2. QED
    BY <1>3, <2>1
<1>4. QED
  BY <1>1, <1>2, <1>3 DEF CleanStep

(* A read during cleanup keeps the invariant, pipe by pipe.                *)
LEMMA KeepsCleanStep ==
  ASSUME IInv, NEW at \in {"clean stdout", "clean stderr"}, NEW s \in Streams,
         NEW next \in {"clean stderr", "clean wait"}, CleanStep(at, s, next)
  PROVE  IInv'
<1>1. CountType'
  BY FaultKeeps DEF IInv, Typed, CleanStep
<1>2. FlagType' /\ ProcessesType'
  BY DEF IInv, Typed, FlagType, ProcessesType, CleanStep, clocks, processes
<1>3. pc = at /\ pc' = next /\ UNCHANGED <<phase, outcome, leader, child, written>>
  BY DEF CleanStep, processes
<1> USE <1>3 DEF IInv, Typed
<1>4. ControlType'
  BY CleanEffect DEF ControlType, Labels
<1>5. BufferType' /\ LocalsType'
  BY CleanEffect DEF BufferType, LocalsType
<1>6. Quiet' /\ WithinLimit' /\ Settled' /\ Accounted'
  BY CleanEffect DEF Quiet, WithinLimit, Settled, Accounted, Succeeding
<1>7. Clean' /\ Waited'
  BY CleanEffect DEF Clean, Waited, Succeeding
<1>8. EndsSeen'
  <2>1. Holders' = Holders
    BY DEF Holders, Running
  <2>2. SUFFICES ASSUME ~run'.cleanup, NEW t \in run'.eof
                 PROVE  run'.dropped \/ (pipe'[t] = 0 /\ Holders' = {})
    BY DEF EndsSeen
  <2>3. t \in Streams /\ ~run.cleanup /\ (t \in run.eof \/ Ended(t))
    BY <2>2, CleanEffect DEF RunType
  <2>4. run.dropped \/ (pipe[t] = 0 /\ Holders = {})
    BY <2>3 DEF EndsSeen, Ended
  <2>5. (pipe[t] = 0 => pipe'[t] = 0) /\ run'.dropped = run.dropped
    BY <2>3, CleanEffect
  <2>6. QED
    BY <2>1, <2>4, <2>5
<1>9. QED
  BY <1>1, <1>2, <1>4, <1>5, <1>6, <1>7, <1>8

(* Draining the pipes during cleanup keeps the invariant.                  *)
LEMMA KeepsCleanRead == ASSUME IInv, CleanRead PROVE IInv'
  BY KeepsCleanStep DEF CleanRead

(* The end of a round of the cleanup: done, once more, or given up. *)
LEMMA CleanGroupEffect ==
  ASSUME IInv, CleanGroup
  PROVE  \/ pc' = "finish" /\ UNCHANGED run /\ Gone
         \/ /\ run' = run \/ run' = [run EXCEPT !.cleanup = TRUE]
            /\ pc' \in {"clean stdout", "signal"}
         \/ run' = [run EXCEPT !.cleanup = TRUE] /\ pc' = "finish"
<1> USE DEF IInv, Typed, ControlType, LocalsType, RunType
<1>1. CASE Gone /\ pc' = "finish" /\ UNCHANGED <<run, phase>>
  BY <1>1
<1>2. CASE IF Expired THEN GiveUp(run) ELSE pc' = "clean stdout" /\ UNCHANGED <<run, phase>>
  BY <1>2 DEF GiveUp
<1>3. CASE LET failed == [run EXCEPT !.cleanup = TRUE]
           IN  IF Expired THEN GiveUp(failed)
               ELSE pc' = "clean stdout" /\ run' = failed /\ UNCHANGED phase
  BY <1>3 DEF GiveUp
<1>4. QED
  BY <1>1, <1>2, <1>3 DEF CleanGroup

(* Waiting for the group to empty keeps the invariant.                     *)
LEMMA KeepsCleanGroup == ASSUME IInv, CleanGroup PROVE IInv'
<1>1. CountType'
  BY FaultKeeps DEF IInv, Typed, CleanGroup
<1>2. FlagType' /\ ProcessesType' /\ BufferType'
  BY DEF IInv, Typed, FlagType, ProcessesType, BufferType, CleanGroup, clocks, processes, pipes
<1>3. phase' \in {"first", "term", "kill"}
  BY DEF IInv, Typed, ControlType, CleanGroup, GiveUp
<1>4. pc = "clean group" /\ UNCHANGED <<outcome, leader, child, pipe, written, retained>>
  BY DEF CleanGroup, processes, pipes
<1> USE CleanGroupEffect, <1>4 DEF IInv, Typed
<1>5. ControlType'
  BY <1>3 DEF ControlType, Labels
<1>6. LocalsType'
  BY DEF LocalsType, RunType
<1>7. Quiet' /\ WithinLimit' /\ Accounted'
  BY DEF Quiet, WithinLimit, Accounted, Succeeding, Clean, LocalsType, RunType
<1>8. Clean' /\ Waited'
  BY DEF Clean, Waited, Succeeding, LocalsType, RunType
<1>9. EndsSeen'
  BY DEF EndsSeen, Holders, LocalsType, RunType
<1>10. Settled'
  BY DEF Settled, Gone, GroupExists, LocalsType, RunType
<1>11. QED
  BY <1>1, <1>2, <1>5, <1>6, <1>7, <1>8, <1>9, <1>10

-----------------------------------------------------------------------------
(* What does not touch a run: the steps before a start, and the clocks. *)
LEMMA KeepsBefore ==
  ASSUME IInv, Invoke \/ AdmitFails \/ Admit \/ VerifyFails \/ Verified \/ StartFails
  PROVE  IInv'
<1>1. /\ pc \in Before /\ pc' \in Before
      /\ UNCHANGED <<phase, run, retained, leader, child, pipe, written>>
  BY DEF Invoke, AdmitFails, Admit, VerifyFails, Verified, StartFails, Return, processes, pipes
<1>2. outcome' \in Outcomes
  BY DEF IInv, Typed, ControlType, Outcomes,
         Invoke, AdmitFails, Admit, VerifyFails, Verified, StartFails, Return
<1>3. CountType'
  <2>1. CASE VerifyFails
    BY <2>1, FaultKeeps DEF IInv, Typed, VerifyFails
  <2>2. CASE StartFails
    BY <2>2, FaultKeeps DEF IInv, Typed, StartFails
  <2>3. CASE Invoke \/ AdmitFails \/ Admit
    BY <2>3 DEF IInv, Typed, CountType, Invoke, AdmitFails, Admit, budget
  <2>4. CASE Verified
    BY <2>4, ConstantsType DEF IInv, Typed, CountType, Quiet, Verified
  <2>5. QED
    BY <2>1, <2>2, <2>3, <2>4
<1>4. FlagType'
  BY DEF IInv, Typed, FlagType, clocks, Invoke, AdmitFails, Admit, VerifyFails, Verified, StartFails
<1>5. pc' = "verify" => attempts' # MaxAttempts
  BY DEF Invoke, AdmitFails, Admit, VerifyFails, Verified, StartFails, Return, budget
<1> USE <1>1 DEF IInv, Typed
<1>6. ControlType' /\ BufferType' /\ ProcessesType' /\ LocalsType'
  BY <1>2 DEF ControlType, BufferType, ProcessesType, LocalsType, Labels
<1>7. Quiet' /\ Clean' /\ Waited'
  BY <1>5 DEF Quiet, Clean, Waited, Succeeding
<1>8. EndsSeen'
  BY DEF EndsSeen, Quiet, NoRun
<1>9. Accounted' /\ WithinLimit' /\ Settled'
  BY DEF Accounted, WithinLimit, Settled, Succeeding
<1>10. QED
  BY <1>3, <1>4, <1>6, <1>7, <1>8, <1>9

(* Deadlines and cancellation keep the invariant.                          *)
LEMMA KeepsClocks ==
  ASSUME IInv, FlagType',
         UNCHANGED <<pc, phase, run, retained, outcome, budget, processes, pipes, faults>>
  PROVE  IInv'
<1>1. Typed'
  BY DEF IInv, Typed, ControlType, CountType, BufferType, ProcessesType, LocalsType,
         budget, processes, pipes
<1>2. Quiet' /\ Clean' /\ Waited'
  BY DEF IInv, Quiet, Clean, Waited, Succeeding, budget, processes, pipes
<1>3. EndsSeen' /\ Accounted' /\ WithinLimit' /\ Settled'
  BY DEF IInv, EndsSeen, Accounted, WithinLimit, Settled, Succeeding, Holders, GroupExists,
         processes, pipes
<1>4. QED
  BY <1>1, <1>2, <1>3 DEF IInv

-----------------------------------------------------------------------------
(* What the processes do of their own accord.  Only the leader and the     *)
(* child change, and the pipes by a write; the leader is waited for by     *)
(* nobody else, and only a running process can be in anyone's way.         *)
LEMMA OnlyProcessesKeeps ==
  ASSUME IInv, OnlyProcesses
  PROVE  /\ pc' = pc /\ run' = run /\ retained' = retained
         /\ ControlType' /\ CountType' /\ FlagType' /\ LocalsType'
         /\ Clean' /\ WithinLimit'
<1>1. pc' = pc /\ run' = run /\ retained' = retained /\ UNCHANGED <<phase, outcome>>
  BY DEF OnlyProcesses
<1>2. CountType'
  BY DEF OnlyProcesses, IInv, Typed, CountType, budget
<1>3. FlagType'
  BY DEF OnlyProcesses, IInv, Typed, FlagType, clocks
<1>4. ControlType' /\ LocalsType'
  BY <1>1 DEF IInv, Typed, ControlType, LocalsType
<1>5. Clean' /\ WithinLimit'
  BY <1>1 DEF IInv, Clean, WithinLimit, Succeeding
<1>6. QED
  BY <1>1, <1>2, <1>3, <1>4, <1>5

(* A process writes to a pipe that somebody still reads. *)
LEMMA KeepsWrites ==
  ASSUME IInv, NEW p \in {leader, child}, NEW s \in Streams, Writes(p, s)
  PROVE  IInv'
<1>1. OnlyProcesses /\ UNCHANGED <<leader, child>>
  BY DEF Writes, processes
<1>2. p \in Holders /\ pc \notin Before \cup {"finish"} /\ ~run.dropped
  BY DEF Writes, Acts, PipesOpen, Holders, Running
<1>3. pipe' = [pipe EXCEPT ![s] = @ + 1] /\ written' = [written EXCEPT ![s] = @ + 1]
  BY DEF Writes
<1> USE OnlyProcessesKeeps, <1>1, <1>2, <1>3 DEF IInv, Typed
<1>4. ProcessesType' /\ BufferType'
  BY DEF ProcessesType, BufferType
<1>5. Quiet' /\ Waited' /\ Settled'
  <2>1. budget' = budget
    BY DEF OnlyProcesses
  <2>2. QED
    BY <2>1 DEF Quiet, Waited, Settled, budget
<1>6. EndsSeen'
  BY DEF EndsSeen
<1>7. Accounted'
  <2>1. \A t \in Streams : retained[t] + pipe[t] = written[t]
                              => retained'[t] + pipe'[t] = written'[t]
    BY ConstantsType DEF BufferType
  <2>2. Succeeding' <=> Succeeding
    BY DEF Succeeding
  <2>3. QED
    BY <2>1, <2>2 DEF Accounted
<1>8. QED
  BY <1>4, <1>5, <1>6, <1>7

(* The other steps: what they keep of the two processes is enough. *)
LEMMA KeepsProcessStep ==
  ASSUME IInv, OnlyProcesses, UNCHANGED pipes, ProcessesType',
         leader'.life = "gone" <=> leader.life = "gone",
         leader'.life = "none" <=> leader.life = "none",
         Holders = {} => Holders' = {},
         leader.life = "gone" /\ ~GroupExists => ~GroupExists',
         pc \in Before => UNCHANGED <<leader, child>>
  PROVE  IInv'
<1> USE OnlyProcessesKeeps DEF IInv, Typed
<1>1. BufferType'
  BY DEF BufferType, pipes
<1>2. Quiet'
  BY DEF Quiet, pipes, OnlyProcesses, budget
<1>3. Waited'
  BY DEF Waited
<1>4. EndsSeen'
  BY DEF EndsSeen, pipes
<1>5. Accounted'
  BY DEF Accounted, pipes, Succeeding
<1>6. Settled'
  BY DEF Settled, Waited
<1>7. QED
  BY <1>1, <1>2, <1>3, <1>4, <1>5, <1>6

(* The processes move and keep the invariant.                              *)
LEMMA KeepsProcesses == ASSUME IInv, Processes PROVE IInv'
<1>1. CASE \E p \in {leader, child}, s \in Streams : Writes(p, s)
  BY <1>1, KeepsWrites
<1>2. CASE StartsChild \/ ChildLeavesGroup \/ ClosesPipes \/ Exits \/ ChildReaped
  <2> DEFINE Kept ==
        /\ ProcessesType'
        /\ leader'.life = "gone" <=> leader.life = "gone"
        /\ leader'.life = "none" <=> leader.life = "none"
        /\ Holders = {} => Holders' = {}
        /\ leader.life = "gone" /\ ~GroupExists => ~GroupExists'
        /\ pc \in Before => UNCHANGED <<leader, child>>
  <2>1. OnlyProcesses /\ UNCHANGED pipes
    BY <1>2 DEF StartsChild, ChildLeavesGroup, ClosesPipes, Exits, ChildReaped, pipes
  <2>2. pc \in Before => leader.life = "none" /\ child.life = "none"
    BY DEF IInv, Quiet, NoProcess
  <2> USE DEF IInv, Typed, ProcessesType, ProcessType, Life, Running, Acts
  <2>3. ASSUME StartsChild PROVE Kept
    <3>1. leader.life = "running" /\ leader' = leader
      BY <2>3 DEF StartsChild
    <3>2. child' \in ProcessType
      BY <2>3 DEF StartsChild, NewProcess
    <3>3. Holders = {} => Holders' = {}
      BY <2>3, <3>1 DEF StartsChild, NewProcess, Holders
    <3>4. QED
      BY <2>2, <3>1, <3>2, <3>3
  <2>4. ASSUME ChildLeavesGroup PROVE Kept
    <3>1. leader' = leader /\ child.life = "running" /\ child' \in ProcessType
      BY <2>4 DEF ChildLeavesGroup
    <3>2. (Holders = {} => Holders' = {}) /\ (~GroupExists => ~GroupExists')
      BY <2>4, <3>1 DEF ChildLeavesGroup, Holders, GroupExists, InGroup
    <3>3. QED
      BY <2>2, <3>1, <3>2
  <2>5. ASSUME ClosesPipes PROVE Kept
    <3>1. /\ leader' \in ProcessType /\ child' \in ProcessType
          /\ leader'.life = leader.life /\ leader'.group = leader.group
          /\ child'.life = child.life /\ child'.group = child.group
          /\ pc \notin Before
      BY <2>5, <2>2 DEF ClosesPipes
    <3>2. Holders = {} => Holders' = {}
      BY <2>5 DEF ClosesPipes, Holders
    <3>3. ~GroupExists => ~GroupExists'
      BY <3>1 DEF GroupExists, InGroup
    <3>4. QED
      BY <3>1, <3>2, <3>3
  <2>6. ASSUME Exits PROVE Kept
    <3>1. /\ leader' \in ProcessType /\ child' \in ProcessType
          /\ leader'.life = leader.life \/ (leader.life = "running" /\ leader'.life = "zombie")
          /\ child'.life = child.life \/ (child.life = "running" /\ child'.life = "zombie")
          /\ leader'.group = leader.group /\ child'.group = child.group
          /\ pc \notin Before
      BY <2>6, <2>2 DEF Exits
    <3>2. Holders = {} => Holders' = {}
      BY <2>6 DEF Exits, Holders
    <3>3. ~GroupExists => ~GroupExists'
      BY <3>1 DEF GroupExists, InGroup
    <3>4. QED
      BY <3>1, <3>2, <3>3
  <2>7. ASSUME ChildReaped PROVE Kept
    <3>1. /\ leader' = leader /\ child' \in ProcessType
          /\ child.life = "zombie" /\ child'.life = "gone" /\ pc \notin Before
      BY <2>7, <2>2 DEF ChildReaped
    <3>2. (Holders = {} => Holders' = {}) /\ (~GroupExists => ~GroupExists')
      BY <3>1 DEF Holders, GroupExists, InGroup
    <3>3. QED
      BY <3>1, <3>2
  <2>8. Kept
    BY <1>2, <2>3, <2>4, <2>5, <2>6, <2>7
  <2>9. QED
    BY <2>1, <2>8, KeepsProcessStep
<1>3. QED
  BY <1>1, <1>2 DEF Processes

-----------------------------------------------------------------------------

(* Every step keeps the invariant.                                         *)
LEMMA NextIInv == ASSUME IInv, [Next]_vars PROVE IInv'
<1>1. CASE Invoke \/ AdmitFails \/ Admit \/ VerifyFails \/ Verified \/ StartFails
  BY <1>1, KeepsBefore
<1>2. CASE Start \/ Setup \/ Read \/ Check \/ Wait \/ Group
  BY <1>2, KeepsStart, KeepsSetup, KeepsRead, KeepsCheck, KeepsWait, KeepsGroup
<1>3. CASE Reap \/ CleanRead \/ CleanWait \/ CleanGroup \/ SignalGroup \/ Finish
  BY <1>3, KeepsReap, KeepsCleanRead, KeepsCleanWait, KeepsCleanGroup, KeepsSignalGroup, KeepsFinish
<1>4. CASE Processes
  BY <1>4, KeepsProcesses
<1>5. CASE CancelRequested \/ DeadlinePasses \/ GracePasses
  <2>1. FlagType'
    BY <1>5 DEF IInv, Typed, FlagType, CancelRequested, DeadlinePasses, GracePasses
  <2>2. OnlyClocks
    BY <1>5 DEF CancelRequested, DeadlinePasses, GracePasses
  <2>3. QED
    BY <2>1, <2>2, KeepsClocks DEF OnlyClocks
<1>6. CASE UNCHANGED vars
  <2>1. FlagType'
    BY <1>6 DEF IInv, Typed, FlagType, vars, clocks
  <2>2. QED
    BY <1>6, <2>1, KeepsClocks DEF vars
<1>7. QED
  BY <1>1, <1>2, <1>3, <1>4, <1>5, <1>6 DEF Next, Supervisor

(* Every state of every evaluation satisfies the inductive invariant: what *)
(* run_process has noted about pipes, leader and group stays true while    *)
(* the processes go on.                                                    *)
THEOREM Invariance == Spec => []IInv
<1>1. Init => IInv
  BY InitIInv
<1>2. IInv /\ [Next]_vars => IInv'
  BY NextIInv
<1>3. QED
  BY <1>1, <1>2, PTL DEF Spec

(* Type correctness; in particular no stream ever retains more than its    *)
(* limit, and no evaluation makes more than MAX_PROCESS_ATTEMPTS starts.   *)
THEOREM TypeCorrect == Spec => []TypeOK
<1>1. IInv => TypeOK
  BY TypedIsTypeOK DEF IInv
<1>2. QED
  BY <1>1, Invariance, PTL

(* When run_process returns and reports no failed cleanup, the leader has  *)
(* been waited for, its group is empty and nobody has the pipes open,      *)
(* whatever the tool and its child did between the supervisor's calls.  Of *)
(* a run that does report one nothing is claimed: its group may be alive.  *)
THEOREM NothingSurvives == Spec => []NoSurvivors
<1>1. ASSUME IInv, pc = "finish", ~run.cleanup
      PROVE  leader.life = "gone" /\ ~GroupExists /\ (run.dropped \/ Holders = {})
  <2>1. run.reaped /\ run.eof = Streams /\ ~GroupExists
    BY <1>1 DEF IInv, Settled
  <2>2. leader.life = "gone"
    BY <1>1, <2>1 DEF IInv, Waited
  <2>3. run.dropped \/ Holders = {}
    BY <1>1, <2>1 DEF IInv, EndsSeen
  <2>4. QED
    BY <2>1, <2>2, <2>3
<1>2. IInv => NoSurvivors
  BY <1>1 DEF NoSurvivors
<1>3. QED
  BY <1>2, Invariance, PTL

(* A run that succeeds returns exactly the bytes its processes wrote. *)
THEOREM NoOutputLost == Spec => []OutputComplete
<1>1. ASSUME IInv, pc = "finish", run.primary = "none"
      PROVE  retained = written
  <2>1. ~run.dropped /\ ~run.cleanup /\ ~run.exceeded
    BY <1>1 DEF IInv, Clean, WithinLimit, Succeeding
  <2>2. \A s \in Streams : pipe[s] = 0
    BY <1>1, <2>1 DEF IInv, Settled, EndsSeen
  <2>3. \A s \in Streams : retained[s] + pipe[s] = written[s]
    BY <1>1, <2>1 DEF IInv, Accounted, Succeeding
  <2>4. retained \in [Streams -> Nat] /\ written \in [Streams -> Nat]
    BY <1>1, ConstantsType DEF IInv, Typed, BufferType
  <2>5. \A s \in Streams : retained[s] = written[s]
    BY <2>2, <2>3, <2>4
  <2>6. QED
    BY <2>4, <2>5
<1>2. IInv => OutputComplete
  BY <1>1 DEF OutputComplete
<1>3. QED
  BY <1>2, Invariance, PTL
=============================================================================
