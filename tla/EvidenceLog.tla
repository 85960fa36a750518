---------------------------- MODULE EvidenceLog ----------------------------
(***************************************************************************)
(* What the journal of an accepted-plan run promises whoever reads it      *)
(* afterwards, without files, syncs, chains or crashes: one log that only  *)
(* ever grows, by one event at a time; effects that reach the world only   *)
(* between the event that announces them and the event that ends them; and *)
(* an exit 0 that stands on a closed log of a successful run.              *)
(***************************************************************************)
EXTENDS Naturals, Sequences

CONSTANTS Identities,   \* what tells one attempted effect from another
          NoExit        \* there is no exit code yet

VARIABLES log,    \* the events on record
          done,   \* the effects that have reached the world
          exit    \* the exit code

vars == <<log, done, exit>>

Init == log = <<>> /\ done = {} /\ exit = NoExit

\* The log holds an event of this kind about p, an identity or another event.
Holds(kind, p) ==
    \E i \in DOMAIN log :
        /\ log[i].kind = kind
        /\ log[i].effect = p.effect
        /\ log[i].attempt = p.attempt

\* The effect p has been announced and has not been ended.
Open(p) == Holds("effect-before", p) /\ ~Holds("effect-after", p)

Closed == \E i \in DOMAIN log : log[i].kind = "terminal"

\* A header comes first and only there; attempts are announced in order, each
\* once; only an open effect is ended; nothing follows the terminal event, which
\* finds no effect open.
MayRecord(e) ==
    /\ ~Closed
    /\ e.kind = "header" <=> log = <<>>
    /\ e.kind = "effect-before" =>
        \A i \in DOMAIN log : log[i].kind = "effect-before" => log[i].attempt < e.attempt
    /\ e.kind = "effect-after" => Open(e)
    /\ e.kind = "terminal" => \A p \in Identities : ~Open(p)

\* One more event is on record.  (It is read off the longer log, so that the
\* events need not be enumerated.)
Record ==
    /\ exit = NoExit
    /\ log' # <<>>
    /\ LET e == log'[Len(log')]
       IN  log' = Append(log, e) /\ MayRecord(e)
    /\ UNCHANGED <<done, exit>>

\* The world carries an open effect out, once.
Perform ==
    /\ exit = NoExit
    /\ \E p \in Identities :
        /\ p \notin done
        /\ done' = done \cup {p}
        /\ Open(p)
    /\ UNCHANGED <<log, exit>>

\* The log ends with the success of the run and accounts for all that was done.
Succeeded ==
    /\ log # <<>>
    /\ LET e == log[Len(log)]
       IN  /\ e.kind = "terminal" /\ e.primary.class = "success"
           /\ \A i \in DOMAIN e.cleanup : e.cleanup[i] = "success"
    /\ \A p \in done : Holds("effect-after", p)

Finish ==
    /\ exit = NoExit
    /\ exit' \in {0, 1, 2, 130}
    /\ exit' = 0 => Succeeded
    /\ UNCHANGED <<log, done>>

Next == Record \/ Perform \/ Finish

Spec == Init /\ [][Next]_vars
=============================================================================
