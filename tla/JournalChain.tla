--------------------------- MODULE JournalChain ---------------------------
(***************************************************************************)
(* The hash-chained run journal of opaal-runtime/src/workflow.rs: what     *)
(* JournalLifecycle admits, what JournalChain appends, and what            *)
(* audit_journal makes of the lines it finds in a file.                    *)
(*                                                                         *)
(* A line is [seq, event, size].  Digests are abstracted: a line's digest  *)
(* names that line and nothing else, so that checking a line's `previous`  *)
(* digest is checking that it follows the line of the preceding sequence   *)
(* number.  The cumulative host-byte policy is not modelled.               *)
(***************************************************************************)
EXTENDS Naturals, Sequences, SequencesExt

CONSTANTS
    MaxLines,   \* MAX_JOURNAL_LINES
    MaxBytes,   \* MAX_JOURNAL_BYTES
    Reserve     \* JOURNAL_TERMINAL_RESERVE_BYTES

ASSUME ChainAssumption ==
    /\ MaxLines \in Nat /\ MaxLines >= 2
    /\ MaxBytes \in Nat /\ Reserve \in Nat /\ Reserve <= MaxBytes

-----------------------------------------------------------------------------
(* Events.  `effect` stands for the effect name, its scope and its         *)
(* operation; `owner` for the two prefixes of a cleanup resource id.       *)

Header(at, policy) == [kind |-> "header", at |-> at, policy |-> policy]
ActionStart(node) == [kind |-> "action-start", node |-> node]
ActionEnd(node) == [kind |-> "action-end", node |-> node]
EffectBefore(node, effect, attempt) ==
    [kind |-> "effect-before", node |-> node, effect |-> effect, attempt |-> attempt]
EffectAfter(node, effect, attempt) ==
    [kind |-> "effect-after", node |-> node, effect |-> effect, attempt |-> attempt]
Cleanup(owner, ordinal, outcome) ==
    [kind |-> "cleanup", owner |-> owner, ordinal |-> ordinal, outcome |-> outcome]
EvidenceFailure == [kind |-> "evidence-failure"]
Terminal(primary, cleanup, assessment, at) ==
    [kind |-> "terminal", primary |-> primary, cleanup |-> cleanup,
     assessment |-> assessment, at |-> at]

-----------------------------------------------------------------------------
(* JournalLifecycle *)

NewLifecycle ==
    [actions |-> <<>>, effects |-> <<>>, cleanup |-> <<>>, ordinals |-> <<>>,
     ids |-> {}, next_attempt |-> 0, acting |-> FALSE, cleaning |-> FALSE,
     terminal |-> FALSE]

\* The identity an effect-after event must repeat.
OpenEffect(e) == [node |-> e.node, effect |-> e.effect, attempt |-> e.attempt]

(* Mutant: boundaries are taken inside an open effect. *)
NoOpenEffect_Unchecked(life) == TRUE

\* "an action/cleanup/terminal boundary while an effect is open" is refused.
NoOpenEffect(life) == life.effects = <<>>

Settled(life) == life.actions = <<>> /\ NoOpenEffect(life)

\* JournalLifecycle::admit, the refusals.
Admits(life, e) ==
    /\ ~life.terminal
    /\ CASE e.kind = "action-start" -> ~life.cleaning /\ NoOpenEffect(life)
         [] e.kind = "action-end" ->
              /\ NoOpenEffect(life)
              /\ life.actions # <<>>
              /\ Last(life.actions) = e.node
         [] e.kind = "effect-before" ->
              /\ ~life.cleaning
              /\ IF life.actions # <<>>
                   THEN Last(life.actions) = e.node
                   ELSE ~life.acting /\ e.effect = "process"
              /\ e.attempt = life.next_attempt
         [] e.kind = "effect-after" ->
              /\ life.effects # <<>>
              /\ Last(life.effects) = OpenEffect(e)
         [] e.kind = "cleanup" ->
              /\ Settled(life)
              /\ <<e.owner, e.ordinal>> \notin life.ids
              /\ life.ordinals # <<>> => Last(life.ordinals) = e.ordinal + 1
         [] e.kind = "terminal" ->
              /\ Settled(life)
              /\ e.cleanup = life.cleanup
              /\ life.ordinals # <<>> => Last(life.ordinals) = 0
         [] e.kind = "evidence-failure" -> TRUE
         [] OTHER -> FALSE

\* JournalLifecycle::admit, the state after an event it admits.
Admit(life, e) ==
    CASE e.kind = "action-start" ->
           [life EXCEPT !.acting = TRUE, !.actions = Append(@, e.node)]
      [] e.kind = "action-end" -> [life EXCEPT !.actions = Front(@)]
      [] e.kind = "effect-before" ->
           [life EXCEPT !.next_attempt = @ + 1, !.effects = Append(@, OpenEffect(e))]
      [] e.kind = "effect-after" -> [life EXCEPT !.effects = Front(@)]
      [] e.kind = "cleanup" ->
           [life EXCEPT !.cleaning = TRUE,
                        !.ids = @ \cup {<<e.owner, e.ordinal>>},
                        !.ordinals = Append(@, e.ordinal),
                        !.cleanup = Append(@, e.outcome)]
      [] e.kind = "terminal" -> [life EXCEPT !.terminal = TRUE]
      [] OTHER -> life

-----------------------------------------------------------------------------
(* JournalChain *)

\* validate_assessment: a terminal line carries an assessment exactly when the
\* policy selects one and the primary outcome is a success.
Assessed(policy, e) ==
    (e.assessment # "null") <=> (policy = "require-true" /\ e.primary.class = "success")

\* JournalChain::begin_with_version, once the header line fits.
Begin(policy, size) ==
    [policy |-> policy, lines |-> 1, bytes |-> size, terminal |-> FALSE,
     life |-> NewLifecycle]

(* Mutant: the line being appended is not counted. *)
Fits_CountsBefore(chain, e, size) ==
    IF e.kind = "terminal"
      THEN chain.lines <= MaxLines /\ chain.bytes + size <= MaxBytes
      ELSE chain.lines < MaxLines /\ chain.bytes + size <= MaxBytes - Reserve

(* Mutant: a terminal line is held to no byte limit. *)
Fits_TerminalUnbounded(chain, e, size) ==
    IF e.kind = "terminal"
      THEN chain.lines + 1 <= MaxLines
      ELSE chain.lines + 1 < MaxLines /\ chain.bytes + size <= MaxBytes

\* The limits: a nonterminal line leaves one line and Reserve bytes untouched.
Fits(chain, e, size) ==
    IF e.kind = "terminal"
      THEN chain.lines + 1 <= MaxLines /\ chain.bytes + size <= MaxBytes
      ELSE chain.lines + 1 < MaxLines /\ chain.bytes + size <= MaxBytes - Reserve

\* JournalChain::append, the refusals.
CanAppend(chain, e, size) ==
    /\ ~chain.terminal
    /\ e.kind = "terminal" => Assessed(chain.policy, e)
    /\ Fits(chain, e, size)
    /\ Admits(chain.life, e)

\* JournalChain::append, the state and the line it returns.
Appended(chain, e, size) ==
    [chain EXCEPT !.lines = @ + 1,
                  !.bytes = @ + size,
                  !.terminal = (e.kind = "terminal"),
                  !.life = Admit(@, e)]

LineOf(chain, e, size) == [seq |-> chain.lines, event |-> e, size |-> size]

-----------------------------------------------------------------------------
(* audit_journal: the verdict on a file of complete lines, followed by the  *)
(* start of another one when `torn`.                                       *)

\* The n-th line: whether the file is still valid, the lifecycle after it, the
\* bytes read so far.
ReplayLine(before, line, n) ==
    LET valid == /\ before.valid
                 /\ line.seq = n - 1
                 /\ (line.event.kind = "header") <=> (n = 1)
                 /\ n > 1 => Admits(before.life, line.event)
    IN  [valid |-> valid,
         life |-> IF valid /\ n > 1 THEN Admit(before.life, line.event) ELSE before.life,
         bytes |-> before.bytes + line.size]

NothingRead == [valid |-> TRUE, life |-> NewLifecycle, bytes |-> 0]

Replayed(lines) ==
    LET replay[n \in 0..Len(lines)] ==
          IF n = 0 THEN NothingRead ELSE ReplayLine(replay[n - 1], lines[n], n)
    IN  replay[Len(lines)]

Audit(lines, torn) ==
    LET end == Replayed(lines)
        last == Last(lines).event
    IN  IF \/ lines = <<>> \/ Len(lines) > MaxLines
           \/ end.bytes > MaxBytes
           \/ ~end.valid
           \/ /\ end.life.terminal
              /\ \/ torn
                 \/ last.at < lines[1].event.at
                 \/ ~Assessed(lines[1].event.policy, last)
        THEN "refused"
        ELSE IF end.life.terminal THEN "complete" ELSE "incomplete"

=============================================================================
