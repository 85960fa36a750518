-------------------------- MODULE RunJournalProofs -------------------------
(***************************************************************************)
(* What RunJournal promises, for any plan, any limits and any number of    *)
(* faults, proved from the invariant of RunJournalInvariant.  The chain in *)
(* memory is what an audit of the durable lines finds, so the verdict on   *)
(* the file, and on what a crash leaves of it, follows from the chain; the *)
(* audit is a recursive function over the lines, reasoned about one line   *)
(* at a time (ReplayedAppend), by induction with the statement as a set    *)
(* (Induct).  Last, that the durable lines implement EvidenceLog (LogKept).*)
(***************************************************************************)
EXTENDS RunJournalInvariant, WellFoundedInduction, SequenceTheorems, TLAPS

-----------------------------------------------------------------------------
(* The audit, line by line.                                                *)

(* f is the audit of the first n lines, line by line.                      *)
IsReplay(f, lines, n) ==
  f = [k \in 0..n |-> IF k = 0 THEN NothingRead ELSE ReplayLine(f[k - 1], lines[k], k)]

(* A set of numbers that holds 0 and every successor holds all numbers:    *)
(* induction with the statement as a set, so that no operator has to be    *)
(* instantiated.                                                           *)
LEMMA Induct ==
  ASSUME NEW S, 0 \in S, \A n \in Nat : n \in S => n + 1 \in S
  PROVE  Nat \subseteq S
<1> DEFINE T == Nat \ S
<1>1. CASE T = {}
  BY <1>1
<1>2. CASE T # {}
  <2>1. PICK n \in T : \A m \in T : ~(<<m, n>> \in OpToRel(<, Nat))
    BY <1>2, NatLessThanWellFounded, WFMin
  <2>2. n # 0 /\ n \in Nat
    BY <2>1
  <2>3. n - 1 \in Nat /\ n - 1 < n /\ (n - 1) + 1 = n
    BY <2>2
  <2>4. n - 1 \notin T
    BY <2>1, <2>2, <2>3 DEF OpToRel
  <2>5. QED
    BY <2>1, <2>3, <2>4
<1>3. QED
  BY <1>1, <1>2

(* audit_journal: every file has a replay of its first n lines.            *)
LEMMA ReplayExists ==
  ASSUME NEW lines, NEW n \in Nat
  PROVE  \E f : IsReplay(f, lines, n)
<1> DEFINE S == {k \in Nat : \E f : IsReplay(f, lines, k)}
<1>1. 0 \in S
  <2>1. IsReplay([k \in 0..0 |-> NothingRead], lines, 0)
    BY DEF IsReplay
  <2>2. QED
    BY <2>1
<1>2. ASSUME NEW k \in Nat, k \in S PROVE k + 1 \in S
  <2>1. PICK f : IsReplay(f, lines, k)
    BY <1>2
  <2> DEFINE g == [i \in 0..(k + 1) |-> IF i = k + 1 THEN ReplayLine(f[k], lines[k + 1], k + 1)
                                        ELSE f[i]]
  <2>2. ASSUME NEW i \in 0..(k + 1)
        PROVE  g[i] = IF i = 0 THEN NothingRead ELSE ReplayLine(g[i - 1], lines[i], i)
    <3>1. CASE i = 0
      BY <2>1, <3>1 DEF IsReplay
    <3>2. CASE i # 0 /\ i # k + 1
      BY <2>1, <3>2 DEF IsReplay
    <3>3. CASE i = k + 1
      BY <3>3
    <3>4. QED
      BY <3>1, <3>2, <3>3
  <2>3. IsReplay(g, lines, k + 1)
    BY <2>2 DEF IsReplay
  <2>4. QED
    BY <2>3
<1>3. QED
  BY <1>1, <1>2, Induct

(* Two replays agree on the lines their files share.                       *)
LEMMA ReplayAgrees ==
  ASSUME NEW a, NEW b, NEW f, NEW g, NEW n \in Nat, NEW m \in Nat, n <= m,
         IsReplay(f, a, n), IsReplay(g, b, m), \A k \in 1..n : a[k] = b[k]
  PROVE  \A k \in 0..n : f[k] = g[k]
<1> DEFINE S == {k \in Nat : k <= n => f[k] = g[k]}
<1>1. 0 \in S
  BY DEF IsReplay
<1>2. ASSUME NEW k \in Nat, k \in S PROVE k + 1 \in S
  <2>1. CASE k + 1 <= n
    <3>1. f[k + 1] = ReplayLine(f[k], a[k + 1], k + 1)
          /\ g[k + 1] = ReplayLine(g[k], b[k + 1], k + 1)
      BY <2>1 DEF IsReplay
    <3>2. QED
      BY <1>2, <2>1, <3>1
  <2>2. QED
    BY <2>1
<1>3. Nat \subseteq S
  BY <1>1, <1>2, Induct
<1>4. QED
  BY <1>3

(* Replayed is the last value of the replay of the whole file.             *)
LEMMA ReplayedIs ==
  ASSUME NEW lines, Len(lines) \in Nat
  PROVE  \E f : IsReplay(f, lines, Len(lines)) /\ Replayed(lines) = f[Len(lines)]
<1> DEFINE f == CHOOSE f : IsReplay(f, lines, Len(lines))
<1>1. IsReplay(f, lines, Len(lines))
  BY ReplayExists
<1>2. Replayed(lines) = f[Len(lines)]
  BY DEF Replayed, IsReplay
<1>3. QED
  BY <1>1, <1>2

(* Nothing is read from an empty file.                                     *)
LEMMA ReplayedNothing == Replayed(<<>>) = NothingRead
<1>1. PICK f : IsReplay(f, <<>>, 0) /\ Replayed(<<>>) = f[0]
  BY ReplayedIs
<1>2. QED
  BY <1>1 DEF IsReplay

(* One more line is one more step of the audit.                            *)
LEMMA ReplayedAppend ==
  ASSUME NEW S, NEW lines \in Seq(S), NEW line \in S
  PROVE  Replayed(Append(lines, line)) = ReplayLine(Replayed(lines), line, Len(lines) + 1)
<1> DEFINE n == Len(lines)
           all == Append(lines, line)
<1>1. n \in Nat /\ Len(all) = n + 1 /\ all[n + 1] = line /\ \A k \in 1..n : lines[k] = all[k]
  OBVIOUS
<1>2. PICK f : IsReplay(f, lines, n) /\ Replayed(lines) = f[n]
  BY <1>1, ReplayedIs
<1> HIDE DEF n, all
<1>3. PICK g : IsReplay(g, all, n + 1) /\ Replayed(all) = g[n + 1]
  <2>1. Len(all) \in Nat
    BY <1>1
  <2>2. \E g : IsReplay(g, all, Len(all)) /\ Replayed(all) = g[Len(all)]
    BY <2>1, ReplayedIs
  <2>3. QED
    BY <1>1, <2>2
<1>4. f[n] = g[n]
  BY <1>1, <1>2, <1>3, ReplayAgrees
<1>5. g[n + 1] = ReplayLine(g[n], all[n + 1], n + 1)
  BY <1>1, <1>3 DEF IsReplay
<1>6. QED
  BY <1>1, <1>2, <1>3, <1>4, <1>5 DEF n, all

(* The lines replay without a refusal, to this lifecycle and size.         *)
Valid(lines, life, bytes) == Replayed(lines) = [valid |-> TRUE, life |-> life, bytes |-> bytes]

(* The audit of a first line that is a header.                             *)
LEMMA FirstLine ==
  ASSUME NEW b, NEW line, b.valid, line.seq = 0, line.event.kind = "header"
  PROVE  ReplayLine(b, line, 1) =
           [valid |-> TRUE, life |-> b.life, bytes |-> b.bytes + line.size]
<1> DEFINE v == /\ b.valid
                /\ line.seq = 1 - 1
                /\ (line.event.kind = "header") <=> (1 = 1)
                /\ 1 > 1 => Admits(b.life, line.event)
<1>1. v = TRUE
  <2>1. 1 - 1 = 0 /\ ~(1 > 1)
    OBVIOUS
  <2>2. (line.event.kind = "header") <=> (1 = 1)
    BY <2>1
  <2>3. QED
    BY <2>1, <2>2
<1>2. ReplayLine(b, line, 1) =
        [valid |-> v, life |-> IF v /\ 1 > 1 THEN Admit(b.life, line.event) ELSE b.life,
         bytes |-> b.bytes + line.size]
  BY DEF ReplayLine
<1> HIDE DEF v
<1>3. ~(1 > 1)
  OBVIOUS
<1>4. QED
  BY <1>1, <1>2, <1>3

(* The audit of a later line that the lifecycle admits.                    *)
LEMMA NextLine ==
  ASSUME NEW b, NEW line, NEW n \in Nat, n > 1, b.valid, line.seq = n - 1,
         line.event.kind # "header", Admits(b.life, line.event)
  PROVE  ReplayLine(b, line, n) =
           [valid |-> TRUE, life |-> Admit(b.life, line.event), bytes |-> b.bytes + line.size]
<1> DEFINE v == /\ b.valid
                /\ line.seq = n - 1
                /\ (line.event.kind = "header") <=> (n = 1)
                /\ n > 1 => Admits(b.life, line.event)
<1>1. v = TRUE
  <2>1. n # 1
    OBVIOUS
  <2>2. (line.event.kind = "header") <=> (n = 1)
    BY <2>1
  <2>3. QED
    BY <2>1, <2>2
<1>2. ReplayLine(b, line, n) =
        [valid |-> v, life |-> IF v /\ n > 1 THEN Admit(b.life, line.event) ELSE b.life,
         bytes |-> b.bytes + line.size]
  BY DEF ReplayLine
<1> HIDE DEF v
<1>3. QED
  BY <1>1, <1>2

(* create_journal: the header alone is a valid journal of a new lifecycle. *)
LEMMA HeaderReplayed ==
  ASSUME NEW size \in Nat, NEW h \in LineType, h.seq = 0, h.event.kind = "header", h.size = size
  PROVE  Valid(<<h>>, NewLifecycle, size)
<1>1. <<h>> = Append(<<>>, h) /\ <<>> \in Seq(LineType) /\ Len(<<>>) + 1 = 1
  OBVIOUS
<1>2. Replayed(<<h>>) = ReplayLine(NothingRead, h, 1)
  BY <1>1, ReplayedAppend, ReplayedNothing
<1>3. NothingRead.valid /\ NothingRead.life = NewLifecycle /\ NothingRead.bytes + h.size = size
  BY DEF NothingRead
<1>4. ReplayLine(NothingRead, h, 1) = [valid |-> TRUE, life |-> NothingRead.life,
      bytes |-> NothingRead.bytes + h.size]
  BY <1>3, FirstLine
<1>5. QED
  BY <1>2, <1>3, <1>4 DEF Valid

-----------------------------------------------------------------------------
(* The lifecycle and the chain.                                            *)

(* The fields an event has, by its kind.                                   *)
LEMMA EventShape ==
  ASSUME NEW e \in EventType
  PROVE  /\ e.kind \in {"header", "action-start", "action-end", "effect-before", "effect-after",
                        "cleanup", "evidence-failure", "terminal"}
         /\ e.kind \in {"action-start", "action-end", "effect-before", "effect-after"}
            => e.node \in Nodes
         /\ e.kind \in {"effect-before", "effect-after"} => e.effect \in Effects
            /\ e.attempt \in Attempts
         /\ e.kind = "cleanup" => /\ e.owner \in {"standard-host", "resource"}
                                  /\ e.ordinal \in Nat /\ e.outcome \in CleanupOutcomes
         /\ e.kind = "terminal" => /\ e.primary \in Primary /\ e.cleanup \in Seq(CleanupOutcomes)
                                   /\ e.assessment \in {"null", "true", "false"} /\ e.at \in Nat
  BY DEF EventType, CleanupEvents

(* What Front and Last leave of a sequence that is not empty.              *)
LEMMA FrontTyped ==
  ASSUME NEW S, NEW s \in Seq(S), s # <<>>
  PROVE  /\ Front(s) \in Seq(S) /\ Len(Front(s)) = Len(s) - 1 /\ Len(s) \in Nat \ {0}
         /\ \A i \in 1..(Len(s) - 1) : Front(s)[i] = s[i]
         /\ Last(s) \in S /\ Last(s) = s[Len(s)]
<1>1. Len(s) \in Nat \ {0}
  BY EmptySeq, LenProperties
<1>2. Front(s) = [i \in 1..(Len(s) - 1) |-> s[i]]
  BY <1>1 DEF Front
<1>3. /\ Front(s) \in Seq(S) /\ Len(Front(s)) = Len(s) - 1
      /\ \A i \in 1..(Len(s) - 1) : Front(s)[i] = s[i]
  <2>1. Len(s) - 1 \in Nat /\ \A i \in 1..(Len(s) - 1) : s[i] \in S
    BY <1>1
  <2>2. QED
    BY <1>2, <2>1, IsASeq
<1>4. Last(s) = s[Len(s)] /\ Last(s) \in S
  BY <1>1 DEF Last
<1>5. QED
  BY <1>1, <1>3, <1>4

(* JournalLifecycle::admit: the lifecycle keeps its type, and which events *)
(* change its open effects and its next attempt.                           *)
LEMMA AdmitTyped ==
  ASSUME NEW life \in LifeType, NEW e \in EventType, Admits(life, e)
  PROVE  /\ Admit(life, e) \in LifeType
         /\ Admit(life, e).terminal <=> e.kind = "terminal"
         /\ e.kind \notin {"effect-before", "effect-after"} =>
              /\ Admit(life, e).effects = life.effects
              /\ Admit(life, e).next_attempt = life.next_attempt
         /\ e.kind = "effect-before" =>
              /\ Admit(life, e).effects = Append(life.effects, OpenEffect(e))
              /\ Admit(life, e).next_attempt = life.next_attempt + 1
              /\ e.attempt = life.next_attempt
         /\ e.kind = "effect-after" =>
              /\ life.effects # <<>> /\ Last(life.effects) = OpenEffect(e)
              /\ Admit(life, e).effects = Front(life.effects)
              /\ Admit(life, e).next_attempt = life.next_attempt
         /\ e.kind = "terminal" => life.effects = <<>>
         /\ e.kind # "header"
<1> DEFINE new == Admit(life, e)
<1>0. ~life.terminal /\ e.kind # "header"
  BY EventShape DEF Admits
<1>1. CASE e.kind = "action-start"
  <2>1. new = [life EXCEPT !.acting = TRUE, !.actions = Append(life.actions, e.node)]
    BY <1>1 DEF Admit, LifeType
  <2>2. Append(life.actions, e.node) \in Seq(Nodes)
    BY <1>1, EventShape DEF LifeType
  <2>3. QED
    BY <1>0, <1>1, <2>1, <2>2 DEF LifeType
<1>2. CASE e.kind = "action-end"
  <2>1. new = [life EXCEPT !.actions = Front(life.actions)] /\ life.actions # <<>>
    BY <1>2 DEF Admit, LifeType, Admits
  <2>2. Front(life.actions) \in Seq(Nodes)
    BY <2>1, FrontTyped DEF LifeType
  <2>3. QED
    BY <1>0, <1>2, <2>1, <2>2 DEF LifeType
<1>3. CASE e.kind = "effect-before"
  <2>1. new = [life EXCEPT !.next_attempt = life.next_attempt + 1,
                           !.effects = Append(life.effects, OpenEffect(e))]
        /\ e.attempt = life.next_attempt
    BY <1>3 DEF Admit, LifeType, Admits
  <2>2. OpenEffect(e) \in [node : Nodes, effect : Effects, attempt : Attempts]
    BY <1>3, EventShape DEF OpenEffect
  <2>3. Append(life.effects, OpenEffect(e)) \in Seq([node : Nodes, effect : Effects,
        attempt : Attempts])
        /\ life.next_attempt + 1 \in Nat
    BY <2>2 DEF LifeType
  <2>4. QED
    BY <1>0, <1>3, <2>1, <2>3 DEF LifeType
<1>4. CASE e.kind = "effect-after"
  <2>1. new = [life EXCEPT !.effects = Front(life.effects)] /\ life.effects # <<>>
        /\ Last(life.effects) = OpenEffect(e)
    BY <1>4 DEF Admit, LifeType, Admits
  <2>2. Front(life.effects) \in Seq([node : Nodes, effect : Effects, attempt : Attempts])
    BY <2>1, FrontTyped DEF LifeType
  <2>3. QED
    BY <1>0, <1>4, <2>1, <2>2 DEF LifeType
<1>5. CASE e.kind = "cleanup"
  <2>1. new = [life EXCEPT !.cleaning = TRUE, !.ids = life.ids \cup {<<e.owner, e.ordinal>>},
                           !.ordinals = Append(life.ordinals, e.ordinal),
                           !.cleanup = Append(life.cleanup, e.outcome)]
    BY <1>5 DEF Admit, LifeType
  <2>2. /\ life.ids \cup {<<e.owner, e.ordinal>>} \in SUBSET ({"standard-host",
           "resource"} \X Nat)
        /\ Append(life.ordinals, e.ordinal) \in Seq(Nat)
        /\ Append(life.cleanup, e.outcome) \in Seq(CleanupOutcomes)
    BY <1>5, EventShape DEF LifeType
  <2>3. QED
    BY <1>0, <1>5, <2>1, <2>2 DEF LifeType
<1>6. CASE e.kind = "terminal"
  <2>1. new = [life EXCEPT !.terminal = TRUE] /\ life.effects = <<>>
    BY <1>6 DEF Admit, Admits, Settled, NoOpenEffect
  <2>2. QED
    <3>1. new \in LifeType /\ new.terminal
      BY <2>1 DEF LifeType
    <3>2. new.effects = life.effects /\ new.next_attempt = life.next_attempt
      BY <2>1 DEF LifeType
    <3>3. QED
      BY <1>0, <1>6, <2>1, <3>1, <3>2
<1>7. CASE e.kind = "evidence-failure"
  <2>1. new = life
    BY <1>7 DEF Admit
  <2>2. QED
    BY <1>0, <1>7, <2>1
<1>8. QED
  BY <1>0, <1>1, <1>2, <1>3, <1>4, <1>5, <1>6, <1>7, EventShape

(* JournalChain::append: the chain stays within its limits.                *)
LEMMA AppendedTyped ==
  ASSUME NEW c \in ChainType, NEW e \in EventType, NEW size \in Nat, CanAppend(c, e, size)
  PROVE  /\ Appended(c, e, size) \in ChainType
         /\ Appended(c, e, size).life = Admit(c.life, e)
         /\ Appended(c, e, size).lines = c.lines + 1
         /\ Appended(c, e, size).bytes = c.bytes + size
         /\ Appended(c, e, size).policy = c.policy
         /\ Appended(c, e, size).terminal <=> e.kind = "terminal"
         /\ ~c.terminal /\ Admits(c.life, e)
         /\ e.kind = "terminal" => Assessed(c.policy, e)
<1>1. c.life \in LifeType /\ c.lines \in 1..MaxLines /\ c.bytes \in 0..MaxBytes
      /\ c.terminal \in BOOLEAN
  BY DEF ChainType
<1>2. c.lines + 1 \in 1..MaxLines /\ c.bytes + size \in 0..MaxBytes
  BY <1>1, ChainAssumption DEF CanAppend, Fits
<1>3. Admit(c.life, e) \in LifeType /\ Admits(c.life, e)
  BY <1>1, AdmitTyped DEF CanAppend
<1>4. Appended(c, e, size) = [c EXCEPT !.lines = c.lines + 1, !.bytes = c.bytes + size,
                                       !.terminal = (e.kind = "terminal"),
                                         !.life = Admit(c.life, e)]
  BY DEF Appended, ChainType
<1>5. (e.kind = "terminal") \in BOOLEAN
  OBVIOUS
<1>6. QED
  BY <1>1, <1>2, <1>3, <1>4, <1>5 DEF ChainType, CanAppend

(* A line the chain takes is a line the audit accepts: append and          *)
(* audit_journal agree.                                                    *)
LEMMA AppendReplayed ==
  ASSUME NEW c \in ChainType, NEW lines \in Seq(LineType), NEW line \in LineType,
         Len(lines) = c.lines, Valid(lines, c.life, c.bytes),
         line.seq = c.lines, CanAppend(c, line.event, line.size)
  PROVE  Valid(Append(lines, line), Admit(c.life, line.event), c.bytes + line.size)
<1>1. c.lines \in Nat /\ c.lines >= 1 /\ line.event \in EventType
  BY DEF ChainType, LineType
<1>2. Replayed(Append(lines, line)) = ReplayLine(Replayed(lines), line, c.lines + 1)
  BY ReplayedAppend
<1>3. Admits(c.life, line.event) /\ line.event.kind # "header"
  BY <1>1, AdmitTyped DEF CanAppend, ChainType
<1> DEFINE b == Replayed(lines)
<1>4. b.valid = TRUE /\ b.life = c.life /\ b.bytes = c.bytes
  BY DEF Valid
<1> HIDE DEF b
<1>5. ReplayLine(b, line, c.lines + 1) = [valid |-> TRUE, life |-> Admit(c.life, line.event),
      bytes |-> c.bytes + line.size]
  <2>1. c.lines + 1 \in Nat /\ c.lines + 1 > 1 /\ line.seq = (c.lines + 1) - 1
    BY <1>1
  <2>2. QED
    BY <1>1, <1>3, <1>4, <2>1, NextLine
<1>6. QED
  BY <1>2, <1>5 DEF Valid, b

(* audit_journal: the verdict on a file whose lines are valid.             *)
LEMMA AuditOf ==
  ASSUME NEW lines, NEW torn \in BOOLEAN, NEW life \in LifeType, NEW bytes,
         Valid(lines, life, bytes),
         lines # <<>>, ~(Len(lines) > MaxLines), ~(bytes > MaxBytes)
  PROVE  /\ ~life.terminal => Audit(lines, torn) = "incomplete"
         /\ (/\ life.terminal /\ ~torn /\ ~(Last(lines).event.at < lines[1].event.at)
             /\ Assessed(lines[1].event.policy, Last(lines).event)) => Audit(lines,
                torn) = "complete"
         /\ Audit(lines, torn) = "complete" => life.terminal
<1> DEFINE end == Replayed(lines)
<1>1. end.valid = TRUE /\ end.life = life /\ end.bytes = bytes
  BY DEF Valid
<1>2. life.terminal \in BOOLEAN
  BY DEF LifeType
<1> HIDE DEF end
<1> DEFINE bad == \/ torn \/ Last(lines).event.at < lines[1].event.at
                  \/ ~Assessed(lines[1].event.policy, Last(lines).event)
<1>3. Audit(lines, torn) = IF lines = <<>> \/ Len(lines) > MaxLines \/ end.bytes > MaxBytes
      \/ ~end.valid
                              \/ (end.life.terminal /\ bad)
                           THEN "refused" ELSE IF end.life.terminal THEN "complete" ELSE "incomplete"
  BY DEF Audit, end
<1>4. QED
  BY <1>1, <1>2, <1>3

-----------------------------------------------------------------------------
(* The file.                                                               *)

(* A prefix of a sequence, and the sequence one element longer.            *)
LEMMA BaseIs ==
  ASSUME NEW S, NEW d \in Seq(S), NEW n \in 0..Len(d)
  PROVE  /\ SubSeq(d, 1, n) \in Seq(S) /\ Len(SubSeq(d, 1, n)) = n
         /\ \A i \in 1..n : SubSeq(d, 1, n)[i] = d[i]
         /\ n = Len(d) => SubSeq(d, 1, n) = d
         /\ n + 1 = Len(d) => d = Append(SubSeq(d, 1, n), Last(d))
         /\ Len(d) \in Nat /\ DOMAIN d = 1..Len(d)
         /\ n > 0 => Last(SubSeq(d, 1, n)) = d[n]
<1>1. Len(d) \in Nat /\ DOMAIN d = 1..Len(d) /\ n \in Nat
  OBVIOUS
<1>2. SubSeq(d, 1, n) = [i \in 1..n |-> d[i]]
  BY <1>1
<1>3. /\ SubSeq(d, 1, n) \in Seq(S) /\ Len(SubSeq(d, 1, n)) = n
      /\ \A i \in 1..n : SubSeq(d, 1, n)[i] = d[i]
  BY <1>1, <1>2
<1>4. ASSUME n = Len(d) PROVE SubSeq(d, 1, n) = d
  BY <1>1, <1>2, <1>4, LenProperties
<1>5. ASSUME n + 1 = Len(d) PROVE d = Append(SubSeq(d, 1, n), Last(d))
  <2> DEFINE b == SubSeq(d, 1, n)
             a == Append(b, d[n + 1])
  <2>1. Last(d) = d[n + 1] /\ d[n + 1] \in S
    BY <1>1, <1>5 DEF Last
  <2>2. b \in Seq(S) /\ Len(b) = n /\ \A i \in 1..n : b[i] = d[i]
    BY <1>3
  <2> HIDE DEF b
  <2>3. a \in Seq(S) /\ Len(a) = n + 1 /\ a[n + 1] = d[n + 1] /\ \A i \in 1..n : a[i] = b[i]
    BY <1>1, <2>1, <2>2
  <2> HIDE DEF a
  <2>4. \A i \in 1..Len(d) : a[i] = d[i]
    BY <1>1, <1>5, <2>2, <2>3
  <2>5. a = d
    BY <1>5, <2>3, <2>4, SeqEqual
  <2>6. QED
    BY <2>1, <2>5 DEF a, b
<1>6. ASSUME n > 0 PROVE Last(SubSeq(d, 1, n)) = d[n]
  BY <1>1, <1>3, <1>6 DEF Last
<1>7. QED
  BY <1>1, <1>3, <1>4, <1>5, <1>6

(* A sequence with one element appended.                                   *)
LEMMA Prefixed ==
  ASSUME NEW S, NEW d \in Seq(S), NEW x \in S
  PROVE  /\ Append(d, x) \in Seq(S) /\ Len(Append(d, x)) = Len(d) + 1 /\ Len(d) \in Nat
         /\ \A i \in 1..Len(d) : Append(d, x)[i] = d[i]
         /\ Append(d, x)[Len(d) + 1] = x /\ Last(Append(d, x)) = x
         /\ SubSeq(Append(d, x), 1, Len(d)) = d
<1> DEFINE a == Append(d, x)
           b == SubSeq(a, 1, Len(d))
<1>1. /\ a \in Seq(S) /\ Len(a) = Len(d) + 1 /\ Len(d) \in Nat
      /\ \A i \in 1..Len(d) : a[i] = d[i]
      /\ a[Len(d) + 1] = x
  OBVIOUS
<1>2. Last(a) = x
  BY <1>1 DEF Last
<1> HIDE DEF a
<1>3. Len(d) \in 0..Len(a)
  BY <1>1
<1>4. b \in Seq(S) /\ Len(b) = Len(d) /\ \A i \in 1..Len(d) : b[i] = a[i]
  BY <1>1, <1>3, BaseIs
<1> HIDE DEF b
<1>5. b = d
  BY <1>1, <1>4, SeqEqual
<1>6. QED
  BY <1>1, <1>2, <1>5 DEF a, b

(* The parts of the invariant about the file.                              *)
FileInv == PendingInv /\ (Site \notin Setup => ChainInv) /\ AccountInv

(* No more lines are synced than written.                                  *)
SyncedWithin == disk.synced \in 0..Len(disk.lines)

(* No more lines are synced than written.                                  *)
LEMMA Within ==
  ASSUME WorldTypes, PendingInv
  PROVE  SyncedWithin /\ Len(disk.lines) \in Nat
<1>1. disk.lines \in Seq(LineType) /\ disk.synced \in Nat
  BY DEF WorldTypes, DiskType
<1>2. Len(disk.lines) \in Nat
  BY <1>1
<1>3. QED
  BY <1>1, <1>2 DEF PendingInv, SyncedWithin

(* A step that leaves the chain and the lines of the file alone; an effect *)
(* that reaches the host is open.                                          *)
Computes ==
  /\ chain' = chain
  /\ disk'.lines = disk.lines /\ disk'.synced = disk.synced /\ (disk'.torn <=> disk.torn)
  /\ journal'.failed <=> journal.failed
  /\ pc # "sync" /\ pc' # "sync"
  /\ Site' \notin Setup => Site \notin Setup
  /\ \A p \in performed' : p \in performed \/ IsOpen(p)

(* A step that leaves chain and lines alone keeps the invariant of the     *)
(* file.                                                                   *)
LEMMA ComputesFile ==
  ASSUME FileInv, Computes
  PROVE  FileInv'
<1>3. PendingInv'
  BY DEF Computes, FileInv, PendingInv
<1>4. ASSUME Site' \notin Setup PROVE ChainInv'
  <2>1. Base' = Base
    BY DEF Computes, Base
  <2>2. QED
    BY <1>4, <2>1 DEF Computes, FileInv, ChainInv
<1>5. AccountInv'
  <2>1. Accounted(chain.life, disk.lines, disk.synced, performed)
    BY DEF FileInv, AccountInv
  <2>2. ASSUME NEW p \in performed'
        PROVE  /\ Recorded(disk.lines, disk.synced, "effect-before", p)
               /\ OpenIn(chain.life, p) \/ Recorded(disk.lines, disk.synced, "effect-after", p)
    <3>1. CASE p \in performed
      BY <2>1, <3>1 DEF Accounted
    <3>2. CASE OpenIn(chain.life, p)
      <4>1. PICK i \in DOMAIN chain.life.effects : /\ chain.life.effects[i].effect = p.effect
                                                   /\ chain.life.effects[i].attempt = p.attempt
        BY <3>2 DEF OpenIn
      <4>2. Recorded(disk.lines, disk.synced, "effect-before", chain.life.effects[i])
        BY <2>1, <4>1 DEF Accounted
      <4>3. QED
        BY <3>2, <4>1, <4>2 DEF Recorded
    <3>3. QED
      BY <2>2, <3>1, <3>2 DEF Computes, IsOpen
  <2>3. Accounted(chain.life, disk.lines, disk.synced, performed')
    BY <2>1, <2>2 DEF Accounted
  <2>4. QED
    BY <2>3 DEF Computes, AccountInv
<1>6. QED
  BY <1>3, <1>4, <1>5 DEF FileInv

(* AppendWrite: the line is in the file, not yet durable, and is the one   *)
(* the chain admits.                                                       *)
LEMMA WriteFile ==
  ASSUME Types, FileInv, Site \notin Setup, AppendWrite, io.event.kind = "terminal"
         => io.event.at \in FinishTimes
  PROVE  /\ FileInv' /\ Site' = Site /\ disk' \in DiskType /\ io' \in IoType
         /\ disk'.name = disk.name /\ disk'.lines # <<>> /\ Last(disk'.lines).event = io.event
<1>1. PICK size \in Sizes : /\ CanAppend(chain, io.event, size)
                            /\ disk' = [disk EXCEPT !.lines = Append(@, LineOf(chain, io.event,
                               size))]
                            /\ io' = [io EXCEPT !.chain = Appended(chain, io.event, size)]
  BY DEF AppendWrite
<1>2. /\ pc = "append" /\ pc' = "sync" /\ ~journal.failed
      /\ chain' = chain /\ journal' = journal /\ performed' = performed
  BY DEF AppendWrite, evalVars
<1> DEFINE line == LineOf(chain, io.event, size)
           d == disk.lines
<1>3. /\ d \in Seq(LineType) /\ disk \in DiskType /\ io \in IoType /\ chain \in ChainType
      /\ size \in Nat /\ io.event \in EventType
  BY RunAssumption DEF Types, WorldTypes, ControlTypes, DiskType, IoType
<1>4. line \in LineType /\ line.seq = chain.lines /\ line.event = io.event /\ line.size = size
  BY <1>3 DEF LineOf, LineType, ChainType
<1>5. disk.synced = Len(d) /\ ~disk.torn
  BY <1>2 DEF FileInv, PendingInv
<1> HIDE DEF line
<1>6. /\ disk'.lines = Append(d, line) /\ disk'.synced = disk.synced /\ disk'.torn = disk.torn
      /\ disk'.name = disk.name
  BY <1>1, <1>3 DEF DiskType, line
<1>7. /\ io'.chain = Appended(chain, io.event, size) /\ io'.event = io.event
      /\ io'.site = io.site
  BY <1>1, <1>3 DEF IoType
<1>8. Appended(chain, io.event, size) \in ChainType
  BY <1>1, <1>3, AppendedTyped
<1>9. io' \in IoType /\ Site' = Site
  BY <1>1, <1>2, <1>3, <1>7, <1>8 DEF IoType, Site
<1>10. /\ Append(d, line) \in Seq(LineType) /\ Len(Append(d, line)) = Len(d) + 1
       /\ \A i \in 1..Len(d) : Append(d, line)[i] = d[i]
       /\ Last(Append(d, line)) = line
       /\ SubSeq(Append(d, line), 1, Len(d)) = d /\ Len(d) \in Nat
  BY <1>3, <1>4, Prefixed
<1>11. disk' \in DiskType
  BY <1>1, <1>3, <1>10 DEF DiskType, line
<1>12. Base = d /\ Base' = d
  <2>1. Base = d
    BY <1>3, <1>5, <1>10, BaseIs DEF Base
  <2>2. QED
    BY <1>5, <1>6, <1>10, <2>1 DEF Base
<1>13. PendingInv'
  BY <1>1, <1>2, <1>4, <1>5, <1>6, <1>7, <1>10 DEF PendingInv
<1>14. ChainInv'
  <2>1. ChainInv /\ chain.lines \in Nat /\ chain.lines >= 1
    BY <1>3 DEF FileInv, ChainType
  <2>2. disk'.lines[1] = d[1]
    BY <1>5, <1>6, <1>10, <2>1 DEF ChainInv
  <2>3. QED
    BY <1>2, <1>6, <1>12, <2>1, <2>2 DEF ChainInv
<1>15. AccountInv'
  <2>1. Accounted(chain.life, d, Len(d), performed)
    BY <1>5 DEF FileInv, AccountInv
  <2>2. Accounted(chain.life, Append(d, line), Len(d), performed)
    BY <1>10, <2>1 DEF Accounted, Recorded
  <2>3. QED
    BY <1>2, <1>5, <1>6, <2>2 DEF AccountInv
<1>16. disk'.lines # <<>> /\ Last(disk'.lines).event = io.event
  BY <1>4, <1>6, <1>10
<1>17. QED
  BY <1>6, <1>9, <1>11, <1>13, <1>14, <1>15, <1>16 DEF FileInv

(* A failed write or sync changes no line; nothing will follow it.         *)
LEMMA FailFile ==
  ASSUME Types, FileInv, Site \notin Setup, AppendWriteFails \/ AppendSyncFails
  PROVE  /\ FileInv' /\ disk' \in DiskType /\ disk'.name = disk.name /\ disk'.lines = disk.lines
         /\ disk'.synced = disk.synced
<1>1. /\ pc' = io.site /\ chain' = chain /\ performed' = performed
      /\ journal' = [journal EXCEPT !.failed = TRUE]
      /\ ~journal.failed \/ pc = "sync"
  BY DEF AppendWriteFails, AppendSyncFails, Return, evalVars
<1>2. io.site \in Sites /\ disk \in DiskType /\ journal \in JournalType
  BY DEF Types, ControlTypes, WorldTypes, AppendWriteFails, AppendSyncFails
<1>3. pc' # "sync" /\ journal'.failed
  BY <1>1, <1>2 DEF Sites, JournalType
<1>4. /\ disk'.lines = disk.lines /\ disk'.synced = disk.synced /\ disk'.name = disk.name
      /\ disk' \in DiskType
      /\ pc = "sync" => disk' = disk
  BY <1>2 DEF AppendWriteFails, AppendSyncFails, DiskType
<1>5. PendingInv'
  <2>1. CASE pc = "sync"
    BY <1>1, <1>3, <1>4, <2>1 DEF FileInv, PendingInv
  <2>2. CASE pc # "sync"
    <3>1. Len(disk.lines) = disk.synced
      BY <1>1, <2>2 DEF FileInv, PendingInv
    <3>2. QED
      BY <1>3, <1>4, <3>1 DEF PendingInv
  <2>3. QED
    BY <2>1, <2>2
<1>6. Base' = Base
  BY <1>4 DEF Base
<1>7. ChainInv'
  BY <1>1, <1>4, <1>6 DEF FileInv, ChainInv
<1>8. AccountInv'
  BY <1>1, <1>4 DEF FileInv, AccountInv
<1>9. QED
  BY <1>4, <1>5, <1>7, <1>8 DEF FileInv

(* The lifecycle keeps account of every effect over one more line: only    *)
(* the innermost open effect is closed, by its own effect-after.           *)
LEMMA AccountStep ==
  ASSUME NEW life \in LifeType, NEW e \in EventType, Admits(life, e), NEW d, NEW n \in Nat,
         NEW done,
         d[n + 1].event = e, Accounted(life, d, n, done)
  PROVE  /\ Accounted(Admit(life, e), d, n + 1, done)
         /\ \A p : OpenIn(life, p) /\ ~(e.kind = "effect-after" /\ e.attempt = p.attempt)
                     => OpenIn(Admit(life, e), p)
         /\ e.kind = "effect-before" =>
              OpenIn(Admit(life, e), [effect |-> e.effect, attempt |-> e.attempt])
<1> DEFINE new == Admit(life, e).effects
           len == Len(life.effects)
           next == Admit(life, e).next_attempt
<1>1. /\ e.kind \notin {"effect-before", "effect-after"} =>
            new = life.effects /\ next = life.next_attempt
      /\ e.kind = "effect-before" =>
            /\ new = Append(life.effects, OpenEffect(e))
            /\ next = life.next_attempt + 1 /\ e.attempt = life.next_attempt
      /\ e.kind = "effect-after" =>
            /\ life.effects # <<>> /\ Last(life.effects) = OpenEffect(e)
            /\ new = Front(life.effects) /\ next = life.next_attempt
  BY AdmitTyped
<1>2. /\ life.effects \in Seq([node : Nodes, effect : Effects, attempt : Attempts])
      /\ life.next_attempt \in Nat
  BY DEF LifeType
<1>3. DOMAIN life.effects = 1..len /\ len \in Nat
      /\ \A i \in 1..len : life.effects[i].attempt \in Nat
  <2>1. Attempts \subseteq Nat
    BY RunAssumption DEF Attempts
  <2>2. DOMAIN life.effects = 1..len /\ len \in Nat
    BY <1>2
  <2>3. ASSUME NEW i \in 1..len PROVE life.effects[i].attempt \in Nat
    <3>1. life.effects[i] \in [node : Nodes, effect : Effects, attempt : Attempts]
      BY <1>2, ElementOfSeq
    <3>2. QED
      BY <2>1, <3>1
  <2>4. QED
    BY <2>2, <2>3
<1>4. OpenEffect(e).effect = e.effect /\ OpenEffect(e).attempt = e.attempt
  BY DEF OpenEffect
<1>5. /\ \A i \in DOMAIN life.effects :
            /\ life.effects[i].attempt < life.next_attempt
            /\ Recorded(d, n, "effect-before", life.effects[i])
      /\ \A i, k \in DOMAIN life.effects : i < k
         => life.effects[i].attempt < life.effects[k].attempt
      /\ \A p \in done : /\ Recorded(d, n, "effect-before", p)
                         /\ OpenIn(life, p) \/ Recorded(d, n, "effect-after", p)
  BY DEF Accounted
<1>6. \A k, p : Recorded(d, n, k, p) => Recorded(d, n + 1, k, p)
  BY DEF Recorded
<1>7. ASSUME NEW p, p.effect = e.effect, p.attempt = e.attempt PROVE Recorded(d, n + 1, e.kind, p)
  <2>1. n + 1 \in 1..(n + 1)
    OBVIOUS
  <2>2. QED
    BY <1>7, <2>1 DEF Recorded
<1> HIDE DEF new, next, len
<1>8. CASE e.kind \notin {"effect-before", "effect-after"}
  <2>1. new = life.effects /\ next = life.next_attempt
    BY <1>1, <1>8
  <2>2. \A p : OpenIn(Admit(life, e), p) <=> OpenIn(life, p)
    BY <2>1 DEF OpenIn, new
  <2>3. QED
    BY <1>5, <1>6, <1>8, <2>1, <2>2 DEF Accounted, new, next
<1>9. CASE e.kind = "effect-before"
  <2>1. new = Append(life.effects, OpenEffect(e)) /\ next = life.next_attempt + 1
        /\ e.attempt = life.next_attempt
    BY <1>1, <1>9
  <2>2. OpenEffect(e) \in [node : Nodes, effect : Effects, attempt : Attempts]
    BY <1>9, EventShape DEF OpenEffect
  <2>3. /\ DOMAIN new = 1..(len + 1) /\ new[len + 1] = OpenEffect(e)
        /\ \A i \in 1..len : new[i] = life.effects[i]
    BY <1>2, <1>3, <2>1, <2>2 DEF len
  <2>4. \A p : OpenIn(life, p) => OpenIn(Admit(life, e), p)
    BY <1>3, <2>3 DEF OpenIn, new
  <2>5. OpenIn(Admit(life, e), [effect |-> e.effect, attempt |-> e.attempt])
    <3>1. /\ len + 1 \in DOMAIN new
          /\ new[len + 1].effect = e.effect /\ new[len + 1].attempt = e.attempt
      BY <1>3, <1>4, <2>3
    <3>2. QED
      BY <3>1 DEF OpenIn, new
  <2>6. ASSUME NEW i \in DOMAIN new
        PROVE  new[i].attempt < next /\ Recorded(d, n + 1, "effect-before", new[i])
    <3>1. CASE i \in 1..len
      BY <1>2, <1>3, <1>5, <1>6, <2>1, <2>3, <3>1
    <3>2. CASE i = len + 1
      <4>1. new[i].attempt = e.attempt /\ new[i].effect = e.effect
        BY <1>4, <2>3, <3>2
      <4>2. QED
        BY <1>2, <1>7, <1>9, <2>1, <4>1
    <3>3. QED
      BY <1>3, <2>3, <3>1, <3>2
  <2>7. ASSUME NEW i \in DOMAIN new, NEW k \in DOMAIN new, i < k
               PROVE new[i].attempt < new[k].attempt
    <3>1. i \in 1..len /\ k \in 1..(len + 1)
      BY <1>3, <2>3, <2>7
    <3>2. CASE k \in 1..len
      BY <1>3, <1>5, <2>3, <2>7, <3>1, <3>2
    <3>3. CASE k = len + 1
      BY <1>3, <1>4, <1>5, <2>1, <2>3, <3>1, <3>3
    <3>4. QED
      BY <1>3, <3>1, <3>2, <3>3
  <2>8. \A p \in done : /\ Recorded(d, n + 1, "effect-before", p)
                        /\ OpenIn(Admit(life, e), p) \/ Recorded(d, n + 1, "effect-after", p)
    BY <1>5, <1>6, <2>4
  <2>9. QED
    BY <2>4, <2>5, <2>6, <2>7, <2>8 DEF Accounted, new, next
<1>10. CASE e.kind = "effect-after"
  <2>1. /\ new = Front(life.effects) /\ next = life.next_attempt
        /\ life.effects # <<>> /\ Last(life.effects) = OpenEffect(e)
    BY <1>1, <1>10
  <2>2. /\ len \in Nat \ {0} /\ Len(new) = len - 1
        /\ new \in Seq([node : Nodes, effect : Effects, attempt : Attempts])
        /\ \A i \in 1..(len - 1) : new[i] = life.effects[i]
        /\ life.effects[len] = OpenEffect(e)
    BY <1>2, <2>1, FrontTyped DEF len
  <2>3. DOMAIN new = 1..(len - 1)
    BY <2>2
  <2>4. ASSUME NEW p, OpenIn(life, p), ~(e.effect = p.effect /\ e.attempt = p.attempt)
        PROVE  OpenIn(Admit(life, e), p)
    <3>1. PICK i \in 1..len : life.effects[i].effect = p.effect
          /\ life.effects[i].attempt = p.attempt
      BY <1>3, <2>4 DEF OpenIn
    <3>2. i # len
      BY <1>4, <2>2, <2>4, <3>1
    <3>3. i \in 1..(len - 1) /\ new[i].effect = p.effect /\ new[i].attempt = p.attempt
      BY <2>2, <3>1, <3>2
    <3>4. QED
      BY <2>3, <3>3 DEF OpenIn, new
  <2>5. ASSUME NEW i \in DOMAIN new
        PROVE  new[i].attempt < next /\ Recorded(d, n + 1, "effect-before", new[i])
    <3>1. i \in DOMAIN life.effects /\ new[i] = life.effects[i]
      BY <1>3, <2>2, <2>3
    <3>2. QED
      BY <1>5, <1>6, <2>1, <3>1
  <2>6. ASSUME NEW i \in DOMAIN new, NEW k \in DOMAIN new, i < k
               PROVE new[i].attempt < new[k].attempt
    BY <1>3, <1>5, <2>2, <2>3, <2>6
  <2>7. ASSUME NEW p \in done
        PROVE  /\ Recorded(d, n + 1, "effect-before", p)
               /\ OpenIn(Admit(life, e), p) \/ Recorded(d, n + 1, "effect-after", p)
    <3>1. CASE e.effect = p.effect /\ e.attempt = p.attempt
      BY <1>5, <1>6, <1>7, <1>10, <3>1
    <3>2. CASE ~(e.effect = p.effect /\ e.attempt = p.attempt)
      BY <1>5, <1>6, <2>4, <3>2
    <3>3. QED
      BY <3>1, <3>2
  <2>8. QED
    BY <1>10, <2>4, <2>5, <2>6, <2>7 DEF Accounted, new, next
<1>11. QED
  BY <1>8, <1>9, <1>10

(* AppendSync: the chain advances with the durable lines.                  *)
LEMMA SyncFile ==
  ASSUME Types, FileInv, Site \notin Setup, AppendSync
  PROVE  /\ FileInv' /\ disk' \in DiskType /\ chain' \in ChainType
         /\ disk'.name = disk.name /\ disk'.lines = disk.lines
         /\ Last(disk.lines).event = io.event
         /\ ~chain.terminal
         /\ chain'.terminal <=> io.event.kind = "terminal"
         /\ \A p : IsOpen(p) /\ ~(io.event.kind = "effect-after" /\ io.event.attempt = p.attempt)
                     => IsOpen(p)'
         /\ io.event.kind = "effect-before" =>
              OpenIn(chain'.life, [effect |-> io.event.effect, attempt |-> io.event.attempt])
<1> DEFINE d == disk.lines
           line == Last(d)
           e == io.event
           life == chain.life
<1>1. /\ pc = "sync" /\ disk' = [disk EXCEPT !.synced = Len(d)] /\ chain' = io.chain
      /\ pc' = io.site /\ journal' = journal /\ performed' = performed
  BY DEF AppendSync, Return, evalVars
<1>2. /\ d \in Seq(LineType) /\ disk \in DiskType /\ io \in IoType /\ chain \in ChainType
      /\ e \in EventType /\ io.site \in Sites
  BY <1>1 DEF Types, WorldTypes, ControlTypes, DiskType, IoType
<1>3. /\ Len(d) = disk.synced + 1 /\ ~journal.failed /\ ~disk.torn /\ disk.synced \in Nat
      /\ line.seq = chain.lines /\ CanAppend(chain, line.event, line.size) /\ line.event = e
      /\ chain' = Appended(chain, e, line.size)
      /\ e.kind = "terminal" => e.at \in FinishTimes
  BY <1>1, <1>2 DEF FileInv, PendingInv, DiskType
<1>4. ChainInv /\ chain.lines \in Nat /\ chain.lines >= 1 /\ disk.synced = chain.lines
  BY <1>2 DEF FileInv, ChainInv, ChainType
<1>5. disk.synced \in 0..Len(d) /\ Len(d) \in Nat
  BY <1>3
<1>6. /\ Base \in Seq(LineType) /\ Len(Base) = disk.synced /\ d = Append(Base, line)
      /\ SubSeq(d, 1, Len(d)) = d
  <2>1. Len(d) \in 0..Len(d)
    BY <1>5
  <2>2. SubSeq(d, 1, Len(d)) = d
    BY <1>2, <2>1, BaseIs
  <2>3. QED
    <3>1. disk.synced + 1 = Len(d)
      BY <1>3
    <3>2. QED
      BY <1>2, <1>5, <2>2, <3>1, BaseIs DEF Base
<1>7. line \in LineType /\ line.size \in Nat /\ line = d[Len(d)]
  <2>1. Len(d) \in 1..Len(d)
    BY <1>3
  <2>2. line = d[Len(d)] /\ d[Len(d)] \in LineType
    BY <1>2, <2>1 DEF Last
  <2>3. QED
    BY <2>2 DEF LineType
<1>8. /\ disk'.synced = Len(d) /\ disk'.lines = d /\ disk'.torn = disk.torn
      /\ disk'.name = disk.name
      /\ disk' \in DiskType
  BY <1>1, <1>2, <1>5 DEF DiskType
<1>9. Base' = d
  BY <1>6, <1>8 DEF Base
<1>10. /\ chain' \in ChainType /\ chain'.life = Admit(life, e) /\ chain'.lines = chain.lines + 1
       /\ chain'.bytes = chain.bytes + line.size /\ chain'.policy = chain.policy
       /\ chain'.terminal <=> e.kind = "terminal"
       /\ ~chain.terminal /\ Admits(life, e) /\ (e.kind = "terminal" => Assessed(chain.policy, e))
  BY <1>2, <1>3, <1>7, AppendedTyped
<1>11. Valid(d, Admit(life, e), chain.bytes + line.size)
  <2>1. Valid(Base, life, chain.bytes)
    BY <1>4 DEF ChainInv, Valid
  <2>2. QED
    BY <1>2, <1>3, <1>4, <1>6, <1>7, <2>1, AppendReplayed
<1>a. life \in LifeType
  BY <1>2 DEF ChainType
<1>12. /\ Admit(life, e).terminal <=> e.kind = "terminal"
       /\ e.kind \notin {"effect-before", "effect-after"} =>
            /\ Admit(life, e).effects = life.effects
            /\ Admit(life, e).next_attempt = life.next_attempt
       /\ e.kind = "effect-before" =>
            /\ Admit(life, e).effects = Append(life.effects, OpenEffect(e))
            /\ Admit(life, e).next_attempt = life.next_attempt + 1
            /\ e.attempt = life.next_attempt
       /\ e.kind = "effect-after" =>
            /\ life.effects # <<>> /\ Last(life.effects) = OpenEffect(e)
            /\ Admit(life, e).effects = Front(life.effects)
            /\ Admit(life, e).next_attempt = life.next_attempt
       /\ e.kind = "terminal" => life.effects = <<>>
  BY <1>2, <1>10, <1>a, AdmitTyped
<1> HIDE DEF d, line, e, life
<1>13. PendingInv'
  <2>1. pc' # "sync"
    BY <1>1, <1>2 DEF Sites
  <2>2. QED
    BY <1>1, <1>3, <1>8, <2>1 DEF PendingInv
<1>14. ChainInv'
  <2>1. d[1].event = Header(StartTime, chain.policy)
    BY <1>4 DEF ChainInv, d
  <2>2. Replayed(d) = [valid |-> TRUE, life |-> chain'.life, bytes |-> chain'.bytes]
    BY <1>10, <1>11 DEF Valid
  <2>3. e.kind = "terminal" => chain'.life.effects = <<>>
    BY <1>10, <1>12
  <2>4. Last(d) = line
    BY DEF line
  <2>5. QED
    BY <1>3, <1>4, <1>8, <1>9, <1>10, <1>12, <2>1, <2>2, <2>3, <2>4 DEF ChainInv
<1>15. /\ Accounted(Admit(life, e), d, Len(d), performed)
       /\ \A p : OpenIn(life, p) /\ ~(e.kind = "effect-after" /\ e.attempt = p.attempt)
                   => OpenIn(Admit(life, e), p)
       /\ e.kind = "effect-before" =>
            OpenIn(Admit(life, e), [effect |-> e.effect, attempt |-> e.attempt])
  <2>1. d[disk.synced + 1].event = e
    BY <1>3, <1>7
  <2>2. Accounted(life, d, disk.synced, performed)
    BY DEF FileInv, AccountInv, life, d
  <2>3. e \in EventType /\ disk.synced \in Nat
    BY <1>2, <1>3
  <2>4. Admits(life, e)
    BY <1>10
  <2>5. /\ Accounted(Admit(life, e), d, disk.synced + 1, performed)
        /\ \A p : OpenIn(life, p) /\ ~(e.kind = "effect-after" /\ e.attempt = p.attempt)
                    => OpenIn(Admit(life, e), p)
        /\ e.kind = "effect-before" =>
             OpenIn(Admit(life, e), [effect |-> e.effect, attempt |-> e.attempt])
    BY <1>a, <2>1, <2>2, <2>3, <2>4, AccountStep
  <2>6. QED
    BY <1>3, <2>5
<1>16. AccountInv'
  BY <1>1, <1>8, <1>10, <1>15 DEF AccountInv
<1>17. \A p : IsOpen(p)' <=> OpenIn(Admit(life, e), p)
  BY <1>10 DEF IsOpen
<1>18. \A p : IsOpen(p) <=> OpenIn(life, p)
  BY DEF IsOpen, life
<1>19. QED
  BY <1>3, <1>8, <1>10, <1>13, <1>14, <1>15, <1>16, <1>17, <1>18 DEF FileInv, d, e, line

-----------------------------------------------------------------------------
(* Types of what the program makes.                                        *)

(* The events the program makes are events.                                *)
LEMMA EventsTyped ==
  /\ \A n \in Nodes : ActionStart(n) \in EventType /\ ActionEnd(n) \in EventType
  /\ \A n \in Nodes, f \in Effects, a \in Attempts :
       EffectBefore(n, f, a) \in EventType /\ EffectAfter(n, f, a) \in EventType
  /\ \A o \in {"standard-host", "resource"}, k \in Nat,
     c \in CleanupOutcomes : Cleanup(o, k, c) \in CleanupEvents
  /\ CleanupEvents \subseteq EventType
  /\ EvidenceFailure \in EventType
  /\ \A p \in Primary, c \in Seq(CleanupOutcomes), a \in {"null", "true", "false"}, at \in Nat :
       Terminal(p, c, a, at) \in EventType
  /\ \A at \in Nat, p \in Policies : Header(at, p) \in EventType
<1>1. \A n \in Nodes : ActionStart(n) \in EventType /\ ActionEnd(n) \in EventType
  BY DEF ActionStart, ActionEnd, EventType
<1>2. \A n \in Nodes, f \in Effects, a \in Attempts :
       EffectBefore(n, f, a) \in EventType /\ EffectAfter(n, f, a) \in EventType
  BY DEF EffectBefore, EffectAfter, EventType
<1>3. \A o \in {"standard-host", "resource"}, k \in Nat,
      c \in CleanupOutcomes : Cleanup(o, k, c) \in CleanupEvents
  BY DEF Cleanup, CleanupEvents
<1>4. CleanupEvents \subseteq EventType /\ EvidenceFailure \in EventType
  BY DEF EventType, EvidenceFailure
<1>5. \A p \in Primary, c \in Seq(CleanupOutcomes), a \in {"null", "true", "false"}, at \in Nat :
       Terminal(p, c, a, at) \in EventType
  BY DEF Terminal, EventType
<1>6. \A at \in Nat, p \in Policies : Header(at, p) \in EventType
  BY DEF Header, EventType
<1>7. QED
  BY <1>1, <1>2, <1>3, <1>4, <1>5, <1>6

(* A new lifecycle has nothing open.                                       *)
LEMMA LifeTyped == NewLifecycle \in LifeType /\ NewLifecycle.effects = <<>>
  /\ ~NewLifecycle.terminal
  BY DEF NewLifecycle, LifeType

(* JournalChain::begin_with_version: the chain of a header.                *)
LEMMA BeginTyped ==
  ASSUME NEW p \in Policies, NEW size \in 0..MaxBytes
  PROVE  /\ Begin(p, size) \in ChainType /\ ~Begin(p, size).terminal
         /\ Begin(p, size).life = NewLifecycle /\ Begin(p, size).lines = 1
         /\ Begin(p, size).bytes = size /\ Begin(p, size).policy = p
<1>1. 1 \in 1..MaxLines
  BY ChainAssumption
<1>2. QED
  BY <1>1, LifeTyped DEF Begin, ChainType

(* There is no append in progress.                                         *)
LEMMA NoIoTyped == NoIo \in IoType /\ NoIo.ok = FALSE /\ NoIo.site = "none"
  /\ NoIo.event = EvidenceFailure
<1>1. Begin("execution", 0) \in ChainType
  <2>1. 0 \in 0..MaxBytes
    BY ChainAssumption
  <2>2. QED
    BY <2>1, BeginTyped DEF Policies
<1>2. QED
  BY <1>1, EventsTyped DEF NoIo, IoType

(* A call of append.                                                       *)
LEMMA CallTyped ==
  ASSUME NEW s \in Sites, NEW e \in EventType, Call(s, e)
  PROVE  /\ io' \in IoType /\ pc' = "append" /\ Site' = s /\ io'.event = e /\ io'.ok = FALSE
         /\ io'.site = s
<1>1. pc' = "append" /\ io' = [NoIo EXCEPT !.site = s, !.event = e]
  BY DEF Call
<1>2. io' \in IoType /\ io'.event = e /\ io'.ok = FALSE /\ io'.site = s
  BY <1>1, NoIoTyped DEF IoType
<1>3. QED
  BY <1>1, <1>2 DEF Site

(* A return from append.                                                   *)
LEMMA ReturnTyped ==
  ASSUME ControlTypes, pc \in {"append", "sync"}, NEW ok \in BOOLEAN, Return(ok)
  PROVE  /\ io' \in IoType /\ pc' = io.site /\ Site' = Site /\ io'.event = io.event
         /\ io'.ok = ok /\ pc' \in Sites
<1>1. pc' = io.site /\ io' = [NoIo EXCEPT !.event = io.event, !.ok = ok] /\ io.site \in Sites
      /\ io \in IoType
  BY DEF Return, ControlTypes
<1>2. io' \in IoType /\ io'.event = io.event /\ io'.ok = ok
  BY <1>1, NoIoTyped DEF IoType
<1>3. QED
  BY <1>1, <1>2 DEF Site, Sites

-----------------------------------------------------------------------------
(* Steps of the closure.                                                   *)

(* The places inside the execution closure.                                *)
Working == Places \ (Setup \cup {"rename", "sync_parent"} \cup Closed)

(* A step inside the execution closure that is not part of an append.      *)
Proceeds ==
  /\ UNCHANGED <<hostVars, result>>
  /\ (journal'.failed <=> journal.failed) /\ (journal'.complete <=> journal.complete)
  /\ pc \notin {"append", "sync", "terminated"} /\ pc' \notin Sites \cup {"sync"}
  /\ Site \in Working /\ Site' \in Working
  /\ \A p \in performed' : p \in performed \/ IsOpen(p)

(* A step inside the closure keeps the file, its name and the evidence.    *)
LEMMA ProceedsEvidence ==
  ASSUME LiveInv, Proceeds
  PROVE  WorldTypes' /\ EndTypes' /\ FileInv' /\ NameInv' /\ EndInv' /\ ReceiptInv'
<1>1. UNCHANGED <<request, requested, faults, chain, disk, receipt, audit, exit, result>>
  BY DEF Proceeds, hostVars
<1>2. /\ Site \notin Setup /\ Site' \notin Setup /\ Site \notin Closed /\ Site' \notin Closed
      /\ Site' \notin {"rename", "sync_parent"} /\ Site \notin {"rename", "sync_parent"}
  BY DEF Proceeds, Working
<1>3. WorldTypes' /\ EndTypes'
  BY <1>1 DEF LiveInv, Types, WorldTypes, EndTypes
<1>4. FileInv'
  <2>1. Computes
    BY <1>1, <1>2 DEF Proceeds, Computes
  <2>2. FileInv
    BY DEF LiveInv, FileInv
  <2>3. QED
    BY <2>1, <2>2, ComputesFile
<1>5. NameInv'
  BY <1>1, <1>2 DEF LiveInv, NameInv
<1>6. EndInv'
  <2>1. ~chain.terminal /\ ~journal.complete /\ result = "running"
    BY <1>2 DEF LiveInv, EndInv, Proceeds
  <2>2. pc' # "terminated" /\ pc' \notin Sites
    BY DEF Proceeds, Sites
  <2>3. QED
    BY <1>1, <1>2, <2>1, <2>2 DEF EndInv, Proceeds
<1>7. ReceiptInv'
  <2>1. receipt.file \in {"absent", "reserved"} /\ ~audit.persisted
    BY <1>2 DEF LiveInv, ReceiptInv, Closed
  <2>2. QED
    BY <1>1, <1>2, <2>1 DEF ReceiptInv, Closed
<1>8. QED
  BY <1>3, <1>4, <1>5, <1>6, <1>7

(* The closure returns.                                                    *)
Closes ==
  /\ UNCHANGED <<request, requested, chain, disk, receipt, audit, exit, ops, todo>>
  /\ performed' = performed /\ faults' \in 0..MaxFaults /\ io' \in IoType
  /\ journal'.failed <=> journal.failed
  /\ journal' \in JournalType
  /\ pc \notin {"append", "sync"} /\ pc' = "closed"
  /\ Site \in Working \ Evaluating /\ result' \in {"err", "failure", "success"}

(* The closure returns: what it returns is what the terminal line says.    *)
LEMMA ClosesLive ==
  ASSUME LiveInv, Closes,
         \/ journal' = journal /\ pc # "terminated" /\ result' = "err"
         \/ /\ pc = "terminated" /\ journal' = [journal EXCEPT !.complete = io.ok]
            /\ result' = "success" =>
                 io.ok /\ journal.primary.class = "success" /\ ~CleanupFailed
  PROVE  LiveInv'
<1>1. UNCHANGED <<request, requested, chain, disk, receipt, audit, exit, ops, todo, performed>>
  BY DEF Closes
<1>2. Site' = "closed" /\ Site = pc /\ pc' = "closed"
  BY DEF Closes, Site
<1>3. /\ Site \notin Setup /\ Site \notin Closed /\ Site \notin Evaluating
      /\ Site \notin {"rename", "sync_parent"}
  BY DEF Closes, Working
<1>4. Types'
  BY <1>1, <1>2 DEF LiveInv, Types, WorldTypes, ControlTypes, EndTypes, Closes, Places, Closed
<1>5. CallInv' /\ OpsInv' /\ OpenInv'
  <2>1. ops.effects = <<>>
    BY <1>3 DEF LiveInv, OpsInv
  <2>2. CallInv'
    BY <1>2 DEF CallInv
  <2>3. OpsInv'
    BY <1>1, <1>2, <2>1 DEF LiveInv, OpsInv
  <2>4. OpenInv'
    BY <1>1, <1>2, <2>1 DEF OpenInv
  <2>5. QED
    BY <2>2, <2>3, <2>4
<1>6. FileInv'
  <2>1. Computes
    BY <1>1, <1>2, <1>3 DEF Closes, Computes, Setup
  <2>2. FileInv
    BY DEF LiveInv, FileInv
  <2>3. QED
    BY <2>1, <2>2, ComputesFile
<1>7. NameInv'
  BY <1>1, <1>2, <1>3 DEF LiveInv, NameInv, Setup
<1>8. ~journal.complete /\ result = "running"
  BY <1>3 DEF LiveInv, EndInv
<1>9. CASE pc # "terminated"
  <2>1. ~chain.terminal /\ journal' = journal /\ result' = "err"
    BY <1>8, <1>9 DEF LiveInv, EndInv
  <2>2. EndInv'
    BY <1>1, <1>2, <1>8, <2>1 DEF EndInv, Sites, Closed
  <2>3. ReceiptInv'
    BY <1>1, <1>2, <1>3 DEF LiveInv, ReceiptInv, Closed
  <2>4. QED
    BY <1>4, <1>5, <1>6, <1>7, <2>2, <2>3 DEF LiveInv, FileInv
<1>10. CASE pc = "terminated"
  <2>1. journal' = [journal EXCEPT !.complete = io.ok] /\ journal \in JournalType /\ io \in IoType
    BY <1>10 DEF LiveInv, Types, ControlTypes
  <2>2. /\ journal'.complete <=> io.ok
        /\ journal'.primary = journal.primary /\ journal'.cleanup = journal.cleanup
        /\ journal'.assessment = journal.assessment /\ (journal'.failed <=> journal.failed)
    BY <2>1 DEF JournalType, IoType
  <2>3. io.ok => /\ chain.terminal /\ Last(disk.lines).event = io.event /\ ~journal.failed
    BY <1>10 DEF LiveInv, EndInv, Sites
  <2>4. chain.terminal => io.ok
    BY <1>8 DEF LiveInv, EndInv
  <2>5. PICK at \in FinishTimes : io.event = Terminal(journal.primary, journal.cleanup,
        journal.assessment, at)
    BY <1>2, <1>10 DEF LiveInv, CallInv
  <2>6. CleanupFailed' <=> CleanupFailed
    BY <2>2 DEF CleanupFailed
  <2>7. result' = "success" => journal'.complete /\ journal'.primary.class = "success"
        /\ ~CleanupFailed'
    BY <1>10, <2>2, <2>6
  <2>8. EndInv'
    BY <1>1, <1>2, <2>2, <2>3, <2>4, <2>5, <2>7 DEF EndInv, Sites, Closed
  <2>9. ReceiptInv'
    BY <1>1, <1>2, <1>3 DEF LiveInv, ReceiptInv, Closed
  <2>10. QED
    BY <1>4, <1>5, <1>6, <1>7, <2>8, <2>9 DEF LiveInv, FileInv
<1>11. QED
  BY <1>9, <1>10

-----------------------------------------------------------------------------
(* SyncedJournal::append.                                                  *)

(* What every step of an append leaves as it is.                           *)
Returns ==
  /\ pc \in {"append", "sync"} /\ pc' \in Sites \cup {"sync"}
  /\ UNCHANGED evalVars
  /\ Site' = Site /\ io' \in IoType /\ io'.event = io.event /\ faults' \in 0..MaxFaults
  /\ chain' \in ChainType /\ disk' \in DiskType
  /\ disk'.name = disk.name /\ disk'.lines # <<>>
  /\ journal' = journal \/ journal' = [journal EXCEPT !.failed = TRUE]
  /\ pc' = "sync" => io'.site \in Sites

(* The kind of the event, by the place append returns to.                  *)
LEMMA KindAtSite ==
  ASSUME CallInv, Site \in Sites
  PROVE  /\ io.event.kind = "terminal" <=> Site = "terminated"
         /\ io.event.kind = "effect-after" <=> Site \in {"probed", "probe_failed", "finished"}
         /\ io.event.kind = "effect-before" <=> Site \in {"probe_started", "started"}
         /\ io.event.kind = "terminal" => io.event.at \in FinishTimes
<1>1. \A n, f, a : EffectBefore(n, f, a).kind = "effect-before"
  BY DEF EffectBefore
<1>2. EvidenceFailure.kind = "evidence-failure"
  BY DEF EvidenceFailure
<1>3. \A p, c, a, at : Terminal(p, c, a, at).kind = "terminal" /\ Terminal(p, c, a, at).at = at
  BY DEF Terminal
<1>4. /\ Site = "probe_started" => io.event.kind = "effect-before"
      /\ Site \in {"probed", "probe_failed"} => io.event.kind = "effect-after"
      /\ Site = "entered" => io.event.kind = "action-start"
      /\ Site = "started" => io.event.kind = "effect-before"
      /\ Site = "finished" => io.event.kind = "effect-after"
      /\ Site = "left" => io.event.kind = "action-end"
      /\ Site = "cleaned" => io.event.kind = "cleanup"
      /\ Site = "terminated" => io.event.kind = "terminal" /\ io.event.at \in FinishTimes
      /\ Site = "receipt_evidence" => io.event.kind = "evidence-failure"
  BY <1>1, <1>2, <1>3 DEF CallInv
<1>5. QED
  BY <1>4 DEF Sites

(* A step of append keeps types and control.                               *)
LEMMA ReturnsControl ==
  ASSUME LiveInv, Returns
  PROVE  /\ Types' /\ CallInv' /\ OpsInv' /\ NameInv'
         /\ Site \in Sites /\ Site \notin Setup /\ ~journal.complete /\ ~journal'.complete
         /\ ~chain.terminal /\ result # "success"
<1>1. UNCHANGED <<request, requested, ops, performed, todo, result, receipt, audit, exit>>
  BY DEF Returns, evalVars
<1>2. Site \in Sites /\ Site = io.site /\ Site' = Site
  BY DEF LiveInv, Types, ControlTypes, Returns, Site
<1>3. journal \in JournalType
  BY DEF LiveInv, Types, ControlTypes
<1>4. /\ journal' \in JournalType /\ journal'.primary = journal.primary
      /\ journal'.cleanup = journal.cleanup
      /\ journal'.assessment = journal.assessment /\ (journal'.complete <=> journal.complete)
  BY <1>3 DEF JournalType, Returns
<1>5. Types'
  <2>1. pc' \in Places \cup {"append", "sync"} /\ pc' # "append"
        /\ (pc' = "sync" => io'.site \in Sites)
    BY DEF Returns, Places, Sites
  <2>2. ControlTypes'
    BY <1>1, <1>4, <2>1 DEF LiveInv, Types, ControlTypes, Returns
  <2>3. WorldTypes' /\ EndTypes'
    BY <1>1 DEF LiveInv, Types, WorldTypes, EndTypes, Returns
  <2>4. QED
    BY <2>2, <2>3 DEF Types
<1>6. CallInv'
  BY <1>1, <1>2, <1>4 DEF LiveInv, CallInv, Returns
<1>7. OpsInv'
  BY <1>1, <1>2 DEF LiveInv, OpsInv
<1>8. Site \notin Setup \cup {"rename", "sync_parent"}
  BY <1>2 DEF Sites, Setup
<1>9. NameInv'
  BY <1>2, <1>8 DEF LiveInv, NameInv, Returns
<1>10. ~journal.complete
  BY <1>2 DEF LiveInv, EndInv, Sites, Closed
<1>11. ~chain.terminal /\ result # "success"
  BY <1>10 DEF LiveInv, EndInv, Returns
<1>12. QED
  BY <1>2, <1>4, <1>5, <1>6, <1>7, <1>8, <1>9, <1>10, <1>11

(* A step of append that adds no durable line keeps the invariant.         *)
LEMMA ReturnsLive ==
  ASSUME LiveInv, Returns, FileInv', chain' = chain, pc' \in Sites => io'.ok = FALSE,
         \/ disk'.lines = disk.lines /\ disk'.synced = disk.synced
         \/ Last(disk'.lines).event = io.event
  PROVE  LiveInv'
<1>1. /\ Types' /\ CallInv' /\ OpsInv' /\ NameInv'
      /\ Site \in Sites /\ Site \notin Setup /\ ~journal.complete /\ ~journal'.complete
      /\ ~chain.terminal /\ result # "success"
  BY ReturnsControl
<1>2. UNCHANGED <<request, ops, result, receipt, audit>> /\ Site' = Site
  BY DEF Returns, evalVars
<1>3. OpenInv'
  <2>1. \A i \in DOMAIN ops.effects : (i < Len(ops.effects) \/ Site # "finished")
        => OpenIn(chain.life, ops.effects[i])
    BY DEF LiveInv, OpenInv, IsOpen
  <2>2. pc' # "probing" /\ (pc' \in Sites => ~io'.ok)
    BY DEF Returns, Sites
  <2>3. pc' \notin {"started", "probe_started"} \/ ~io'.ok
    BY <2>2 DEF Sites
  <2>4. QED
    BY <1>2, <2>1, <2>2, <2>3 DEF OpenInv, IsOpen
<1>4. EndInv'
  BY <1>1, <1>2 DEF LiveInv, EndInv, Sites
<1>5. ReceiptInv'
  <2>1. Site \in Closed => io.event.kind # "terminal"
    BY <1>1, KindAtSite DEF LiveInv, Closed
  <2>2. \/ disk'.lines = disk.lines /\ disk'.synced = disk.synced
        \/ Site \in Closed => Last(disk'.lines).event.kind # "terminal"
    BY <2>1
  <2>3. QED
    BY <1>1, <1>2, <2>2 DEF LiveInv, ReceiptInv
<1>6. QED
  BY <1>1, <1>3, <1>4, <1>5 DEF LiveInv, FileInv

(* AppendRefused keeps the invariant.                                      *)
LEMMA RefusedLive ==
  ASSUME LiveInv, AppendRefused
  PROVE  LiveInv'
<1>1. pc = "append" /\ Return(FALSE) /\ UNCHANGED <<evalVars, faults, chain, journal, disk>>
  BY DEF AppendRefused
<1>2. io' \in IoType /\ pc' = io.site /\ Site' = Site /\ io'.event = io.event /\ io'.ok = FALSE
      /\ pc' \in Sites
  BY <1>1, ReturnTyped DEF LiveInv, Types
<1>3. Site \in Sites /\ Site \notin Setup
  BY <1>1 DEF LiveInv, Types, ControlTypes, Site, Sites, Setup
<1>4. Returns
  BY <1>1, <1>2, <1>3 DEF LiveInv, Types, WorldTypes, NameInv, Returns, Sites
<1>5. FileInv'
  <2>1. Computes
    BY <1>1, <1>2, <1>3 DEF Computes, evalVars, Sites
  <2>2. QED
    BY <2>1, ComputesFile DEF LiveInv, FileInv
<1>6. QED
  BY <1>1, <1>2, <1>4, <1>5, ReturnsLive

(* AppendWrite keeps the invariant.                                        *)
LEMMA WriteLive ==
  ASSUME LiveInv, AppendWrite
  PROVE  LiveInv'
<1>1. pc = "append" /\ pc' = "sync" /\ UNCHANGED <<evalVars, faults, chain, journal>>
  BY DEF AppendWrite
<1>2. Site \in Sites /\ Site \notin Setup /\ Site = io.site
  BY <1>1 DEF LiveInv, Types, ControlTypes, Site, Sites, Setup
<1>3. io.event.kind = "terminal" => io.event.at \in FinishTimes
  BY <1>2, KindAtSite DEF LiveInv
<1>4. FileInv' /\ Site' = Site /\ disk' \in DiskType /\ io' \in IoType /\ disk'.name = disk.name
      /\ disk'.lines # <<>> /\ Last(disk'.lines).event = io.event
  BY <1>2, <1>3, WriteFile DEF LiveInv, FileInv
<1>5. io'.event = io.event /\ io'.site = io.site
  BY DEF AppendWrite, LiveInv, Types, ControlTypes, IoType
<1>7. Returns
  BY <1>1, <1>2, <1>4, <1>5 DEF LiveInv, Types, WorldTypes, Returns
<1>8. QED
  BY <1>1, <1>4, <1>7, ReturnsLive DEF Sites

(* AppendWriteFails and AppendSyncFails keep the invariant.                *)
LEMMA FailsLive ==
  ASSUME LiveInv, AppendWriteFails \/ AppendSyncFails
  PROVE  LiveInv'
<1>1. /\ pc \in {"append", "sync"} /\ Return(FALSE) /\ UNCHANGED <<evalVars, chain>> /\ Fault
      /\ journal' = [journal EXCEPT !.failed = TRUE]
  BY DEF AppendWriteFails, AppendSyncFails
<1>2. io' \in IoType /\ pc' = io.site /\ Site' = Site /\ io'.event = io.event /\ io'.ok = FALSE
      /\ pc' \in Sites
  BY <1>1, ReturnTyped DEF LiveInv, Types
<1>3. Site \in Sites /\ Site \notin Setup
  BY <1>1 DEF LiveInv, Types, ControlTypes, Site, Sites, Setup
<1>4. /\ FileInv' /\ disk' \in DiskType /\ disk'.name = disk.name /\ disk'.lines = disk.lines
      /\ disk'.synced = disk.synced
  BY <1>3, FailFile DEF LiveInv, FileInv
<1>5. faults' \in 0..MaxFaults
  BY <1>1, RunAssumption DEF Fault, LiveInv, Types, WorldTypes
<1>6. Returns
  BY <1>1, <1>2, <1>3, <1>4, <1>5 DEF LiveInv, Types, WorldTypes, NameInv, Returns, Sites
<1>7. QED
  BY <1>1, <1>2, <1>4, <1>6, ReturnsLive

(* An index below the last of at most two is 1.                            *)
LEMMA FirstOfTwo ==
  ASSUME NEW n \in Nat, n <= 2, NEW i \in 1..n, i < n
  PROVE  i = 1 /\ n = 2
  OBVIOUS

(* AppendSync keeps the invariant: an effect-before that is durable makes  *)
(* its effect open, an effect-after closes that one effect.                *)
LEMMA SyncLive ==
  ASSUME LiveInv, AppendSync
  PROVE  LiveInv'
<1>1. pc = "sync" /\ Return(TRUE) /\ UNCHANGED <<evalVars, faults, journal>>
  BY DEF AppendSync
<1>2. io' \in IoType /\ pc' = io.site /\ Site' = Site /\ io'.event = io.event /\ io'.ok = TRUE
      /\ pc' \in Sites
  BY <1>1, ReturnTyped DEF LiveInv, Types
<1>3. Site \in Sites /\ Site \notin Setup /\ Site = pc'
  BY <1>1, <1>2 DEF LiveInv, Types, ControlTypes, Site, Sites, Setup
<1>4. /\ FileInv' /\ disk' \in DiskType /\ chain' \in ChainType
      /\ disk'.name = disk.name /\ disk'.lines = disk.lines
      /\ Last(disk.lines).event = io.event
      /\ chain'.terminal <=> io.event.kind = "terminal"
      /\ \A p : IsOpen(p) /\ ~(io.event.kind = "effect-after" /\ io.event.attempt = p.attempt)
                  => IsOpen(p)'
      /\ io.event.kind = "effect-before" =>
           OpenIn(chain'.life, [effect |-> io.event.effect, attempt |-> io.event.attempt])
  BY <1>3, SyncFile DEF LiveInv, FileInv
<1>5. Returns
  BY <1>1, <1>2, <1>3, <1>4 DEF LiveInv, Types, WorldTypes, NameInv, Returns, Sites
<1>6. /\ Types' /\ CallInv' /\ OpsInv' /\ NameInv'
      /\ ~journal.complete /\ ~journal'.complete
      /\ ~chain.terminal /\ result # "success"
  BY <1>5, ReturnsControl
<1>7. UNCHANGED <<request, ops, result, receipt, audit, journal>> /\ Site' = Site
  BY <1>1, <1>2 DEF evalVars
<1>8. OpenInv'
  <2>1. ASSUME NEW i \in DOMAIN ops.effects, i < Len(ops.effects) \/ Site # "finished"
        PROVE  OpenIn(chain'.life, ops.effects[i])
    <3>1. PICK p : p = ops.effects[i]
      OBVIOUS
    <3>2. IsOpen(p)
      BY <2>1, <3>1 DEF LiveInv, OpenInv
    <3>3. ops.effects \in Seq([effect : Effects, attempt : Attempts]) /\ Len(ops.effects) <= 2
          /\ Attempts \subseteq Nat
      BY RunAssumption DEF LiveInv, Types, ControlTypes, OpsType, OpsInv, Attempts
    <3>4. ASSUME io.event.kind = "effect-after" PROVE io.event.attempt # p.attempt
      <4>1. Site \in {"finished", "probed", "probe_failed"}
        BY <1>3, <3>4, KindAtSite DEF LiveInv
      <4>2. CASE Site \in {"probed", "probe_failed"}
        BY <3>3, <4>2 DEF LiveInv, OpsInv, Evaluating
      <4>3. CASE Site = "finished"
        <5>1. i = 1 /\ Len(ops.effects) = 2
          <6>1. i \in 1..Len(ops.effects) /\ Len(ops.effects) \in Nat /\ i < Len(ops.effects)
            BY <2>1, <3>3, <4>3
          <6>2. QED
            BY <3>3, <6>1, FirstOfTwo
        <5>2. /\ ops.effects[1].attempt < ops.effects[2].attempt
              /\ io.event.attempt = Last(ops.effects).attempt
          BY <4>3, <5>1 DEF LiveInv, OpsInv, CallInv
        <5>3. Last(ops.effects) = ops.effects[2]
          BY <5>1 DEF Last
        <5>4. ops.effects[1] \in [effect : Effects, attempt : Attempts]
              /\ ops.effects[2] \in [effect : Effects, attempt : Attempts]
          <6>1. 1 \in 1..Len(ops.effects) /\ 2 \in 1..Len(ops.effects)
            BY <5>1
          <6>2. QED
            BY <3>3, <6>1, ElementOfSeq
        <5>5. ops.effects[1].attempt \in Nat /\ ops.effects[2].attempt \in Nat
          BY <3>3, <5>4
        <5>6. QED
          BY <3>1, <5>1, <5>2, <5>3, <5>5
      <4>4. QED
        BY <4>1, <4>2, <4>3
    <3>5. IsOpen(p)'
      BY <1>4, <3>2, <3>4
    <3>6. QED
      BY <3>1, <3>5 DEF IsOpen
  <2>2. pc' = "started" => OpenIn(chain'.life, [effect |-> io'.event.effect,
        attempt |-> io'.event.attempt])
    BY <1>2, <1>3, <1>4 DEF LiveInv, CallInv
  <2>3. pc' = "probe_started"
        => OpenIn(chain'.life, [effect |-> "process", attempt |-> ops.next_attempt])
    <3>1. pc' = "probe_started" => /\ io.event.kind = "effect-before"
          /\ io.event.effect = "process"
                                   /\ io.event.attempt = ops.next_attempt
      BY <1>3 DEF LiveInv, CallInv, EffectBefore
    <3>2. QED
      BY <1>4, <3>1
  <2>4. pc' # "probing"
    BY <1>2 DEF Sites
  <2>5. QED
    BY <1>7, <2>1, <2>2, <2>3, <2>4 DEF OpenInv, IsOpen
<1>9. io.event.kind = "terminal" <=> Site = "terminated"
  BY <1>3, KindAtSite DEF LiveInv
<1>10. ~journal.failed
  BY <1>1 DEF LiveInv, PendingInv
<1>11. EndInv'
  BY <1>2, <1>3, <1>4, <1>6, <1>7, <1>9, <1>10 DEF LiveInv, EndInv
<1>12. ReceiptInv'
  <2>s. disk'.synced = Len(disk.lines)
    BY DEF AppendSync, LiveInv, Types, WorldTypes, DiskType
  <2>1. Site \in Closed => ~chain'.terminal
    BY <1>3, <1>4, <1>9 DEF Closed
  <2>2. QED
    BY <1>4, <1>7, <2>1, <2>s DEF LiveInv, ReceiptInv
<1>13. QED
  BY <1>4, <1>6, <1>8, <1>11, <1>12 DEF LiveInv, FileInv

(* SyncedJournal::append keeps the invariant, whatever becomes of the      *)
(* write and the sync.                                                     *)
LEMMA AppendLive ==
  ASSUME LiveInv, AppendStep
  PROVE  LiveInv'
  BY RefusedLive, WriteLive, FailsLive, SyncLive DEF AppendStep

-----------------------------------------------------------------------------
(* Before the closure.                                                     *)

(* A step before the closure: chain and lines stay, or the header appears. *)
Prepares ==
  /\ UNCHANGED <<request, requested, faults, journal, io, ops, performed, todo, result, exit>>
  /\ pc \in Setup \cup {"rename", "sync_parent"}
  /\ pc' \in Setup \cup {"rename", "sync_parent", "bind", "probe"}
  /\ receipt' \in ReceiptType /\ audit' \in AuditType
  /\ receipt'.file \in {"absent", "reserved"} /\ (audit'.persisted <=> audit.persisted)

(* A step before the closure keeps the invariant once the file does.       *)
LEMMA PreparesLive ==
  ASSUME LiveInv, Prepares, FileInv', NameInv', disk' \in DiskType, chain' \in ChainType,
         ~chain'.terminal
  PROVE  LiveInv'
<1>1. UNCHANGED <<request, requested, faults, journal, io, ops, performed, todo, result, exit>>
  BY DEF Prepares
<1>2. /\ Site = pc /\ Site' = pc' /\ Site \notin Closed /\ Site' \notin Closed
      /\ Site \notin Evaluating
      /\ pc' \notin Sites /\ pc' \in Places /\ Site' \notin Sites /\ pc' \notin {"append", "sync"}
      /\ Site' # "probing"
  BY DEF Prepares, Site, Setup, Closed, Evaluating, Sites, Places
<1>3. Types'
  BY <1>1, <1>2 DEF LiveInv, Types, WorldTypes, ControlTypes, EndTypes, Prepares
<1>4. ops.effects = <<>> /\ journal = NewJournal
  BY <1>2 DEF LiveInv, OpsInv, NameInv, Prepares
<1>5. CallInv'
  BY <1>2 DEF CallInv, Sites
<1>6. OpsInv'
  BY <1>1, <1>2, <1>4 DEF LiveInv, OpsInv, Sites
<1>7. OpenInv'
  BY <1>1, <1>2, <1>4 DEF OpenInv, Sites
<1>8. EndInv'
  <2>1. ~journal.complete /\ result = "running"
    BY <1>2, <1>4 DEF NewJournal, LiveInv, EndInv
  <2>2. QED
    BY <1>1, <1>2, <2>1 DEF EndInv, Sites
<1>9. ReceiptInv'
  <2>1. ~audit.persisted
    BY <1>2 DEF LiveInv, ReceiptInv, Closed
  <2>2. QED
    BY <1>2, <2>1 DEF ReceiptInv, Closed, Prepares
<1>10. QED
  BY <1>3, <1>5, <1>6, <1>7, <1>8, <1>9 DEF LiveInv, FileInv

(* create_journal: the header is the first durable line.                   *)
LEMMA HeaderFile ==
  ASSUME LiveInv, WriteHeader, pc' # "exited"
  PROVE  /\ FileInv' /\ NameInv' /\ disk' \in DiskType /\ chain' \in ChainType /\ ~chain'.terminal
         /\ pc' = "rename" /\ UNCHANGED <<faults, exit>>
<1>1. PICK size \in Sizes :
        /\ disk' = [name |-> "temporary", synced |-> 1, torn |-> FALSE,
                    lines |-> <<LineOf([lines |-> 0], Header(StartTime, Policy), size)>>]
        /\ chain' = Begin(Policy, size)
        /\ pc' = "rename"
        /\ UNCHANGED <<faults, exit>>
  BY DEF WriteHeader, Exit
<1>2. pc = "create" /\ performed' = performed /\ journal' = journal
  BY DEF WriteHeader
<1> DEFINE line == LineOf([lines |-> 0], Header(StartTime, Policy), size)
<1>3. size \in Nat /\ size \in 0..MaxBytes
  BY RunAssumption, ChainAssumption
<1>4. Policy \in Policies
  BY DEF Policy, Policies
<1>5. Header(StartTime, Policy) \in EventType
  BY <1>4, EventsTyped DEF StartTime
<1>6. line \in LineType /\ line.seq = 0 /\ line.event = Header(StartTime, Policy)
      /\ line.size = size
  BY <1>3, <1>5 DEF LineOf, LineType
<1>7. line.event.kind = "header"
  BY <1>6 DEF Header
<1> HIDE DEF line
<1>8. Valid(<<line>>, NewLifecycle, size)
  BY <1>3, <1>6, <1>7, HeaderReplayed
<1>9. /\ disk'.lines = <<line>> /\ disk'.synced = 1 /\ disk'.torn = FALSE
      /\ disk'.name = "temporary"
      /\ disk' \in DiskType
  BY <1>1, <1>6 DEF DiskType, line
<1>10. /\ chain' \in ChainType /\ ~chain'.terminal /\ chain'.life = NewLifecycle
       /\ chain'.lines = 1
       /\ chain'.bytes = size /\ chain'.policy = Policy
  BY <1>1, <1>3, <1>4, BeginTyped
<1>11. <<line>> \in Seq(LineType) /\ Len(<<line>>) = 1 /\ <<line>>[1] = line
  BY <1>6
<1>12. Base' = <<line>>
  <2>1. 1 \in 0..Len(<<line>>)
    BY <1>11
  <2>2. SubSeq(<<line>>, 1, 1) = <<line>>
    BY <1>11, <2>1, BaseIs
  <2>3. QED
    BY <1>9, <2>2 DEF Base
<1>13. Site' = "rename" /\ Site = "create"
  BY <1>1, <1>2 DEF Site
<1>14. performed = {} /\ journal = NewJournal
  BY <1>13 DEF LiveInv, NameInv, Setup
<1>15. NameInv'
  BY <1>2, <1>9, <1>11, <1>13, <1>14 DEF NameInv, Setup
<1>16. PendingInv'
  BY <1>1, <1>9, <1>11 DEF PendingInv
<1>17. ChainInv'
  <2>1. ~NewLifecycle.terminal
    BY LifeTyped
  <2>2. Replayed(<<line>>) = [valid |-> TRUE, life |-> chain'.life, bytes |-> chain'.bytes]
    BY <1>8, <1>10 DEF Valid
  <2>3. QED
    BY <1>6, <1>9, <1>10, <1>11, <1>12, <2>1, <2>2 DEF ChainInv
<1>18. AccountInv'
  <2>1. DOMAIN NewLifecycle.effects = {}
    BY LifeTyped
  <2>2. QED
    BY <1>2, <1>10, <1>14, <2>1 DEF AccountInv, Accounted
<1>19. QED
  BY <1>1, <1>9, <1>10, <1>15, <1>16, <1>17, <1>18 DEF FileInv

(* Admission, the reserved files and create_journal keep the invariant.    *)
LEMMA SetupLive ==
  ASSUME LiveInv, SetupStep, pc' # "exited"
  PROVE  LiveInv'
<1>t. /\ receipt \in ReceiptType /\ audit \in AuditType /\ disk \in DiskType
      /\ chain \in ChainType
  BY DEF LiveInv, Types, WorldTypes, EndTypes
<1>0. pc \in Setup \cup {"rename", "sync_parent"} /\ Site = pc
  BY DEF SetupStep, Refuse, Admitted, ReserveAudit, ReserveReceipt, WriteHeader, RenameJournal,
         SyncParent, Site, Setup
<1>r. /\ receipt.file \in {"absent", "reserved"} /\ ~chain.terminal
      /\ performed = {} /\ journal = NewJournal
  <2>1. receipt.file \in {"absent", "reserved"}
    BY <1>0 DEF LiveInv, ReceiptInv, Setup, Closed
  <2>2. performed = {} /\ journal = NewJournal
    BY <1>0 DEF LiveInv, NameInv
  <2>3. ~chain.terminal
    BY <1>0, <2>2 DEF LiveInv, EndInv, NewJournal, Setup
  <2>4. QED
    BY <2>1, <2>2, <2>3
<1>1. CASE Admitted \/ ReserveAudit \/ ReserveReceipt
  <2>1. /\ UNCHANGED <<setupVars, faults, exit, disk>> /\ pc \in Setup /\ pc' \in Setup
        /\ receipt' \in ReceiptType /\ audit' \in AuditType
        /\ receipt'.file \in {"absent", "reserved"} /\ (audit'.persisted <=> audit.persisted)
    BY <1>1, <1>t, <1>r DEF Admitted, ReserveAudit, ReserveReceipt, Exit, Setup, ReceiptType,
       AuditType, Files
  <2>2. Prepares
    BY <2>1 DEF Prepares, setupVars
  <2>3. Site \in Setup /\ Site' \in Setup
    BY <1>0, <2>1 DEF Site, Setup
  <2>4. FileInv'
    <3>1. Computes
      BY <1>0, <2>1, <2>3 DEF Computes, setupVars, Setup
    <3>2. QED
      BY <3>1, ComputesFile DEF LiveInv, FileInv
  <2>5. NameInv'
    BY <1>0, <2>1, <2>3 DEF LiveInv, NameInv, setupVars, Setup
  <2>6. chain' = chain /\ disk' = disk
    BY <2>1 DEF setupVars
  <2>7. QED
    BY <1>t, <1>r, <2>2, <2>4, <2>5, <2>6, PreparesLive
<1>2. CASE WriteHeader
  <2>1. /\ FileInv' /\ NameInv' /\ disk' \in DiskType /\ chain' \in ChainType /\ ~chain'.terminal
        /\ pc' = "rename" /\ UNCHANGED <<faults, exit>>
    BY <1>2, HeaderFile
  <2>2. Prepares
    BY <1>0, <1>2, <1>t, <1>r, <2>1 DEF WriteHeader, Prepares
  <2>3. QED
    BY <2>1, <2>2, PreparesLive
<1>3. CASE RenameJournal \/ SyncParent
  <2>1. /\ UNCHANGED <<setupVars, faults, exit, receipt, audit>>
        /\ disk' \in DiskType /\ disk'.lines = disk.lines /\ disk'.synced = disk.synced
        /\ disk'.torn = disk.torn
        /\ \/ pc = "rename" /\ pc' = "sync_parent" /\ disk'.name = "linked"
           \/ pc = "sync_parent" /\ pc' \in {"bind", "probe"} /\ disk'.name = "durable"
    BY <1>3, <1>t DEF RenameJournal, SyncParent, Exit, DiskType
  <2>2. Prepares
    BY <1>t, <1>r, <2>1 DEF Prepares, setupVars
  <2>3. Site \notin Setup /\ Site' = pc' /\ Site' \notin Setup
    BY <1>0, <2>1 DEF Site, Setup
  <2>4. FileInv'
    <3>1. Computes
      BY <2>1, <2>3 DEF Computes, setupVars
    <3>2. QED
      BY <3>1, ComputesFile DEF LiveInv, FileInv
  <2>5. NameInv'
    BY <1>r, <2>1, <2>3 DEF LiveInv, NameInv, setupVars
  <2>6. chain' = chain
    BY <2>1 DEF setupVars
  <2>7. QED
    BY <1>t, <1>r, <2>1, <2>2, <2>4, <2>5, <2>6, PreparesLive
<1>4. CASE Refuse
  BY <1>4 DEF Refuse, Exit
<1>5. QED
  BY <1>1, <1>2, <1>3, <1>4 DEF SetupStep

(* A cancellation request keeps the invariant.                             *)
LEMMA CancelLive ==
  ASSUME LiveInv, RequestCancel
  PROVE  LiveInv'
<1>1. /\ UNCHANGED <<pc, request, faults, chain, journal, disk, io, ops, performed, todo, result,
         receipt, audit, exit>>
      /\ requested' = TRUE
  BY DEF RequestCancel
<1>2. Site' = Site /\ Base' = Base /\ (CleanupFailed' <=> CleanupFailed)
  BY <1>1 DEF Site, Base, CleanupFailed
<1>3. Types'
  BY <1>1 DEF LiveInv, Types, WorldTypes, ControlTypes, EndTypes
<1>4. CallInv' /\ OpsInv' /\ NameInv'
  BY <1>1, <1>2 DEF LiveInv, CallInv, OpsInv, NameInv
<1>5. PendingInv' /\ (Site' \notin Setup => ChainInv')
  BY <1>1, <1>2 DEF LiveInv, PendingInv, ChainInv
<1>6. AccountInv' /\ OpenInv'
  BY <1>1, <1>2 DEF LiveInv, AccountInv, OpenInv, IsOpen
<1>7. EndInv' /\ ReceiptInv'
  BY <1>1, <1>2 DEF LiveInv, EndInv, ReceiptInv
<1>8. QED
  BY <1>3, <1>4, <1>5, <1>6, <1>7 DEF LiveInv

-----------------------------------------------------------------------------
(* Streams and probes.                                                     *)

(* The places of the closure.                                              *)
LEMMA WorkingPlaces ==
  /\ {"bind", "probe", "probing", "cleanup",
     "terminal"} \cup Evaluating \cup (Sites \ {"receipt_evidence"})
       \subseteq Working
  /\ {"bind", "probe", "probing", "cleanup", "terminal", "evaluate"} \cap (Sites \cup {"append",
     "sync"}) = {}
  /\ {"bind", "probe", "probing", "cleanup", "terminal", "evaluate", "closed"} \subseteq Places
  BY DEF Working, Places, Setup, Closed, Evaluating, Sites

(* A step of the closure that neither opens nor closes an effect of the    *)
(* evaluator keeps the invariant.                                          *)
LEMMA KeepsLive ==
  ASSUME LiveInv, Proceeds, ControlTypes', CallInv', ops'.effects = ops.effects,
         Site # "finished",
         ops.effects # <<>> => ops'.next_attempt \in {ops.next_attempt, ops.next_attempt + 1},
         Len(ops'.actions) <= MaxDepth, ~ops'.entered => ops'.actions = <<>>,
         (ops.effects # <<>> \/ Site' = "started") => ops'.actions # <<>>,
         Site' \notin Evaluating => ops.effects = <<>>,
         pc' = "probing" => OpenIn(chain.life, [effect |-> "process",
           attempt |-> ops'.next_attempt])
  PROVE  LiveInv'
<1>1. WorldTypes' /\ EndTypes' /\ FileInv' /\ NameInv' /\ EndInv' /\ ReceiptInv'
  BY ProceedsEvidence
<1>2. chain' = chain
  BY DEF Proceeds, hostVars
<1>3. pc' \notin {"started", "probe_started"}
  BY DEF Proceeds, Sites
<1>4. OpenInv'
  <2>1. \A i \in DOMAIN ops.effects : OpenIn(chain.life, ops.effects[i])
    BY DEF LiveInv, OpenInv, IsOpen
  <2>2. QED
    BY <1>2, <1>3, <2>1 DEF OpenInv, IsOpen
<1>5. OpsInv'
  <2>1. /\ ops.effects \in Seq([effect : Effects, attempt : Attempts]) /\ Attempts \subseteq Nat
        /\ ops.next_attempt \in Nat /\ ops'.next_attempt \in Nat
    BY RunAssumption DEF LiveInv, Types, ControlTypes, OpsType, Attempts
  <2>2. ASSUME NEW i \in DOMAIN ops.effects PROVE ops.effects[i].attempt < ops'.next_attempt
    <3>1. ops.effects[i] \in [effect : Effects, attempt : Attempts] /\ ops.effects # <<>>
      <4>1. i \in 1..Len(ops.effects)
        BY <2>1
      <4>2. QED
        <5>1. ops.effects[i] \in [effect : Effects, attempt : Attempts]
          BY <2>1, <4>1, ElementOfSeq
        <5>2. ops.effects # <<>>
          BY <4>1
        <5>3. QED
          BY <5>1, <5>2
    <3>2. ops.effects[i].attempt < ops.next_attempt /\ ops.effects[i].attempt \in Nat
      BY <2>1, <3>1 DEF LiveInv, OpsInv
    <3>3. ops'.next_attempt = ops.next_attempt \/ ops'.next_attempt = ops.next_attempt + 1
      BY <3>1
    <3>4. QED
      BY <2>1, <3>2, <3>3
  <2>3. QED
    BY <2>2 DEF LiveInv, OpsInv
<1>6. QED
  BY <1>1, <1>4, <1>5 DEF LiveInv, Types, FileInv

(* The typed parts a step of the closure starts from.                      *)
LEMMA Parts ==
  ASSUME LiveInv
  PROVE  /\ journal \in JournalType /\ ops \in OpsType /\ todo \in TodoType /\ io \in IoType
         /\ performed \subseteq [effect : Effects, attempt : Attempts]
         /\ Attempts \subseteq Nat /\ MaxDepth \in Nat \ {0}
         /\ ops.actions \in Seq(Nodes)
         /\ ops.effects \in Seq([effect : Effects, attempt : Attempts])
         /\ ops.next_attempt \in Attempts /\ ops.entered \in BOOLEAN
         /\ Len(ops.actions) <= MaxDepth /\ Len(ops.effects) <= 2
         /\ ~ops.entered => ops.actions = <<>>
         /\ ops.effects # <<>> \/ Site = "started" => ops.actions # <<>>
         /\ Site \notin Evaluating => ops.effects = <<>>
<1>1. /\ journal \in JournalType /\ ops \in OpsType /\ todo \in TodoType /\ io \in IoType
      /\ performed \subseteq [effect : Effects, attempt : Attempts]
  BY DEF LiveInv, Types, ControlTypes
<1>2. Attempts \subseteq Nat /\ MaxDepth \in Nat \ {0}
  BY RunAssumption DEF Attempts
<1>3. /\ ops.actions \in Seq(Nodes) /\ ops.effects \in Seq([effect : Effects, attempt : Attempts])
      /\ ops.next_attempt \in Attempts /\ ops.entered \in BOOLEAN
  BY <1>1 DEF OpsType
<1>4. /\ Len(ops.actions) <= MaxDepth /\ Len(ops.effects) <= 2
      /\ ~ops.entered => ops.actions = <<>>
      /\ ops.effects # <<>> \/ Site = "started" => ops.actions # <<>>
      /\ Site \notin Evaluating => ops.effects = <<>>
  BY DEF LiveInv, OpsInv
<1>5. QED
  BY <1>1, <1>2, <1>3, <1>4

(* A step to another place of the closure, without a call.                 *)
LEMMA MovesControl ==
  ASSUME pc' \in {"bind", "probe", "cleanup", "terminal", "evaluate"},
         io' \in IoType, journal' \in JournalType, ops' \in OpsType, todo' \in TodoType,
         performed' \subseteq [effect : Effects, attempt : Attempts]
  PROVE  /\ ControlTypes' /\ CallInv' /\ Site' = pc' /\ Site' \in Working
            /\ pc' \notin Sites \cup {"sync"}
         /\ pc' # "probing" /\ Site' # "started"
<1>1. pc' \notin Sites \cup {"append", "sync", "probing"} /\ pc' \in Places /\ pc' \in Working
  BY WorkingPlaces DEF Evaluating
<1>2. Site' = pc'
  BY <1>1 DEF Site
<1>3. CallInv'
  BY <1>1, <1>2 DEF CallInv, Sites
<1>4. QED
  BY <1>1, <1>2, <1>3 DEF ControlTypes, Sites

(* A step of the closure that calls append.                                *)
LEMMA CallsControl ==
  ASSUME NEW s \in Sites \ {"receipt_evidence"}, NEW e \in EventType, Call(s, e),
         journal' \in JournalType, ops' \in OpsType, todo' \in TodoType,
         performed' \subseteq [effect : Effects, attempt : Attempts]
  PROVE  /\ ControlTypes' /\ Site' = s /\ Site' \in Working /\ pc' \notin Sites \cup {"sync"}
         /\ pc' # "probing" /\ io'.event = e
<1>1. io' \in IoType /\ pc' = "append" /\ Site' = s /\ io'.event = e /\ io'.site = s
  BY CallTyped
<1>2. QED
  BY <1>1, WorkingPlaces DEF ControlTypes, Sites

(* BindStreams, BindFails and Prepare keep the invariant.                  *)
LEMMA BindLive ==
  ASSUME LiveInv, BindStreams \/ BindFails \/ Prepare
  PROVE  LiveInv'
<1>0. /\ journal \in JournalType /\ ops \in OpsType /\ todo \in TodoType /\ io \in IoType
      /\ performed \subseteq [effect : Effects, attempt : Attempts]
      /\ Len(ops.actions) <= MaxDepth
      /\ ~ops.entered => ops.actions = <<>>
      /\ Site \notin Evaluating => ops.effects = <<>>
  BY Parts
<1>1. /\ pc \in {"bind", "probe"} /\ pc' \in {"probe", "cleanup", "evaluate"}
      /\ UNCHANGED <<hostVars, io, ops, performed, result>>
  BY DEF BindStreams, BindFails, Prepare
<1>2. Site = pc /\ Site \in Working /\ Site \notin Evaluating /\ ops.effects = <<>>
  BY <1>0, <1>1, WorkingPlaces DEF Site, Evaluating
<1>3. /\ journal' \in JournalType /\ todo' \in TodoType
      /\ (journal'.failed <=> journal.failed) /\ (journal'.complete <=> journal.complete)
  <2>1. CASE BindStreams \/ Prepare
    BY <1>0, <2>1 DEF BindStreams, Prepare
  <2>2. CASE BindFails
    <3>1. PICK failures \in {<<>>, <<"cleanup-failed">>} :
            /\ journal' = [journal EXCEPT !.primary = Outcome("refused", "null"),
               !.cleanup = failures]
            /\ todo' = [todo EXCEPT !.host =
                  [i \in DOMAIN failures |-> Cleanup("standard-host", 0, failures[i])]]
      BY <2>2 DEF BindFails
    <3>2. failures \in Seq(CleanupOutcomes)
      <4>1. "cleanup-failed" \in CleanupOutcomes
        BY DEF CleanupOutcomes
      <4>2. <<>> \in Seq(CleanupOutcomes) /\ <<"cleanup-failed">> \in Seq(CleanupOutcomes)
        BY <4>1
      <4>3. QED
        BY <3>1, <4>2
    <3>3. [i \in DOMAIN failures |-> Cleanup("standard-host", 0,
          failures[i])] \in Seq(CleanupEvents)
      <4>1. Len(failures) \in Nat /\ DOMAIN failures = 1..Len(failures)
        BY <3>2
      <4>2. \A i \in 1..Len(failures) : Cleanup("standard-host", 0, failures[i]) \in CleanupEvents
        BY <3>2, <4>1, EventsTyped, ElementOfSeq
      <4>3. QED
        BY <4>1, <4>2, IsASeq
    <3>4. Outcome("refused", "null") \in Primary
      BY DEF Primary
    <3>5. QED
      BY <1>0, <3>1, <3>2, <3>3, <3>4 DEF JournalType, TodoType
  <2>3. QED
    BY <2>1, <2>2
<1>4. /\ ControlTypes' /\ CallInv' /\ Site' = pc' /\ Site' \in Working
      /\ pc' \notin Sites \cup {"sync"}
      /\ pc' # "probing" /\ Site' # "started"
  BY <1>0, <1>1, <1>3, MovesControl
<1>5. Proceeds
  BY <1>1, <1>2, <1>3, <1>4 DEF Proceeds
<1>6. QED
  BY <1>0, <1>1, <1>2, <1>4, <1>5, KeepsLive

(* ProbeStart keeps the invariant.                                         *)
LEMMA ProbeStartLive ==
  ASSUME LiveInv, ProbeStart
  PROVE  LiveInv'
<1>0. /\ journal \in JournalType /\ ops \in OpsType /\ todo \in TodoType /\ io \in IoType
      /\ performed \subseteq [effect : Effects, attempt : Attempts]
      /\ Len(ops.actions) <= MaxDepth /\ ops.next_attempt \in Attempts
      /\ ~ops.entered => ops.actions = <<>>
      /\ Site \notin Evaluating => ops.effects = <<>>
  BY Parts
<1> DEFINE e == EffectBefore(Root, "process", ops.next_attempt)
<1>1. /\ pc = "probe" /\ ops.next_attempt < MaxProbes /\ Call("probe_started", e)
      /\ UNCHANGED <<hostVars, journal, ops, performed, todo, result>>
  BY DEF ProbeStart
<1>2. Site = pc /\ Site \in Working /\ Site \notin Evaluating /\ ops.effects = <<>>
  BY <1>0, <1>1, WorkingPlaces DEF Site, Evaluating
<1>3. e \in EventType
  BY <1>0, EventsTyped, RunAssumption DEF Effects
<1> HIDE DEF e
<1>4. "probe_started" \in Sites \ {"receipt_evidence"}
  BY DEF Sites
<1>5. /\ ControlTypes' /\ Site' = "probe_started" /\ Site' \in Working
      /\ pc' \notin Sites \cup {"sync"}
      /\ pc' # "probing" /\ io'.event = e
  BY <1>0, <1>1, <1>3, <1>4, CallsControl
<1>6. CallInv'
  BY <1>1, <1>5 DEF CallInv, e
<1>7. Proceeds
  BY <1>1, <1>2, <1>5 DEF Proceeds
<1>8. QED
  BY <1>0, <1>1, <1>2, <1>5, <1>6, <1>7, KeepsLive

(* The closure returns early with an error.                                *)
LEMMA AbandonLive ==
  ASSUME LiveInv, Close("err"),
         UNCHANGED <<request, requested, chain, disk, receipt, audit, exit, journal, ops,
         performed, todo>>,
         faults' \in 0..MaxFaults, io' \in IoType,
         pc \in {"bind", "probe", "probing", "cleanup", "terminal", "probe_started", "probed",
           "probe_failed"}
  PROVE  LiveInv'
<1>1. Site = pc /\ Site \in Working \ Evaluating
  BY WorkingPlaces DEF Site, Sites, Evaluating
<1>2. Closes
  BY <1>1, Parts DEF Closes, Close
<1>3. QED
  BY <1>2, ClosesLive DEF Close

(* ProbeStarted keeps the invariant: a probe runs only when its record is  *)
(* durable.                                                                *)
LEMMA ProbeStartedLive ==
  ASSUME LiveInv, ProbeStarted
  PROVE  LiveInv'
<1>0. /\ journal \in JournalType /\ ops \in OpsType /\ todo \in TodoType /\ io \in IoType
      /\ performed \subseteq [effect : Effects, attempt : Attempts]
      /\ Len(ops.actions) <= MaxDepth /\ ops.next_attempt \in Attempts
      /\ ~ops.entered => ops.actions = <<>>
      /\ Site \notin Evaluating => ops.effects = <<>>
  BY Parts
<1>1. /\ pc = "probe_started" /\ io' = NoIo
      /\ UNCHANGED <<hostVars, journal, ops, performed, todo>>
  BY DEF ProbeStarted
<1>2. Site = pc /\ Site \in Working /\ Site \notin Evaluating /\ ops.effects = <<>>
  BY <1>0, <1>1, WorkingPlaces DEF Site, Evaluating, Sites
<1>3. CASE io.ok /\ pc' = "probing" /\ UNCHANGED result
  <2>1. Site' = "probing" /\ pc' \in Working /\ pc' \notin Sites \cup {"append", "sync"}
        /\ pc' \in Places
    BY <1>3, WorkingPlaces DEF Site
  <2>2. ControlTypes'
    BY <1>0, <1>1, <1>3, <2>1, NoIoTyped DEF ControlTypes, Sites
  <2>3. ops.next_attempt < MaxProbes
        /\ OpenIn(chain.life, [effect |-> "process", attempt |-> ops.next_attempt])
    BY <1>1, <1>2, <1>3 DEF LiveInv, CallInv, OpenInv, IsOpen
  <2>4. CallInv'
    BY <1>1, <2>1, <2>3 DEF CallInv
  <2>5. Proceeds
    BY <1>1, <1>2, <1>3, <2>1 DEF Proceeds
  <2>6. QED
    BY <1>0, <1>1, <1>2, <2>1, <2>2, <2>3, <2>4, <2>5, KeepsLive
<1>4. CASE ~io.ok /\ Close("err")
  BY <1>1, <1>4, AbandonLive, NoIoTyped DEF LiveInv, Types, WorldTypes, hostVars
<1>5. QED
  BY <1>3, <1>4 DEF ProbeStarted

(* ProbeSucceeds and ProbeFails keep the invariant: the probe that has run *)
(* is open in the journal.                                                 *)
LEMMA ProbeRunsLive ==
  ASSUME LiveInv, ProbeSucceeds \/ ProbeFails
  PROVE  LiveInv'
<1>0. /\ journal \in JournalType /\ ops \in OpsType /\ todo \in TodoType /\ io \in IoType
      /\ performed \subseteq [effect : Effects, attempt : Attempts]
      /\ Len(ops.actions) <= MaxDepth /\ ops.next_attempt \in Attempts
      /\ ~ops.entered => ops.actions = <<>>
      /\ Site \notin Evaluating => ops.effects = <<>>
  BY Parts
<1> DEFINE e == EffectAfter(Root, "process", ops.next_attempt)
           p == [effect |-> "process", attempt |-> ops.next_attempt]
<1>1. /\ pc = "probing" /\ performed' \subseteq performed \cup {p}
      /\ UNCHANGED <<hostVars, todo, result>>
      /\ \E s \in {"probed", "probe_failed"} : Call(s, e)
  BY DEF ProbeSucceeds, ProbeFails
<1>2. Site = pc /\ Site \in Working /\ Site \notin Evaluating /\ ops.effects = <<>>
  BY <1>0, <1>1, WorkingPlaces DEF Site, Evaluating
<1>3. e \in EventType /\ e.kind = "effect-after" /\ p \in [effect : Effects, attempt : Attempts]
  BY <1>0, EventsTyped, RunAssumption DEF Effects, EffectAfter
<1>4. IsOpen(p) /\ ops.next_attempt < MaxProbes
  BY <1>1, <1>2 DEF LiveInv, OpenInv, CallInv
<1> HIDE DEF e, p
<1>5. PICK s \in {"probed", "probe_failed"} : Call(s, e)
  BY <1>1
<1>6. s \in Sites \ {"receipt_evidence"}
  BY DEF Sites
<1>7. /\ ops' \in OpsType /\ ops'.effects = ops.effects /\ ops'.actions = ops.actions
         /\ (ops'.entered <=> ops.entered)
      /\ journal' \in JournalType /\ (journal'.failed <=> journal.failed)
         /\ (journal'.complete <=> journal.complete)
  <2>1. CASE ProbeSucceeds
    <3>1. ops.next_attempt + 1 \in Attempts
      BY <1>0, <1>4, RunAssumption DEF Attempts
    <3>2. journal' = journal /\ ops' = [ops EXCEPT !.next_attempt = ops.next_attempt + 1]
      BY <2>1 DEF ProbeSucceeds
    <3>3. QED
      BY <1>0, <3>1, <3>2 DEF OpsType
  <2>2. CASE ProbeFails
    <3>1. PICK why \in {"none"} \cup Cancelled :
            journal' = [journal EXCEPT !.primary =
                IF why # "none" /\ (request.metadata_only \/ request.require_true)
                THEN Outcome("cancelled", why) ELSE Outcome("refused", "null")]
      BY <2>2 DEF ProbeFails
    <3>2. why \in {"none", "requested", "timeout"}
      BY <3>1 DEF Cancelled, Polled
    <3>3. /\ Outcome("refused", "null") \in Primary
          /\ why # "none" => Outcome("cancelled", why) \in Primary
      BY <3>2 DEF Primary
    <3>4. PICK primary \in Primary : journal' = [journal EXCEPT !.primary = primary]
      BY <3>1, <3>3
    <3>5. journal' \in JournalType /\ (journal'.failed <=> journal.failed)
          /\ (journal'.complete <=> journal.complete)
      BY <1>0, <3>4 DEF JournalType
    <3>6. ops' = ops
      BY <2>2 DEF ProbeFails
    <3>7. QED
      BY <1>0, <3>5, <3>6
  <2>3. QED
    BY <2>1, <2>2
<1>8. performed' \subseteq [effect : Effects, attempt : Attempts]
  BY <1>0, <1>1, <1>3
<1>9. /\ ControlTypes' /\ Site' = s /\ Site' \in Working /\ pc' \notin Sites \cup {"sync"}
      /\ pc' # "probing" /\ io'.event = e
  <2>1. todo' \in TodoType
    BY <1>0, <1>1
  <2>2. QED
    BY <1>3, <1>5, <1>6, <1>7, <1>8, <2>1, CallsControl
<1>10. CallInv'
  BY <1>3, <1>9 DEF CallInv
<1>11. Proceeds
  BY <1>1, <1>2, <1>4, <1>7, <1>9 DEF Proceeds
<1>12. Site' # "started" /\ Site' \notin Evaluating
  BY <1>9 DEF Evaluating
<1>13. QED
  BY <1>0, <1>1, <1>2, <1>7, <1>9, <1>10, <1>11, <1>12, KeepsLive

(* Probed keeps the invariant.                                             *)
LEMMA ProbedLive ==
  ASSUME LiveInv, Probed
  PROVE  LiveInv'
<1>0. /\ journal \in JournalType /\ ops \in OpsType /\ todo \in TodoType /\ io \in IoType
      /\ performed \subseteq [effect : Effects, attempt : Attempts]
      /\ Len(ops.actions) <= MaxDepth /\ ops.next_attempt \in Attempts
      /\ ~ops.entered => ops.actions = <<>>
      /\ Site \notin Evaluating => ops.effects = <<>>
  BY Parts
<1>1. /\ pc \in {"probed", "probe_failed"} /\ io' = NoIo
      /\ UNCHANGED <<hostVars, journal, ops, performed, todo>>
  BY DEF Probed
<1>2. Site = pc /\ Site \in Working /\ Site \notin Evaluating /\ ops.effects = <<>>
  BY <1>0, <1>1, WorkingPlaces DEF Site, Evaluating, Sites
<1>3. CASE io.ok /\ pc' \in {"probe", "terminal"} /\ UNCHANGED result
  <2>1. /\ ControlTypes' /\ CallInv' /\ Site' = pc' /\ Site' \in Working
        /\ pc' \notin Sites \cup {"sync"}
        /\ pc' # "probing" /\ Site' # "started"
    BY <1>0, <1>1, <1>3, MovesControl, NoIoTyped
  <2>2. Proceeds
    BY <1>1, <1>2, <1>3, <2>1 DEF Proceeds
  <2>3. QED
    BY <1>0, <1>1, <1>2, <2>1, <2>2, KeepsLive
<1>4. CASE ~io.ok /\ Close("err")
  BY <1>1, <1>4, AbandonLive, NoIoTyped DEF LiveInv, Types, WorldTypes, hostVars
<1>5. QED
  BY <1>3, <1>4 DEF Probed

(* Binding, probing and preparing keep the invariant.                      *)
LEMMA ProbeLive ==
  ASSUME LiveInv, ProbeStep
  PROVE  LiveInv'
<1>1. CASE ProbeIsStale \/ PrepareFails
  <2>1. /\ Close("err") /\ UNCHANGED <<hostVars, journal, io, ops, performed, todo>>
        /\ pc \in {"bind", "probe", "probing"}
    BY <1>1 DEF ProbeIsStale, PrepareFails
  <2>2. QED
    BY <2>1, AbandonLive, Parts DEF LiveInv, Types, WorldTypes, hostVars
<1>2. QED
  BY <1>1, BindLive, ProbeStartLive, ProbeStartedLive, ProbeRunsLive, ProbedLive DEF ProbeStep

-----------------------------------------------------------------------------
(* The task.                                                               *)

(* Where a step of the evaluator starts from.                              *)
LEMMA EvaluatorParts ==
  ASSUME LiveInv, pc \in Evaluating
  PROVE  Site = pc /\ Site \in Working /\ pc \notin {"append", "sync", "terminated"}
<1>1. pc \notin {"append", "sync", "terminated"}
  BY DEF Evaluating
<1>2. QED
  BY <1>1, WorkingPlaces DEF Site

(* The evaluator goes on with the same effects open.                       *)
LEMMA EvaluateOn ==
  ASSUME LiveInv, pc \in Evaluating \ {"finished"}, pc' = "evaluate",
         UNCHANGED <<hostVars, todo, result, journal, performed>>,
         io' \in IoType, ops' \in OpsType, ops'.effects = ops.effects,
         ops'.next_attempt = ops.next_attempt,
         Len(ops'.actions) <= MaxDepth, ~ops'.entered => ops'.actions = <<>>,
         ops.effects # <<>> => ops'.actions # <<>>
  PROVE  LiveInv'
<1>1. Site = pc /\ Site \in Working /\ pc \notin {"append", "sync", "terminated"}
  BY EvaluatorParts
<1>2. journal \in JournalType /\ todo \in TodoType
      /\ performed \subseteq [effect : Effects, attempt : Attempts]
  BY Parts
<1>3. /\ ControlTypes' /\ CallInv' /\ Site' = pc' /\ Site' \in Working
      /\ pc' \notin Sites \cup {"sync"}
      /\ pc' # "probing" /\ Site' # "started"
  BY <1>2, MovesControl
<1>4. Proceeds
  BY <1>1, <1>3 DEF Proceeds
<1>5. Site # "finished" /\ Site' \in Evaluating
  BY <1>1, <1>3 DEF Evaluating
<1>6. QED
  BY <1>3, <1>4, <1>5, KeepsLive

(* InitializationFails, RefuseEffect, Throw and Catch keep the invariant.  *)
LEMMA AbortLive ==
  ASSUME LiveInv, InitializationFails \/ RefuseEffect \/ Throw \/ Catch
  PROVE  LiveInv'
<1>0. /\ ops \in OpsType /\ io \in IoType /\ Len(ops.actions) <= MaxDepth
      /\ ~ops.entered => ops.actions = <<>>
      /\ ops.effects # <<>> \/ Site = "started" => ops.actions # <<>>
  BY Parts
<1>1. Cancelled \subseteq Aborts /\ "none" \in Aborts /\ "refused" \in Aborts
      /\ "error" \in Aborts
  BY DEF Cancelled, Polled, Aborts
<1>2. /\ pc = "evaluate" /\ pc' = "evaluate" /\ UNCHANGED <<taskVars, io, journal, performed>>
      /\ \E why \in Aborts : ops' = [ops EXCEPT !.abort = why]
         \/ ops' = [ops EXCEPT !.entered = TRUE, !.abort = why]
  BY <1>1 DEF InitializationFails, RefuseEffect, Throw, Catch
<1>3. /\ ops' \in OpsType /\ ops'.effects = ops.effects /\ ops'.next_attempt = ops.next_attempt
      /\ ops'.actions = ops.actions /\ (ops.entered => ops'.entered)
  BY <1>0, <1>2 DEF OpsType
<1>4. "evaluate" \in Evaluating \ {"finished"}
  BY DEF Evaluating
<1>5. QED
  BY <1>0, <1>2, <1>3, <1>4, EvaluateOn DEF taskVars

(* EnterAction keeps the invariant.                                        *)
LEMMA EnterLive ==
  ASSUME LiveInv, EnterAction
  PROVE  LiveInv'
<1>0. /\ ops \in OpsType /\ io \in IoType /\ journal \in JournalType /\ todo \in TodoType
      /\ performed \subseteq [effect : Effects, attempt : Attempts]
      /\ Len(ops.actions) <= MaxDepth /\ MaxDepth \in Nat \ {0}
      /\ ~ops.entered => ops.actions = <<>>
  BY Parts
<1>1. PICK node \in Nodes :
        /\ IF ops.entered THEN ops.actions # <<>> /\ Len(ops.actions) < MaxDepth
           ELSE node = Root
        /\ Call("entered", ActionStart(node))
  BY DEF EnterAction
<1>2. /\ pc = "evaluate" /\ ops.effects = <<>>
      /\ UNCHANGED <<hostVars, todo, result, journal, performed>>
      /\ ops' = [ops EXCEPT !.entered = TRUE]
  BY DEF EnterAction, taskVars
<1>3. Site = pc /\ Site \in Working /\ pc \notin {"append", "sync", "terminated"}
      /\ Site # "finished"
  BY <1>2, EvaluatorParts DEF Evaluating
<1>4. /\ ops' \in OpsType /\ ops'.effects = <<>> /\ ops'.actions = ops.actions /\ ops'.entered
      /\ ops'.next_attempt = ops.next_attempt
  BY <1>0, <1>2 DEF OpsType
<1>5. ActionStart(node) \in EventType /\ "entered" \in Sites \ {"receipt_evidence"}
      /\ ActionStart(node).kind = "action-start" /\ ActionStart(node).node = node
  BY EventsTyped DEF Sites, ActionStart
<1>6. /\ ControlTypes' /\ Site' = "entered" /\ Site' \in Working /\ pc' \notin Sites \cup {"sync"}
      /\ pc' # "probing" /\ io'.event = ActionStart(node)
  BY <1>0, <1>1, <1>2, <1>4, <1>5, CallsControl
<1>7. Len(ops.actions) < MaxDepth
  BY <1>0, <1>1
<1>8. CallInv'
  BY <1>4, <1>5, <1>6, <1>7 DEF CallInv
<1>9. Proceeds
  BY <1>2, <1>3, <1>6 DEF Proceeds
<1>10. QED
  BY <1>0, <1>2, <1>3, <1>4, <1>6, <1>8, <1>9, KeepsLive

(* Entered keeps the invariant: no more actions nest than MaxDepth.        *)
LEMMA EnteredLive ==
  ASSUME LiveInv, Entered
  PROVE  LiveInv'
<1>0. /\ ops \in OpsType /\ io \in IoType /\ Len(ops.actions) <= MaxDepth
      /\ MaxDepth \in Nat \ {0}
      /\ ~ops.entered => ops.actions = <<>>
      /\ ops.actions \in Seq(Nodes)
      /\ ops.effects # <<>> \/ Site = "started" => ops.actions # <<>>
  BY Parts
<1>1. /\ pc = "entered" /\ pc' = "evaluate" /\ io' = NoIo
      /\ UNCHANGED <<hostVars, todo, result, journal, performed>>
      /\ ops' = IF io.ok THEN [ops EXCEPT !.actions = Append(@, io.event.node)]
                ELSE [ops EXCEPT !.abort = "output"]
  BY DEF Entered, taskVars
<1>2. pc \in Evaluating \ {"finished"} /\ Site = pc
  BY <1>1 DEF Evaluating, Site
<1>3. io.event.node \in Nodes /\ Len(ops.actions) < MaxDepth /\ ops.entered
  BY <1>1, <1>2 DEF LiveInv, CallInv
<1>4. /\ ops' \in OpsType /\ ops'.effects = ops.effects /\ ops'.next_attempt = ops.next_attempt
      /\ ops'.entered
      /\ ops'.actions = ops.actions \/ ops'.actions = Append(ops.actions, io.event.node)
  <2>1. CASE io.ok
    <3> DEFINE new == Append(ops.actions, io.event.node)
    <3>1. new \in Seq(Nodes)
      BY <1>0, <1>3, Prefixed
    <3> HIDE DEF new
    <3>2. ops' = [ops EXCEPT !.actions = new]
      BY <1>1, <2>1 DEF new
    <3>3. ops' \in OpsType /\ ops'.effects = ops.effects /\ ops'.next_attempt = ops.next_attempt
          /\ ops'.entered = ops.entered /\ ops'.actions = new
      BY <1>0, <3>1, <3>2 DEF OpsType
    <3>4. QED
      BY <1>3, <3>3 DEF new
  <2>2. CASE ~io.ok
    <3>1. ops' = [ops EXCEPT !.abort = "output"]
      BY <1>1, <2>2
    <3>2. QED
      BY <1>0, <1>3, <3>1 DEF OpsType, Aborts
  <2>3. QED
    BY <2>1, <2>2
<1>5. Len(ops'.actions) <= MaxDepth /\ (ops.actions # <<>> => ops'.actions # <<>>)
  <2> DEFINE new == Append(ops.actions, io.event.node)
  <2>1. Len(new) = Len(ops.actions) + 1 /\ Len(ops.actions) \in Nat
    BY <1>0, <1>3, Prefixed
  <2>2. Len(<<>>) = 0
    OBVIOUS
  <2> HIDE DEF new
  <2>3. new # <<>>
    BY <2>1, <2>2
  <2>4. Len(new) <= MaxDepth
    BY <1>0, <1>3, <2>1
  <2>5. ops'.actions = ops.actions \/ ops'.actions = new
    BY <1>4 DEF new
  <2>6. QED
    BY <1>0, <2>3, <2>4, <2>5
<1>6. QED
  BY <1>0, <1>1, <1>2, <1>4, <1>5, NoIoTyped, EvaluateOn

(* Left keeps the invariant.                                               *)
LEMMA LeftLive ==
  ASSUME LiveInv, Left
  PROVE  LiveInv'
<1>0. /\ ops \in OpsType /\ io \in IoType /\ Len(ops.actions) <= MaxDepth
      /\ ~ops.entered => ops.actions = <<>>
      /\ ops.effects # <<>> \/ Site = "started" => ops.actions # <<>>
  BY Parts
<1>1. /\ pc = "left" /\ pc' = "evaluate" /\ io' = NoIo
      /\ UNCHANGED <<hostVars, todo, result, journal, performed>>
  BY DEF Left, taskVars
<1>2. PICK next \in Aborts : ops' = [ops EXCEPT !.abort = next]
  <2>1. ops.abort \in Aborts
    BY <1>0 DEF OpsType
  <2>2. QED
    BY <2>1 DEF Left, Aborts
<1>3. /\ ops' \in OpsType /\ ops'.effects = ops.effects /\ ops'.next_attempt = ops.next_attempt
      /\ ops'.actions = ops.actions /\ (ops.entered <=> ops'.entered)
  BY <1>0, <1>2 DEF OpsType
<1>4. pc \in Evaluating \ {"finished"}
  BY <1>1 DEF Evaluating
<1>5. QED
  BY <1>0, <1>1, <1>3, <1>4, NoIoTyped, EvaluateOn

(* LeaveAction keeps the invariant.                                        *)
LEMMA LeaveLive ==
  ASSUME LiveInv, LeaveAction
  PROVE  LiveInv'
<1>0. /\ ops \in OpsType /\ io \in IoType /\ journal \in JournalType /\ todo \in TodoType
      /\ performed \subseteq [effect : Effects, attempt : Attempts]
      /\ Len(ops.actions) <= MaxDepth /\ MaxDepth \in Nat \ {0} /\ ops.actions \in Seq(Nodes)
      /\ ~ops.entered => ops.actions = <<>>
  BY Parts
<1> DEFINE e == ActionEnd(Last(ops.actions))
<1>1. /\ pc = "evaluate" /\ ops.effects = <<>> /\ ops.actions # <<>>
      /\ UNCHANGED <<hostVars, todo, result, journal, performed>>
      /\ ops' = [ops EXCEPT !.actions = Front(ops.actions)] /\ Call("left", e)
  BY DEF LeaveAction, taskVars
<1>2. Site = pc /\ Site \in Working /\ pc \notin {"append", "sync", "terminated"}
      /\ Site # "finished"
  BY <1>1, EvaluatorParts DEF Evaluating
<1>3. /\ Front(ops.actions) \in Seq(Nodes) /\ Len(Front(ops.actions)) = Len(ops.actions) - 1
      /\ Len(ops.actions) \in Nat \ {0} /\ Last(ops.actions) \in Nodes
  BY <1>0, <1>1, FrontTyped
<1>4. /\ ops' \in OpsType /\ ops'.effects = <<>> /\ ops'.actions = Front(ops.actions)
      /\ ops'.entered
      /\ ops'.next_attempt = ops.next_attempt
  BY <1>0, <1>1, <1>3 DEF OpsType
<1>5. e \in EventType /\ "left" \in Sites \ {"receipt_evidence"} /\ e.kind = "action-end"
  BY <1>3, EventsTyped DEF Sites, ActionEnd
<1> HIDE DEF e
<1>6. /\ ControlTypes' /\ Site' = "left" /\ Site' \in Working /\ pc' \notin Sites \cup {"sync"}
      /\ pc' # "probing" /\ io'.event = e
  BY <1>0, <1>1, <1>4, <1>5, CallsControl
<1>7. CallInv'
  BY <1>5, <1>6 DEF CallInv
<1>8. Proceeds
  BY <1>1, <1>2, <1>6 DEF Proceeds
<1>9. Len(ops'.actions) <= MaxDepth
  BY <1>0, <1>3, <1>4
<1>10. QED
  BY <1>1, <1>2, <1>4, <1>6, <1>7, <1>8, <1>9, KeepsLive

(* Small numbers.                                                          *)
LEMMA SmallNumbers == 0 <= 1 /\ 1 <= 1 /\ \A n \in Nat : n + 1 = 2 => n = 1
  OBVIOUS

(* StartEffect keeps the invariant: the attempt is newer than every open   *)
(* one.                                                                    *)
LEMMA StartEffectLive ==
  ASSUME LiveInv, StartEffect
  PROVE  LiveInv'
<1>0. /\ ops \in OpsType /\ io \in IoType /\ journal \in JournalType /\ todo \in TodoType
      /\ performed \subseteq [effect : Effects, attempt : Attempts]
      /\ Len(ops.actions) <= MaxDepth /\ ops.actions \in Seq(Nodes)
      /\ ~ops.entered => ops.actions = <<>>
      /\ ops.next_attempt \in Attempts /\ Attempts \subseteq Nat
  BY Parts
<1>1. PICK effect \in Effects :
        /\ MayOpen(effect) /\ Call("started", EffectBefore(Last(ops.actions), effect,
           ops.next_attempt))
  BY DEF StartEffect
<1> DEFINE e == EffectBefore(Last(ops.actions), effect, ops.next_attempt)
<1>2. /\ pc = "evaluate" /\ UNCHANGED <<hostVars, todo, result, journal, performed>>
      /\ ops.next_attempt < MaxAttempts
      /\ ops' = [ops EXCEPT !.next_attempt = ops.next_attempt + 1] /\ Call("started", e)
  BY <1>1 DEF StartEffect, taskVars
<1>3. Site = pc /\ Site \in Working /\ pc \notin {"append", "sync", "terminated"}
      /\ Site # "finished"
  BY <1>2, EvaluatorParts DEF Evaluating
<1>4. ops.actions # <<>> /\ (ops.effects = <<>> \/ Len(ops.effects) = 1)
  BY <1>1 DEF MayOpen
<1>5. ops.next_attempt + 1 \in Attempts /\ Last(ops.actions) \in Nodes
  <2>1. Last(ops.actions) \in Nodes
    BY <1>0, <1>4, FrontTyped
  <2>2. QED
    BY <1>0, <1>2, <2>1, RunAssumption DEF Attempts
<1>6. /\ ops' \in OpsType /\ ops'.effects = ops.effects /\ ops'.actions = ops.actions
         /\ (ops'.entered <=> ops.entered)
      /\ ops'.next_attempt = ops.next_attempt + 1
  BY <1>0, <1>2, <1>5 DEF OpsType
<1>7. /\ e \in EventType /\ "started" \in Sites \ {"receipt_evidence"} /\ e.kind = "effect-before"
      /\ e.effect = effect /\ e.attempt = ops.next_attempt
  BY <1>0, <1>5, EventsTyped DEF Sites, EffectBefore
<1> HIDE DEF e
<1>8. /\ ControlTypes' /\ Site' = "started" /\ Site' \in Working /\ pc' \notin Sites \cup {"sync"}
      /\ pc' # "probing" /\ io'.event = e
  BY <1>0, <1>2, <1>6, <1>7, CallsControl
<1>9. CallInv'
  <2>1. Len(ops.effects) <= 1
    <3>1. Len(<<>>) = 0
      OBVIOUS
    <3>2. Len(ops.effects) = 0 \/ Len(ops.effects) = 1
      BY <1>4, <3>1
    <3>3. QED
      BY <3>2, SmallNumbers
  <2>2. \A i \in DOMAIN ops.effects : ops.effects[i].attempt < ops.next_attempt
    BY DEF LiveInv, OpsInv
  <2>3. ops.next_attempt < ops.next_attempt + 1
    <3>1. ops.next_attempt \in Nat
      BY <1>0
    <3>2. QED
      BY <3>1
  <2>4. QED
    BY <1>0, <1>6, <1>7, <1>8, <2>1, <2>2, <2>3 DEF CallInv
<1>10. Proceeds
  BY <1>2, <1>3, <1>8 DEF Proceeds
<1>11. Site' \in Evaluating
  BY <1>8 DEF Evaluating
<1>12. QED
  BY <1>0, <1>3, <1>4, <1>6, <1>8, <1>9, <1>10, <1>11, KeepsLive

(* Started keeps the invariant: an effect is open for the evaluator only   *)
(* when its record is durable.                                             *)
LEMMA StartedLive ==
  ASSUME LiveInv, Started
  PROVE  LiveInv'
<1>0. /\ ops \in OpsType /\ io \in IoType /\ journal \in JournalType /\ todo \in TodoType
      /\ performed \subseteq [effect : Effects, attempt : Attempts]
      /\ Len(ops.actions) <= MaxDepth
      /\ ~ops.entered => ops.actions = <<>>
      /\ ops.effects # <<>> \/ Site = "started" => ops.actions # <<>>
      /\ ops.effects \in Seq([effect : Effects, attempt : Attempts]) /\ Attempts \subseteq Nat
      /\ ops.next_attempt \in Attempts
  BY Parts
<1> DEFINE open == [effect |-> io.event.effect, attempt |-> io.event.attempt]
           T == [effect : Effects, attempt : Attempts]
<1>1. /\ pc = "started" /\ pc' = "evaluate" /\ io' = NoIo
      /\ UNCHANGED <<hostVars, todo, result, journal, performed>>
      /\ ops' = IF io.ok THEN [ops EXCEPT !.effects = Append(ops.effects, open)]
                ELSE [ops EXCEPT !.abort = "output"]
  BY DEF Started, taskVars
<1>2. pc \in Evaluating \ {"finished"} /\ Site = pc
  BY <1>1 DEF Evaluating, Site
<1>3. CASE ~io.ok
  <2>1. ops' = [ops EXCEPT !.abort = "output"]
    BY <1>1, <1>3
  <2>2. /\ ops' \in OpsType /\ ops'.effects = ops.effects /\ ops'.next_attempt = ops.next_attempt
        /\ ops'.actions = ops.actions /\ (ops.entered <=> ops'.entered)
    BY <1>0, <2>1 DEF OpsType, Aborts
  <2>3. QED
    BY <1>0, <1>1, <1>2, <2>2, NoIoTyped, EvaluateOn
<1>4. CASE io.ok
  <2>1. /\ io.event.effect \in Effects /\ io.event.attempt \in Attempts
        /\ io.event.attempt < ops.next_attempt /\ Len(ops.effects) <= 1
        /\ \A i \in DOMAIN ops.effects : ops.effects[i].attempt < io.event.attempt
    BY <1>1, <1>2 DEF LiveInv, CallInv
  <2>2. open \in T /\ open.attempt = io.event.attempt /\ IsOpen(open)
    BY <1>1, <1>4, <2>1 DEF LiveInv, OpenInv
  <2> HIDE DEF open
  <2> DEFINE new == Append(ops.effects, open)
  <2>3. /\ new \in Seq(T) /\ Len(new) = Len(ops.effects) + 1 /\ Len(ops.effects) \in Nat
        /\ \A i \in 1..Len(ops.effects) : new[i] = ops.effects[i]
        /\ new[Len(ops.effects) + 1] = open
    BY <1>0, <2>2, Prefixed
  <2> HIDE DEF new
  <2>4. /\ ops' \in OpsType /\ ops'.effects = new /\ ops'.next_attempt = ops.next_attempt
        /\ ops'.actions = ops.actions /\ (ops.entered <=> ops'.entered)
    BY <1>0, <1>1, <1>4, <2>3 DEF OpsType, new
  <2>5. /\ ControlTypes' /\ CallInv' /\ Site' = pc' /\ Site' \in Working
        /\ pc' \notin Sites \cup {"sync"}
        /\ pc' # "probing" /\ Site' # "started"
    BY <1>0, <1>1, <2>4, NoIoTyped, MovesControl
  <2>6. Proceeds
    <3>1. Site \in Working /\ pc \notin {"append", "sync", "terminated"}
      BY <1>2, EvaluatorParts
    <3>2. QED
      BY <1>1, <2>5, <3>1 DEF Proceeds
  <2>7. WorldTypes' /\ EndTypes' /\ FileInv' /\ NameInv' /\ EndInv' /\ ReceiptInv'
    BY <2>6, ProceedsEvidence
  <2>8. DOMAIN new = 1..(Len(ops.effects) + 1) /\ DOMAIN ops.effects = 1..Len(ops.effects)
    BY <1>0, <2>3
  <2>9. ASSUME NEW i \in DOMAIN new PROVE new[i].attempt < ops.next_attempt
               /\ OpenIn(chain.life, new[i])
    <3>1. CASE i \in 1..Len(ops.effects)
      <4>1. new[i] = ops.effects[i] /\ i \in DOMAIN ops.effects
        BY <2>3, <2>8, <3>1
      <4>2. QED
        BY <1>1, <1>2, <4>1 DEF LiveInv, OpsInv, OpenInv, IsOpen
    <3>2. CASE i = Len(ops.effects) + 1
      BY <2>1, <2>2, <2>3, <3>2 DEF IsOpen
    <3>3. QED
      BY <2>3, <2>8, <3>1, <3>2
  <2>10. OpsInv'
    <3>1. Len(new) <= 2 /\ new # <<>>
      BY <2>1, <2>3
    <3>2. ASSUME Len(new) = 2 PROVE new[1].attempt < new[2].attempt
      <4>1. Len(ops.effects) = 1
        <5>1. Len(ops.effects) \in Nat /\ Len(ops.effects) + 1 = 2
          BY <2>3, <3>2
        <5>2. QED
          BY <5>1, SmallNumbers
      <4>2. new[1] = ops.effects[1] /\ new[2] = open /\ 1 \in DOMAIN ops.effects
        BY <2>3, <2>8, <4>1
      <4>3. QED
        BY <2>1, <2>2, <4>2
    <3>3. Site' \in Evaluating /\ ops.actions # <<>>
      BY <1>0, <1>1, <1>2, <2>5 DEF Evaluating
    <3>4. QED
      BY <1>0, <2>4, <2>9, <3>1, <3>2, <3>3 DEF OpsInv
  <2>11. OpenInv'
    <3>1. pc' \notin {"started", "probe_started", "probing"} /\ chain' = chain
      BY <1>1 DEF hostVars
    <3>2. QED
      BY <2>4, <2>9, <3>1 DEF OpenInv, IsOpen
  <2>12. QED
    BY <2>5, <2>7, <2>10, <2>11 DEF LiveInv, Types, FileInv
<1>5. QED
  BY <1>3, <1>4

(* EffectSucceeds and EffectFails keep the invariant: an effect reaches    *)
(* the host while it is open in the journal.                               *)
LEMMA EffectLive ==
  ASSUME LiveInv, EffectSucceeds \/ EffectFails
  PROVE  LiveInv'
<1>0. /\ ops \in OpsType /\ io \in IoType /\ journal \in JournalType /\ todo \in TodoType
      /\ performed \subseteq [effect : Effects, attempt : Attempts]
      /\ Len(ops.actions) <= MaxDepth /\ ops.actions \in Seq(Nodes)
      /\ ~ops.entered => ops.actions = <<>>
      /\ ops.effects # <<>> \/ Site = "started" => ops.actions # <<>>
      /\ ops.effects \in Seq([effect : Effects, attempt : Attempts]) /\ Attempts \subseteq Nat
  BY Parts
<1> DEFINE open == Last(ops.effects)
           e == EffectAfter(Last(ops.actions), open.effect, open.attempt)
<1>1. /\ pc = "evaluate" /\ ops.effects # <<>> /\ performed' \subseteq performed \cup {open}
      /\ UNCHANGED <<hostVars, todo, result>> /\ Call("finished", e)
  BY DEF EffectSucceeds, EffectFails, taskVars
<1>2. Site = pc /\ Site \in Working /\ pc \notin {"append", "sync", "terminated"}
      /\ Site # "finished"
  BY <1>1, EvaluatorParts DEF Evaluating
<1>3. /\ open \in [effect : Effects, attempt : Attempts] /\ Last(ops.actions) \in Nodes
      /\ open = ops.effects[Len(ops.effects)] /\ Len(ops.effects) \in DOMAIN ops.effects
  <2>1. /\ open \in [effect : Effects, attempt : Attempts]
        /\ open = ops.effects[Len(ops.effects)] /\ Len(ops.effects) \in Nat \ {0}
    BY <1>0, <1>1, FrontTyped
  <2>2. Last(ops.actions) \in Nodes
    BY <1>0, <1>1, FrontTyped
  <2>3. DOMAIN ops.effects = 1..Len(ops.effects)
    BY <1>0
  <2>4. Len(ops.effects) \in 1..Len(ops.effects)
    BY <2>1
  <2>5. QED
    BY <2>1, <2>2, <2>3, <2>4
<1>4. IsOpen(open)
  BY <1>2, <1>3 DEF LiveInv, OpenInv
<1>5. /\ e \in EventType /\ "finished" \in Sites \ {"receipt_evidence"} /\ e.kind = "effect-after"
      /\ e.effect = open.effect /\ e.attempt = open.attempt
  BY <1>3, EventsTyped DEF Sites, EffectAfter
<1>6. /\ ops' \in OpsType /\ ops'.effects = ops.effects /\ ops'.actions = ops.actions
         /\ (ops'.entered <=> ops.entered)
      /\ ops'.next_attempt = ops.next_attempt
  <2>1. CASE EffectSucceeds
    BY <1>0, <2>1 DEF EffectSucceeds
  <2>2. CASE EffectFails
    <3>1. PICK why \in Aborts : ops' = [ops EXCEPT !.abort = why]
      <4>1. ops.abort \in Aborts /\ {"error", "refused"} \cup Cancelled \subseteq Aborts
        BY <1>0 DEF OpsType, Cancelled, Polled, Aborts
      <4>2. QED
        BY <2>2, <4>1 DEF EffectFails
    <3>2. QED
      BY <1>0, <3>1 DEF OpsType
  <2>3. QED
    BY <2>1, <2>2
<1>7. /\ journal' \in JournalType /\ (journal'.failed <=> journal.failed)
         /\ (journal'.complete <=> journal.complete)
  <2>1. CASE EffectSucceeds
    BY <1>0, <2>1 DEF EffectSucceeds
  <2>2. CASE EffectFails
    <3>1. PICK lost \in BOOLEAN : journal' = [journal EXCEPT !.output_failed = lost]
      BY <1>0, <2>2 DEF EffectFails, JournalType
    <3>2. QED
      BY <1>0, <3>1 DEF JournalType
  <2>3. QED
    BY <2>1, <2>2
<1> HIDE DEF e, open
<1>8. performed' \subseteq [effect : Effects, attempt : Attempts]
  BY <1>0, <1>1, <1>3
<1>9. /\ ControlTypes' /\ Site' = "finished" /\ Site' \in Working
      /\ pc' \notin Sites \cup {"sync"}
      /\ pc' # "probing" /\ io'.event = e
  <2>1. todo' \in TodoType
    BY <1>0, <1>1
  <2>2. QED
    BY <1>1, <1>5, <1>6, <1>7, <1>8, <2>1, CallsControl
<1>10. CallInv'
  BY <1>1, <1>5, <1>6, <1>9 DEF CallInv, open
<1>11. Proceeds
  BY <1>1, <1>2, <1>4, <1>7, <1>9 DEF Proceeds
<1>12. Site' \in Evaluating
  BY <1>9 DEF Evaluating
<1>13. QED
  BY <1>0, <1>1, <1>2, <1>6, <1>9, <1>10, <1>11, <1>12, KeepsLive

(* Finished keeps the invariant: the outer effect stays open.              *)
LEMMA FinishedLive ==
  ASSUME LiveInv, Finished
  PROVE  LiveInv'
<1>0. /\ ops \in OpsType /\ io \in IoType /\ journal \in JournalType /\ todo \in TodoType
      /\ performed \subseteq [effect : Effects, attempt : Attempts]
      /\ Len(ops.actions) <= MaxDepth /\ Len(ops.effects) <= 2
      /\ ~ops.entered => ops.actions = <<>>
      /\ ops.effects # <<>> \/ Site = "started" => ops.actions # <<>>
      /\ ops.effects \in Seq([effect : Effects, attempt : Attempts]) /\ Attempts \subseteq Nat
      /\ ops.next_attempt \in Attempts
  BY Parts
<1>1. /\ pc = "finished" /\ pc' = "evaluate" /\ io' = NoIo
      /\ UNCHANGED <<hostVars, todo, result, journal, performed>>
  BY DEF Finished, taskVars
<1>2. pc \in Evaluating /\ Site = pc
  BY <1>1 DEF Evaluating, Site
<1> DEFINE new == Front(ops.effects)
           T == [effect : Effects, attempt : Attempts]
<1>3. PICK next \in Aborts : ops' = [ops EXCEPT !.effects = new, !.abort = next]
  <2>1. ops.abort \in Aborts /\ Polled \subseteq Aborts /\ "output" \in Aborts
    BY <1>0 DEF OpsType, Polled, Aborts
  <2>2. QED
    BY <2>1 DEF Finished
<1>4. ops.effects # <<>>
  BY <1>1, <1>2 DEF LiveInv, CallInv
<1>5. /\ new \in Seq(T) /\ Len(new) = Len(ops.effects) - 1 /\ Len(ops.effects) \in Nat \ {0}
      /\ \A i \in 1..(Len(ops.effects) - 1) : new[i] = ops.effects[i]
  BY <1>0, <1>4, FrontTyped
<1> HIDE DEF new
<1>6. /\ ops' \in OpsType /\ ops'.effects = new /\ ops'.next_attempt = ops.next_attempt
      /\ ops'.actions = ops.actions /\ (ops.entered <=> ops'.entered)
  BY <1>0, <1>3, <1>5 DEF OpsType
<1>7. /\ ControlTypes' /\ CallInv' /\ Site' = pc' /\ Site' \in Working
      /\ pc' \notin Sites \cup {"sync"}
      /\ pc' # "probing" /\ Site' # "started"
  BY <1>0, <1>1, <1>6, NoIoTyped, MovesControl
<1>8. Proceeds
  <2>1. Site \in Working /\ pc \notin {"append", "sync", "terminated"}
    BY <1>2, EvaluatorParts
  <2>2. QED
    BY <1>1, <1>7, <2>1 DEF Proceeds
<1>9. WorldTypes' /\ EndTypes' /\ FileInv' /\ NameInv' /\ EndInv' /\ ReceiptInv'
  BY <1>8, ProceedsEvidence
<1>10. DOMAIN new = 1..(Len(ops.effects) - 1) /\ DOMAIN ops.effects = 1..Len(ops.effects)
  BY <1>0, <1>5
<1>11. ASSUME NEW i \in DOMAIN new PROVE new[i].attempt < ops.next_attempt
              /\ OpenIn(chain.life, new[i])
  <2>1. new[i] = ops.effects[i] /\ i \in DOMAIN ops.effects /\ i < Len(ops.effects)
    BY <1>5, <1>10
  <2>2. QED
    BY <2>1 DEF LiveInv, OpsInv, OpenInv, IsOpen
<1>12. OpsInv'
  <2>1. Len(new) <= 1
    BY <1>0, <1>5
  <2>2. Site' \in Evaluating /\ Len(new) # 2 /\ Len(new) <= 2
    <3>1. Len(new) \in Nat
      BY <1>5
    <3> HIDE DEF new
    <3>2. Len(new) # 2 /\ Len(new) <= 2
      BY ONLY <2>1, <3>1
    <3>3. QED
      BY <1>1, <1>7, <3>2 DEF Evaluating
  <2>3. QED
    BY <1>0, <1>4, <1>6, <1>7, <1>11, <2>2 DEF OpsInv
<1>13. OpenInv'
  <2>1. pc' \notin {"started", "probe_started", "probing"} /\ chain' = chain
    BY <1>1 DEF hostVars
  <2>2. QED
    BY <1>6, <1>11, <2>1 DEF OpenInv, IsOpen
<1>14. QED
  BY <1>7, <1>9, <1>12, <1>13 DEF LiveInv, Types, FileInv

(* Evaluating the task keeps the invariant.                                *)
LEMMA TaskLive ==
  ASSUME LiveInv, TaskStep
  PROVE  LiveInv'
  BY AbortLive, EnterLive, EnteredLive, StartEffectLive, StartedLive, EffectLive, FinishedLive,
     LeaveLive, LeftLive DEF TaskStep

-----------------------------------------------------------------------------
(* Cleanup and the terminal line.                                          *)

(* A step from cleanup to cleanup or the terminal line keeps the           *)
(* invariant.                                                              *)
LEMMA OutsideLive ==
  ASSUME LiveInv, pc \in {"cleanup", "cleaned"}, pc' \in {"cleanup", "terminal"},
         UNCHANGED <<hostVars, journal, ops, performed, result>>, io' \in IoType,
           todo' \in TodoType
  PROVE  LiveInv'
<1>0. /\ ops \in OpsType /\ journal \in JournalType
      /\ performed \subseteq [effect : Effects, attempt : Attempts]
      /\ Len(ops.actions) <= MaxDepth
      /\ ~ops.entered => ops.actions = <<>>
      /\ Site \notin Evaluating => ops.effects = <<>>
  BY Parts
<1>1. /\ Site = pc /\ Site \in Working /\ Site \notin Evaluating /\ ops.effects = <<>>
      /\ pc \notin {"append", "sync", "terminated"} /\ Site # "finished"
  BY <1>0, WorkingPlaces DEF Site, Evaluating, Sites
<1>2. /\ ControlTypes' /\ CallInv' /\ Site' = pc' /\ Site' \in Working
      /\ pc' \notin Sites \cup {"sync"}
      /\ pc' # "probing" /\ Site' # "started"
  BY <1>0, MovesControl
<1>3. Proceeds
  BY <1>1, <1>2 DEF Proceeds
<1>4. QED
  BY <1>0, <1>1, <1>2, <1>3, KeepsLive

(* Cleaned keeps the invariant.                                            *)
LEMMA CleanedLive ==
  ASSUME LiveInv, Cleaned
  PROVE  LiveInv'
<1>1. /\ pc = "cleaned" /\ pc' = "cleanup" /\ io' = NoIo
      /\ UNCHANGED <<hostVars, journal, ops, performed, result>>
  BY DEF Cleaned
<1>2. todo \in TodoType /\ todo.host \in Seq(CleanupEvents)
      /\ todo.resources \in Seq(CleanupEvents)
  BY Parts DEF TodoType
<1>3. <<>> \in Seq(CleanupEvents)
  OBVIOUS
<1>4. pc = "cleaned" => Site = "cleaned"
  BY DEF Site
<1>5. todo' \in TodoType
  <2>1. CASE todo.host # <<>>
    <3>1. todo' = IF io.ok THEN [todo EXCEPT !["host"] = Tail(todo["host"])]
                  ELSE [todo EXCEPT !["host"] = <<>>, !.failed = TRUE]
      BY <2>1 DEF Cleaned
    <3>2. Tail(todo.host) \in Seq(CleanupEvents)
      BY <1>2, <2>1
    <3>3. QED
      BY <1>2, <1>3, <3>1, <3>2 DEF TodoType
  <2>2. CASE todo.host = <<>>
    <3>1. todo' = IF io.ok THEN [todo EXCEPT !["resources"] = Tail(todo["resources"])]
                  ELSE [todo EXCEPT !["resources"] = <<>>, !.failed = TRUE]
      BY <2>2 DEF Cleaned
    <3>2. CASE todo.resources # <<>>
      <4>1. Tail(todo.resources) \in Seq(CleanupEvents)
        BY <1>2, <3>2
      <4>2. QED
        BY <1>2, <1>3, <3>1, <4>1 DEF TodoType
    <3>3. CASE todo.resources = <<>>
      <4>1. FALSE
        BY <1>1, <1>4, <2>2, <3>3 DEF LiveInv, CallInv
      <4>2. QED
        BY <4>1
    <3>4. QED
      BY <3>2, <3>3
  <2>3. QED
    BY <2>1, <2>2
<1>6. QED
  BY <1>1, <1>5, NoIoTyped, OutsideLive

(* A sum of numbers that are not both zero.                                *)
LEMMA SumNotZero == \A m, n \in Nat : m # 0 \/ n # 0 => m + n # 0 /\ m + n \in Nat
  OBVIOUS

(* AppendCleanup keeps the invariant.                                      *)
LEMMA AppendCleanupLive ==
  ASSUME LiveInv, AppendCleanup
  PROVE  LiveInv'
<1>0. /\ ops \in OpsType /\ journal \in JournalType /\ todo \in TodoType
      /\ performed \subseteq [effect : Effects, attempt : Attempts]
      /\ Len(ops.actions) <= MaxDepth
      /\ ~ops.entered => ops.actions = <<>>
      /\ Site \notin Evaluating => ops.effects = <<>>
  BY Parts
<1> DEFINE all == todo.host \o todo.resources
           e == Head(all)
<1>1. /\ pc = "cleanup" /\ UNCHANGED <<hostVars, journal, ops, performed, todo, result>>
      /\ Call("cleaned", e)
      /\ todo.host # <<>> \/ todo.resources # <<>>
  BY DEF AppendCleanup
<1>2. /\ Site = pc /\ Site \in Working /\ Site \notin Evaluating /\ ops.effects = <<>>
      /\ pc \notin {"append", "sync", "terminated"} /\ Site # "finished"
  BY <1>0, <1>1, WorkingPlaces DEF Site, Evaluating
<1>3. e \in CleanupEvents
  <2>1. todo.host \in Seq(CleanupEvents) /\ todo.resources \in Seq(CleanupEvents)
    BY <1>0 DEF TodoType
  <2>2. all \in Seq(CleanupEvents) /\ Len(all) = Len(todo.host) + Len(todo.resources)
        /\ Len(todo.host) \in Nat /\ Len(todo.resources) \in Nat
    BY <2>1
  <2>3. Len(todo.host) # 0 \/ Len(todo.resources) # 0
    BY <1>1, <2>1, EmptySeq
  <2> HIDE DEF all
  <2>4. Len(all) # 0 /\ Len(all) \in Nat
    BY <2>2, <2>3, SumNotZero
  <2>5. all # <<>>
    BY <2>2, <2>4, EmptySeq
  <2>6. QED
    BY <2>2, <2>5, HeadTailProperties
<1> HIDE DEF e
<1>4. e \in EventType /\ "cleaned" \in Sites \ {"receipt_evidence"} /\ e.kind = "cleanup"
  BY <1>3, EventsTyped DEF Sites, CleanupEvents
<1>5. /\ ControlTypes' /\ Site' = "cleaned" /\ Site' \in Working /\ pc' \notin Sites \cup {"sync"}
      /\ pc' # "probing" /\ io'.event = e
  BY <1>0, <1>1, <1>4, CallsControl
<1>6. CallInv'
  BY <1>1, <1>4, <1>5 DEF CallInv
<1>7. Proceeds
  BY <1>1, <1>2, <1>5 DEF Proceeds
<1>8. QED
  BY <1>0, <1>1, <1>2, <1>5, <1>6, <1>7, KeepsLive

(* CleanupDone keeps the invariant.                                        *)
LEMMA CleanupDoneLive ==
  ASSUME LiveInv, CleanupDone
  PROVE  LiveInv'
<1>1. /\ pc = "cleanup" /\ UNCHANGED <<hostVars, journal, io, ops, performed, todo>>
      /\ Close("err") \/ (pc' = "terminal" /\ UNCHANGED result)
  BY DEF CleanupDone
<1>2. io \in IoType /\ todo \in TodoType /\ faults \in 0..MaxFaults
  BY Parts DEF LiveInv, Types, WorldTypes
<1>3. CASE Close("err")
  BY <1>1, <1>2, <1>3, AbandonLive DEF hostVars
<1>4. CASE pc' = "terminal" /\ UNCHANGED result
  BY <1>1, <1>2, <1>4, OutsideLive
<1>5. QED
  BY <1>1, <1>3, <1>4

(* AppendTerminal keeps the invariant.                                     *)
LEMMA AppendTerminalLive ==
  ASSUME LiveInv, AppendTerminal
  PROVE  LiveInv'
<1>0. /\ ops \in OpsType /\ journal \in JournalType /\ todo \in TodoType
      /\ performed \subseteq [effect : Effects, attempt : Attempts]
      /\ Len(ops.actions) <= MaxDepth
      /\ ~ops.entered => ops.actions = <<>>
      /\ Site \notin Evaluating => ops.effects = <<>>
  BY Parts
<1>1. PICK at \in FinishTimes :
        Call("terminated", Terminal(journal.primary, journal.cleanup, journal.assessment, at))
  BY DEF AppendTerminal
<1> DEFINE e == Terminal(journal.primary, journal.cleanup, journal.assessment, at)
<1>2. /\ pc = "terminal" /\ UNCHANGED <<hostVars, journal, ops, performed, todo, result>>
      /\ Call("terminated", e)
  BY <1>1 DEF AppendTerminal
<1>3. /\ Site = pc /\ Site \in Working /\ Site \notin Evaluating /\ ops.effects = <<>>
      /\ pc \notin {"append", "sync", "terminated"} /\ Site # "finished"
  BY <1>0, <1>2, WorkingPlaces DEF Site, Evaluating
<1>4. e \in EventType /\ "terminated" \in Sites \ {"receipt_evidence"}
  <2>1. /\ journal.primary \in Primary /\ journal.cleanup \in Seq(CleanupOutcomes)
        /\ journal.assessment \in {"null", "true", "false"} /\ at \in Nat
    BY <1>0, RunAssumption DEF JournalType
  <2>2. QED
    BY <2>1, EventsTyped DEF Sites
<1> HIDE DEF e
<1>5. /\ ControlTypes' /\ Site' = "terminated" /\ Site' \in Working
      /\ pc' \notin Sites \cup {"sync"}
      /\ pc' # "probing" /\ io'.event = e
  BY <1>0, <1>2, <1>4, CallsControl
<1>6. CallInv'
  BY <1>1, <1>2, <1>5 DEF CallInv, e
<1>7. Proceeds
  BY <1>2, <1>3, <1>5 DEF Proceeds
<1>8. Site' \notin Evaluating /\ Site' # "started"
  BY <1>5 DEF Evaluating
<1>9. QED
  BY <1>0, <1>2, <1>3, <1>5, <1>6, <1>7, <1>8, KeepsLive

(* Terminated keeps the invariant.                                         *)
LEMMA TerminatedLive ==
  ASSUME LiveInv, Terminated
  PROVE  LiveInv'
<1>0. journal \in JournalType /\ io \in IoType
  BY Parts
<1>1. /\ pc = "terminated" /\ pc' = "closed" /\ io' = NoIo
      /\ UNCHANGED <<hostVars, ops, performed, todo>>
      /\ journal' = [journal EXCEPT !.complete = io.ok]
      /\ result' = IF ~io.ok THEN "err"
             ELSE IF journal.primary.class = "success" /\ ~CleanupFailed THEN "success"
             ELSE "failure"
  BY DEF Terminated, Close
<1>2. Site = pc /\ Site \in Working \ Evaluating
  BY <1>1, WorkingPlaces DEF Site, Sites, Evaluating
<1>3. journal' \in JournalType /\ (journal'.failed <=> journal.failed)
  BY <1>0, <1>1 DEF JournalType, IoType
<1>4. Closes
  BY <1>1, <1>2, <1>3, NoIoTyped DEF Closes, hostVars, LiveInv, Types, WorldTypes
<1>5. QED
  BY <1>1, <1>4, ClosesLive

(* append_standard_host_cleanup, append_cleanup_events: the events to      *)
(* append, and the outcomes the terminal line reports.                     *)
LEMMA CleanupTyped ==
  ASSUME NEW n \in Nat, NEW failures \in Nat, NEW outcomes \in [1..n -> CleanupOutcomes]
  PROVE  /\ HostCleanup(failures, n) \in Seq(CleanupEvents)
         /\ ResourceCleanup(outcomes) \in Seq(CleanupEvents)
         /\ [i \in 1..failures |-> "cleanup-failed"] \o outcomes \in Seq(CleanupOutcomes)
<1>1. "cleanup-failed" \in CleanupOutcomes
  BY DEF CleanupOutcomes
<1>2. outcomes \in Seq(CleanupOutcomes) /\ Len(outcomes) = n /\ DOMAIN outcomes = 1..n
  OBVIOUS
<1>3. HostCleanup(failures, n) \in Seq(CleanupEvents)
  <2>1. ASSUME NEW i \in 1..failures
               PROVE Cleanup("standard-host", n + failures - i,
                      "cleanup-failed") \in CleanupEvents
    <3>1. n + failures - i \in Nat
      OBVIOUS
    <3>2. QED
      BY <1>1, <3>1, EventsTyped
  <2>2. [i \in 1..failures |-> Cleanup("standard-host", n + failures - i,
        "cleanup-failed")] \in Seq(CleanupEvents)
    BY <2>1, IsASeq
  <2>3. QED
    BY <2>2 DEF HostCleanup
<1>4. ResourceCleanup(outcomes) \in Seq(CleanupEvents)
  <2>1. ASSUME NEW i \in 1..n PROVE Cleanup("resource", n - i, outcomes[i]) \in CleanupEvents
    <3>1. n - i \in Nat /\ outcomes[i] \in CleanupOutcomes
      OBVIOUS
    <3>2. QED
      BY <3>1, EventsTyped
  <2>2. [i \in 1..n |-> Cleanup("resource", n - i, outcomes[i])] \in Seq(CleanupEvents)
    BY <2>1, IsASeq
  <2>3. QED
    BY <1>2, <2>2 DEF ResourceCleanup
<1>5. [i \in 1..failures |-> "cleanup-failed"] \in Seq(CleanupOutcomes)
  BY <1>1, IsASeq
<1>6. [i \in 1..failures |-> "cleanup-failed"] \o outcomes \in Seq(CleanupOutcomes)
  BY <1>2, <1>5, ConcatProperties
<1>7. QED
  BY <1>3, <1>4, <1>6

(* script_outcome_value: the outcomes and assessments of a task.           *)
LEMMA OutcomesTyped ==
  ASSUME LiveInv
  PROVE  /\ Primaries \subseteq Primary
         /\ \A p \in Primaries : \A a \in Assessments(p) : a[1] \in Primary
            /\ a[2] \in {"null", "true", "false"}
<1>1. ops.abort \in Aborts
  BY Parts DEF OpsType
<1>2. Primaries \subseteq Primary
  BY <1>1 DEF Primaries, Primary
<1>3. Outcome("error", "null") \in Primary
  BY DEF Primary
<1>4. ASSUME NEW p \in Primaries, NEW a \in Assessments(p)
      PROVE  a[1] \in Primary /\ a[2] \in {"null", "true", "false"}
  <2>1. a \in {<<p, "true">>, <<p, "false">>, <<Outcome("error", "null"), "null">>, <<p, "null">>}
    BY <1>4 DEF Assessments
  <2>2. p \in Primary
    BY <1>2
  <2>3. QED
    BY <1>3, <2>1, <2>2
<1>5. QED
  BY <1>2, <1>4

(* Evaluated keeps the invariant.                                          *)
LEMMA EvaluatedLive ==
  ASSUME LiveInv, Evaluated
  PROVE  LiveInv'
<1>0. /\ ops \in OpsType /\ journal \in JournalType /\ todo \in TodoType /\ io \in IoType
      /\ performed \subseteq [effect : Effects, attempt : Attempts]
      /\ MaxDepth \in Nat \ {0}
  BY Parts
<1>1. PICK primary \in Primaries, n \in 0..MaxResources,
           failures \in 0..(IF request.streams THEN MaxHostFailures ELSE 0) :
        \E assessed \in Assessments(primary),
          outcomes \in [1..n -> {"success", "cleanup-failed"}] :
          /\ journal' = [journal EXCEPT
                !.primary = assessed[1],
                !.assessment = assessed[2],
                !.cleanup = [i \in 1..failures |-> "cleanup-failed"] \o outcomes]
          /\ todo' = [todo EXCEPT !.host = HostCleanup(failures, n),
                                  !.resources = ResourceCleanup(outcomes)]
  BY DEF Evaluated
<1>2. PICK assessed \in Assessments(primary),
      outcomes \in [1..n -> {"success", "cleanup-failed"}] :
          /\ journal' = [journal EXCEPT
                !.primary = assessed[1],
                !.assessment = assessed[2],
                !.cleanup = [i \in 1..failures |-> "cleanup-failed"] \o outcomes]
          /\ todo' = [todo EXCEPT !.host = HostCleanup(failures, n),
                                  !.resources = ResourceCleanup(outcomes)]
  BY <1>1
<1>3. /\ pc = "evaluate" /\ ops.effects = <<>> /\ ops' = NewOperations /\ pc' = "cleanup"
      /\ UNCHANGED <<hostVars, io, performed, result>>
  BY DEF Evaluated
<1>4. n \in Nat /\ failures \in Nat /\ outcomes \in [1..n -> CleanupOutcomes]
  BY RunAssumption DEF CleanupOutcomes
<1> DEFINE cleaned == [i \in 1..failures |-> "cleanup-failed"] \o outcomes
           host == HostCleanup(failures, n)
           resources == ResourceCleanup(outcomes)
<1>5. host \in Seq(CleanupEvents) /\ resources \in Seq(CleanupEvents)
      /\ cleaned \in Seq(CleanupOutcomes)
  BY <1>4, CleanupTyped
<1>6. assessed[1] \in Primary /\ assessed[2] \in {"null", "true", "false"}
  BY OutcomesTyped
<1>7. /\ journal' = [journal EXCEPT !.primary = assessed[1], !.assessment = assessed[2],
         !.cleanup = cleaned]
      /\ todo' = [todo EXCEPT !.host = host, !.resources = resources]
  BY <1>2
<1> HIDE DEF cleaned, host, resources
<1>8. /\ journal' \in JournalType /\ (journal'.failed <=> journal.failed)
         /\ (journal'.complete <=> journal.complete)
      /\ todo' \in TodoType
  BY <1>0, <1>5, <1>6, <1>7 DEF JournalType, TodoType
<1>9. /\ ops' \in OpsType /\ ops'.effects = <<>> /\ ops'.actions = <<>>
      /\ Len(ops'.actions) <= MaxDepth
  <2>1. NewOperations \in OpsType /\ NewOperations.effects = <<>> /\ NewOperations.actions = <<>>
    BY RunAssumption DEF NewOperations, OpsType, Aborts, Attempts
  <2>2. Len(<<>>) <= MaxDepth
    BY <1>0
  <2>3. QED
    BY <1>3, <2>1, <2>2
<1>10. /\ Site = pc /\ Site \in Working /\ pc \notin {"append", "sync", "terminated"}
       /\ Site # "finished"
  BY <1>3, EvaluatorParts DEF Evaluating
<1>11. /\ ControlTypes' /\ CallInv' /\ Site' = pc' /\ Site' \in Working
       /\ pc' \notin Sites \cup {"sync"}
       /\ pc' # "probing" /\ Site' # "started"
  BY <1>0, <1>3, <1>8, <1>9, MovesControl
<1>12. Proceeds
  BY <1>3, <1>8, <1>10, <1>11 DEF Proceeds
<1>13. QED
  BY <1>3, <1>9, <1>10, <1>11, <1>12, KeepsLive

(* Cleanup and the terminal line keep the invariant.                       *)
LEMMA CleanupLive ==
  ASSUME LiveInv, CleanupStep
  PROVE  LiveInv'
<1>1. CASE ClockFails
  <2>1. /\ Close("err") /\ pc = "terminal" /\ Fault
        /\ UNCHANGED <<request, requested, chain, disk, receipt, audit, exit, journal, io, ops,
           performed, todo>>
    BY <1>1 DEF ClockFails
  <2>2. faults' \in 0..MaxFaults
    BY <2>1, RunAssumption DEF Fault, LiveInv, Types, WorldTypes
  <2>3. io' \in IoType
    BY <2>1, Parts
  <2>4. QED
    BY <2>1, <2>2, <2>3, AbandonLive
<1>2. QED
  BY <1>1, EvaluatedLive, AppendCleanupLive, CleanedLive, CleanupDoneLive, AppendTerminalLive,
     TerminatedLive DEF CleanupStep

-----------------------------------------------------------------------------
(* Receipt and audit.                                                      *)

(* A step after the closure that does not end the command.                 *)
Finishes ==
  /\ UNCHANGED <<request, requested, chain, journal, disk, ops, performed, todo, result, exit>>
  /\ faults' \in 0..MaxFaults /\ io' \in IoType
  /\ receipt' \in ReceiptType /\ audit' \in AuditType
  /\ pc \in Closed
  /\ \/ pc' \in Closed \ {"closed", "receipt_evidence"}
     \/ /\ pc' = "append" /\ io'.site = "receipt_evidence" /\ io'.event = EvidenceFailure
        /\ ~journal.complete

(* A step after the closure keeps the invariant once the receipt does.     *)
LEMMA FinishesLive ==
  ASSUME LiveInv, Finishes, ReceiptInv'
  PROVE  LiveInv'
<1>1. UNCHANGED <<request, requested, chain, journal, disk, ops, performed, todo, result, exit>>
  BY DEF Finishes
<1>2. /\ Site = pc /\ Site \in Closed /\ pc \notin {"append", "sync", "terminated"}
      /\ Site \notin Evaluating
      /\ Site \notin Setup
  BY DEF Finishes, Site, Closed, Evaluating, Setup
<1>3. /\ Site' \in Closed \ {"closed"} /\ pc' \notin Sites \cup {"sync", "probing", "terminated"}
      /\ Site' \notin Evaluating /\ Site' \notin Setup
      /\ Site' = "receipt_evidence" => io'.event = EvidenceFailure /\ ~journal.complete
  BY DEF Finishes, Site, Closed, Evaluating, Setup, Sites
<1>4. Types'
  <2>1. pc' \in Places \cup {"append", "sync"}
        /\ (pc' \in {"append", "sync"} => io'.site \in Sites)
    BY DEF Finishes, Places, Sites, Closed
  <2>2. QED
    BY <1>1, <2>1 DEF LiveInv, Types, WorldTypes, ControlTypes, EndTypes, Finishes
<1>5. CallInv'
  BY <1>3 DEF CallInv, Closed
<1>6. ops.effects = <<>>
  BY <1>2, Parts
<1>7. OpsInv'
  BY <1>1, <1>3, <1>6 DEF LiveInv, OpsInv, Closed
<1>8. OpenInv'
  BY <1>1, <1>3, <1>6 DEF OpenInv, Sites
<1>9. FileInv'
  <2>1. Computes
    BY <1>1, <1>2, <1>3 DEF Computes
  <2>2. QED
    BY <2>1, ComputesFile DEF LiveInv, FileInv
<1>10. NameInv'
  BY <1>1, <1>2, <1>3 DEF LiveInv, NameInv, Closed
<1>11. EndInv'
  <2>1. chain.terminal => journal.complete
    BY <1>2 DEF LiveInv, EndInv
  <2>2. CleanupFailed' <=> CleanupFailed
    BY <1>1 DEF CleanupFailed
  <2>3. QED
    BY <1>1, <1>3, <2>1, <2>2 DEF LiveInv, EndInv
<1>12. QED
  BY <1>4, <1>5, <1>7, <1>8, <1>9, <1>10, <1>11 DEF LiveInv, FileInv

(* audit_journal: there are three verdicts.                                *)
LEMMA AuditVerdicts ==
  ASSUME NEW lines, NEW torn
  PROVE  Audit(lines, torn) \in {"refused", "complete", "incomplete"}
  BY DEF Audit

(* I/O failures stay within their bound.                                   *)
LEMMA FaultCounted ==
  ASSUME faults \in 0..MaxFaults, Fault \/ NoFault
  PROVE  faults' \in 0..MaxFaults
  BY RunAssumption DEF Fault, NoFault

(* Where a step after the closure starts from.                             *)
LEMMA FinishParts ==
  ASSUME LiveInv, pc \in Closed
  PROVE  /\ receipt \in ReceiptType /\ audit \in AuditType /\ io \in IoType
            /\ journal \in JournalType
         /\ faults \in 0..MaxFaults /\ Site = pc
         /\ request.receipt \in BOOLEAN /\ request.task \in BOOLEAN
         /\ request.require_true \in BOOLEAN
         /\ request.task => request.receipt
         /\ chain.terminal => journal.complete
<1>1. /\ receipt \in ReceiptType /\ audit \in AuditType /\ io \in IoType
      /\ journal \in JournalType
      /\ faults \in 0..MaxFaults /\ request \in Requests
  BY Parts DEF LiveInv, Types, WorldTypes, EndTypes
<1>2. pc \notin {"append", "sync", "terminated"}
  BY DEF Closed
<1>3. Site = pc
  BY <1>2 DEF Site
<1>4. request \in RequestType /\ ((request.task \/ request.require_true) => request.receipt)
  BY <1>1, RunAssumption
<1>5. chain.terminal => journal.complete
  BY <1>2 DEF LiveInv, EndInv
<1>6. QED
  BY <1>1, <1>3, <1>4, <1>5 DEF RequestType

(* WriteReceipt keeps the invariant: the receipt claims what the journal   *)
(* will show.                                                              *)
LEMMA WriteReceiptLive ==
  ASSUME LiveInv, WriteReceipt
  PROVE  LiveInv'
<1>1. PICK file \in {"written", "torn", "reserved"} :
        /\ IF file = "written" THEN NoFault ELSE Fault
        /\ receipt' = [file |-> file, state |-> JournalState,
                       primary |-> IF journal.primary = NoOutcome
                                   THEN Outcome("error", "null") ELSE journal.primary,
                       secondary |-> Secondary,
                       successful |-> result = "success" /\ ~Secondary]
        /\ pc' = IF file = "written" THEN "sync_receipt" ELSE "receipt_failed"
  BY DEF WriteReceipt
<1>2. /\ pc = "closed" /\ request.receipt /\ UNCHANGED <<finishVars, journal, disk, audit, exit>>
  BY DEF WriteReceipt
<1>3. pc \in Closed /\ pc' \in {"sync_receipt", "receipt_failed"}
  BY <1>1, <1>2 DEF Closed
<1>4. /\ receipt \in ReceiptType /\ audit \in AuditType /\ io \in IoType
      /\ journal \in JournalType
      /\ faults \in 0..MaxFaults /\ Site = pc
      /\ chain.terminal => journal.complete
  BY <1>3, FinishParts
<1> DEFINE primary == IF journal.primary = NoOutcome THEN Outcome("error",
              "null") ELSE journal.primary
           secondary == Secondary
           successful == result = "success" /\ ~Secondary
<1>5. primary \in Primary /\ secondary \in BOOLEAN /\ successful \in BOOLEAN
  <2>1. Outcome("error", "null") \in Primary /\ journal.primary \in Primary
    BY <1>4 DEF Primary, JournalType
  <2>2. secondary \in BOOLEAN
    BY DEF Secondary
  <2>3. QED
    BY <2>1, <2>2
<1>6. /\ JournalState \in {"unavailable", "complete", "incomplete"}
      /\ JournalState = "complete" => journal.complete
      /\ JournalState = "incomplete" => ~journal.complete
      /\ journal.complete /\ ~journal.failed => JournalState = "complete"
  BY DEF JournalState
<1>7. successful => result = "success"
  OBVIOUS
<1>8. receipt' = [file |-> file, state |-> JournalState, primary |-> primary,
      secondary |-> secondary,
                  successful |-> successful]
  BY <1>1
<1> HIDE DEF primary, secondary, successful
<1>9. receipt' \in ReceiptType /\ receipt'.state = JournalState
      /\ receipt'.successful = successful
  BY <1>5, <1>6, <1>8 DEF ReceiptType, Files
<1>10. result = "success" => journal.complete /\ ~journal.failed
  BY DEF LiveInv, EndInv
<1>11. Site' = pc' /\ ~audit.persisted
  <2>1. ~audit.persisted
    BY <1>2, <1>4 DEF LiveInv, ReceiptInv
  <2>2. QED
    BY <1>3, <2>1 DEF Site
<1>12. ReceiptInv'
  <2>1. JournalState = "incomplete" => Len(disk.lines) = disk.synced
    BY <1>2 DEF JournalState, LiveInv, PendingInv
  <2>2. QED
    BY <1>2, <1>3, <1>4, <1>6, <1>7, <1>9, <1>10, <1>11, <2>1 DEF ReceiptInv, Closed, finishVars
<1>13. Finishes
  <2>1. faults' \in 0..MaxFaults
    BY <1>1, <1>4, FaultCounted
  <2>2. QED
    BY <1>2, <1>3, <1>4, <1>9, <2>1 DEF Finishes, finishVars, Closed
<1>14. QED
  BY <1>12, <1>13, FinishesLive

(* SyncReceipt keeps the invariant.                                        *)
LEMMA SyncReceiptLive ==
  ASSUME LiveInv, SyncReceipt
  PROVE  LiveInv'
<1>1. /\ pc = "sync_receipt" /\ pc' \in {"select", "receipt_failed"} /\ (Fault \/ NoFault)
      /\ UNCHANGED <<finishVars, journal, disk, audit, exit>>
      /\ \/ receipt' = [receipt EXCEPT !.file = "durable"]
         \/ receipt' = receipt /\ pc' = "receipt_failed"
  BY DEF SyncReceipt
<1>2. pc \in Closed
  BY <1>1 DEF Closed
<1>3. /\ receipt \in ReceiptType /\ audit \in AuditType /\ io \in IoType
      /\ journal \in JournalType
      /\ faults \in 0..MaxFaults /\ Site = pc
      /\ chain.terminal => journal.complete
  BY <1>2, FinishParts
<1>4. /\ receipt' \in ReceiptType /\ receipt'.state = receipt.state
         /\ (receipt'.successful <=> receipt.successful)
      /\ pc' = "select" => receipt'.file = "durable"
  BY <1>1, <1>3 DEF ReceiptType, Files
<1>5. Site' = pc'
  BY <1>1 DEF Site
<1>6. ReceiptInv'
  BY <1>1, <1>3, <1>4, <1>5 DEF LiveInv, ReceiptInv, Closed, finishVars
<1>7. Finishes
  <2>1. faults' \in 0..MaxFaults
    BY <1>1, <1>3, FaultCounted
  <2>2. QED
    BY <1>1, <1>2, <1>3, <1>4, <2>1 DEF Finishes, finishVars, Closed
<1>8. QED
  BY <1>6, <1>7, FinishesLive

(* ReceiptFailed keeps the invariant.                                      *)
LEMMA ReceiptFailedLive ==
  ASSUME LiveInv, ReceiptFailed
  PROVE  LiveInv'
<1>1. /\ pc = "receipt_failed"
      /\ UNCHANGED <<request, requested, faults, chain, disk, audit, exit, journal, ops, performed,
         todo, result>>
      /\ receipt' = [receipt EXCEPT !.secondary = TRUE, !.successful = FALSE]
  BY DEF ReceiptFailed
<1>2. pc \in Closed
  BY <1>1 DEF Closed
<1>3. /\ receipt \in ReceiptType /\ audit \in AuditType /\ io \in IoType
      /\ journal \in JournalType
      /\ faults \in 0..MaxFaults /\ Site = pc
      /\ chain.terminal => journal.complete
  BY <1>2, FinishParts
<1>4. /\ receipt' \in ReceiptType /\ receipt'.state = receipt.state /\ ~receipt'.successful
  BY <1>1, <1>3 DEF ReceiptType
<1>5. CASE Call("receipt_evidence", EvidenceFailure) /\ ~journal.complete
  <2>1. /\ io' \in IoType /\ pc' = "append" /\ Site' = "receipt_evidence"
        /\ io'.event = EvidenceFailure
        /\ io'.site = "receipt_evidence"
    BY <1>5, CallTyped, EventsTyped DEF Sites
  <2>2. ReceiptInv'
    BY <1>1, <1>3, <1>4, <2>1 DEF LiveInv, ReceiptInv, Closed
  <2>3. Finishes
    BY <1>1, <1>2, <1>3, <1>4, <1>5, <2>1 DEF Finishes
  <2>4. QED
    BY <2>2, <2>3, FinishesLive
<1>6. CASE pc' = "select" /\ UNCHANGED io
  <2>1. Site' = pc'
    BY <1>6 DEF Site
  <2>2. ReceiptInv'
    BY <1>1, <1>3, <1>4, <1>6, <2>1 DEF LiveInv, ReceiptInv, Closed
  <2>3. Finishes
    BY <1>1, <1>2, <1>3, <1>4, <1>6 DEF Finishes, Closed
  <2>4. QED
    BY <2>2, <2>3, FinishesLive
<1>7. QED
  BY <1>5, <1>6 DEF ReceiptFailed

(* ReceiptEvidence keeps the invariant.                                    *)
LEMMA ReceiptEvidenceLive ==
  ASSUME LiveInv, ReceiptEvidence
  PROVE  LiveInv'
<1>1. /\ pc = "receipt_evidence" /\ pc' = "select" /\ io' = NoIo
      /\ UNCHANGED <<request, requested, faults, chain, disk, audit, exit, journal, ops, performed,
         todo, result>>
      /\ \/ receipt' = [receipt EXCEPT !.state = "unavailable"]
         \/ receipt' = [receipt EXCEPT !.state = receipt.state]
  BY DEF ReceiptEvidence
<1>2. pc \in Closed
  BY <1>1 DEF Closed
<1>3. /\ receipt \in ReceiptType /\ audit \in AuditType /\ io \in IoType
      /\ journal \in JournalType
      /\ faults \in 0..MaxFaults /\ Site = pc
      /\ chain.terminal => journal.complete
  BY <1>2, FinishParts
<1>4. /\ receipt' \in ReceiptType /\ receipt'.state \in {"unavailable", receipt.state}
      /\ (receipt'.successful <=> receipt.successful)
  BY <1>1, <1>3 DEF ReceiptType
<1>5. Site' = pc' /\ ~receipt.successful
  BY <1>1, <1>3 DEF Site, LiveInv, ReceiptInv
<1>6. ReceiptInv'
  BY <1>1, <1>3, <1>4, <1>5 DEF LiveInv, ReceiptInv, Closed
<1>7. Finishes
  BY <1>1, <1>2, <1>3, <1>4, NoIoTyped DEF Finishes, Closed
<1>8. QED
  BY <1>6, <1>7, FinishesLive

(* Select and the audit of a task run keep the invariant.                  *)
LEMMA AuditLive ==
  ASSUME LiveInv, pc' # "exited", Select \/ GenerateAudit \/ WriteAudit \/ SyncAudit
  PROVE  LiveInv'
<1>1. /\ UNCHANGED <<finishVars, journal, disk, receipt, exit>> /\ (Fault \/ NoFault)
      /\ pc \in {"select", "audit", "write_audit", "sync_audit"}
      /\ pc' \in {"audit", "write_audit", "sync_audit", "finish_task"}
      /\ pc = "select" => request.task
  BY DEF Select, GenerateAudit, WriteAudit, SyncAudit, Exit, NoFault
<1>2. pc \in Closed
  BY <1>1 DEF Closed
<1>3. /\ receipt \in ReceiptType /\ audit \in AuditType /\ io \in IoType
      /\ journal \in JournalType
      /\ faults \in 0..MaxFaults /\ Site = pc
      /\ chain.terminal => journal.complete
  BY <1>2, FinishParts
<1>4. audit' \in AuditType /\ (audit'.persisted => pc' = "finish_task" /\ audit'.file = "durable")
  <2>0. ~audit.persisted
    BY <1>1, <1>3 DEF LiveInv, ReceiptInv
  <2>1. CASE Select
    BY <1>3, <2>0, <2>1 DEF Select
  <2>2. CASE GenerateAudit
    BY <1>3, <2>0, <2>2, AuditVerdicts DEF GenerateAudit, AuditType
  <2>3. CASE WriteAudit
    BY <1>3, <2>0, <2>3 DEF WriteAudit, AuditType, Files
  <2>4. CASE SyncAudit
    BY <1>3, <2>0, <2>4 DEF SyncAudit, AuditType, Files
  <2>5. QED
    BY <2>1, <2>2, <2>3, <2>4
<1>5. Site' = pc'
  BY <1>1 DEF Site
<1>6. request.task
  BY <1>1, <1>3 DEF LiveInv, ReceiptInv
<1>7. ReceiptInv'
  BY <1>1, <1>3, <1>4, <1>5, <1>6 DEF LiveInv, ReceiptInv, Closed, finishVars
<1>8. Finishes
  <2>1. faults' \in 0..MaxFaults
    BY <1>1, <1>3, FaultCounted
  <2>2. QED
    BY <1>1, <1>2, <1>3, <1>4, <2>1 DEF Finishes, finishVars, Closed
<1>9. QED
  BY <1>7, <1>8, FinishesLive

(* The receipt and the audit keep the invariant.                           *)
LEMMA FinishLive ==
  ASSUME LiveInv, FinishStep, pc' # "exited"
  PROVE  LiveInv'
<1>1. ~WithoutReceipt /\ ~FinishTaskRun
  BY DEF WithoutReceipt, FinishTaskRun, Exit
<1>2. QED
  BY <1>1, WriteReceiptLive, SyncReceiptLive, ReceiptFailedLive, ReceiptEvidenceLive, AuditLive
     DEF FinishStep

-----------------------------------------------------------------------------
(* The verdicts.                                                           *)

(* What file and chain are once there is a journal.                        *)
LEMMA FileParts ==
  ASSUME LiveInv, Site \notin Setup
  PROVE  /\ disk.lines \in Seq(LineType) /\ disk.synced \in 0..Len(disk.lines)
            /\ Len(disk.lines) \in Nat
         /\ disk.synced >= 1 /\ disk.synced = chain.lines /\ disk.synced <= MaxLines
         /\ chain \in ChainType /\ chain.life \in LifeType /\ chain.bytes \in 0..MaxBytes
         /\ disk.torn \in BOOLEAN
         /\ Base \in Seq(LineType) /\ Len(Base) = disk.synced /\ Base # <<>>
         /\ \A i \in 1..disk.synced : Base[i] = disk.lines[i]
         /\ Valid(Base, chain.life, chain.bytes)
         /\ disk.lines[1].event = Header(StartTime, chain.policy)
         /\ disk.lines[1].event.at = StartTime /\ disk.lines[1].event.policy = chain.policy
<1>1. /\ disk \in DiskType /\ disk.lines \in Seq(LineType) /\ chain \in ChainType
      /\ disk.torn \in BOOLEAN
  BY DEF LiveInv, Types, WorldTypes, DiskType
<1>2. chain.life \in LifeType /\ chain.bytes \in 0..MaxBytes /\ chain.lines \in 1..MaxLines
      /\ MaxLines \in Nat
  BY <1>1, ChainAssumption DEF ChainType
<1>3. disk.synced \in 0..Len(disk.lines) /\ Len(disk.lines) \in Nat
  BY Within DEF LiveInv, Types, SyncedWithin
<1>4. ChainInv
  BY DEF LiveInv
<1>5. disk.synced = chain.lines /\ disk.synced >= 1 /\ disk.synced <= MaxLines
  BY <1>2, <1>4 DEF ChainInv
<1>6. /\ Base \in Seq(LineType) /\ Len(Base) = disk.synced
      /\ \A i \in 1..disk.synced : Base[i] = disk.lines[i]
  BY <1>1, <1>3, BaseIs DEF Base
<1>7. Base # <<>>
  <2>1. Len(<<>>) = 0
    OBVIOUS
  <2>2. disk.synced # 0
    BY <1>3, <1>5
  <2>3. QED
    BY <1>6, <2>1, <2>2
<1>8. Valid(Base, chain.life, chain.bytes)
  BY <1>4 DEF ChainInv, Valid
<1>9. /\ disk.lines[1].event = Header(StartTime, chain.policy)
      /\ Header(StartTime, chain.policy).at = StartTime
      /\ Header(StartTime, chain.policy).policy = chain.policy
  BY <1>4 DEF ChainInv, Header
<1>10. /\ disk.lines[1].event.at = StartTime /\ disk.lines[1].event.policy = chain.policy
  BY <1>9
<1>11. QED
  BY <1>1, <1>2, <1>3, <1>5, <1>6, <1>7, <1>8, <1>9, <1>10

(* When nothing is open, every effect that is done has its end on record.  *)
LEMMA SettledAccounts ==
  ASSUME NEW life, NEW lines, NEW n, NEW done, Accounted(life, lines, n, done),
         life.effects = <<>>
  PROVE  \A p \in done : Recorded(lines, n, "effect-after", p)
<1>1. \A p : ~OpenIn(life, p)
  <2>1. DOMAIN <<>> = {}
    OBVIOUS
  <2>2. QED
    BY <2>1 DEF OpenIn
<1>2. QED
  BY <1>1 DEF Accounted

(* With a steady clock no run ends before it starts.                       *)
LEMMA NotBefore ==
  ASSUME Steady, NEW at \in FinishTimes
  PROVE  ~(at < StartTime)
  BY RunAssumption DEF Steady, StartTime

(* audit_journal: the verdict on the durable lines alone.                  *)
LEMMA DurableVerdict ==
  ASSUME LiveInv, Site \notin Setup, NEW torn \in BOOLEAN
  PROVE  /\ ~chain.terminal => Audit(Base, torn) = "incomplete"
         /\ chain.terminal /\ ~torn /\ Steady => Audit(Base, torn) = "complete"
         /\ Audit(Base, torn) = "complete" =>
              \A p \in performed : Recorded(Base, Len(Base), "effect-after", p)
<1>1. /\ disk.synced \in 0..Len(disk.lines)
      /\ disk.synced >= 1 /\ disk.synced <= MaxLines
      /\ chain.life \in LifeType /\ chain.bytes \in 0..MaxBytes
      /\ Base \in Seq(LineType) /\ Len(Base) = disk.synced /\ Base # <<>>
      /\ \A i \in 1..disk.synced : Base[i] = disk.lines[i]
      /\ Valid(Base, chain.life, chain.bytes)
      /\ disk.lines[1].event.at = StartTime /\ disk.lines[1].event.policy = chain.policy
  BY FileParts
<1>2. ~(Len(Base) > MaxLines) /\ ~(chain.bytes > MaxBytes)
  BY <1>1, ChainAssumption
<1>3. /\ ~chain.life.terminal => Audit(Base, torn) = "incomplete"
      /\ (/\ chain.life.terminal /\ ~torn /\ ~(Last(Base).event.at < Base[1].event.at)
          /\ Assessed(Base[1].event.policy, Last(Base).event)) => Audit(Base, torn) = "complete"
      /\ Audit(Base, torn) = "complete" => chain.life.terminal
  BY <1>1, <1>2, AuditOf
<1>4. /\ chain.terminal <=> chain.life.terminal
      /\ chain.terminal => /\ chain.life.effects = <<>>
                           /\ Last(Base).event.at \in FinishTimes
                           /\ Assessed(chain.policy, Last(Base).event)
  BY DEF LiveInv, ChainInv
<1>5. Base[1].event.at = StartTime /\ Base[1].event.policy = chain.policy
  <2>1. 1 \in 1..disk.synced
    BY <1>1
  <2>2. QED
    BY <1>1, <2>1
<1>6. ASSUME chain.terminal PROVE \A p \in performed : Recorded(Base, Len(Base), "effect-after",
             p)
  <2>1. Accounted(chain.life, disk.lines, disk.synced, performed)
    BY DEF LiveInv, AccountInv
  <2>2. \A p \in performed : Recorded(disk.lines, disk.synced, "effect-after", p)
    BY <1>4, <1>6, <2>1, SettledAccounts
  <2>3. QED
    BY <1>1, <2>2 DEF Recorded
<1>7. ASSUME chain.terminal, ~torn, Steady PROVE Audit(Base, torn) = "complete"
  BY <1>3, <1>4, <1>5, <1>7, NotBefore
<1>8. QED
  BY <1>3, <1>4, <1>6, <1>7

(* audit_journal: the verdict when the line that is not durable is there   *)
(* in full.                                                                *)
LEMMA PendingVerdict ==
  ASSUME LiveInv, Site \notin Setup, Len(disk.lines) # disk.synced
  PROVE  /\ ~chain.terminal /\ ~disk.torn
         /\ Last(disk.lines).event.kind # "terminal" => Audit(disk.lines, FALSE) = "incomplete"
         /\ Steady => Audit(disk.lines, FALSE) # "refused"
         /\ Audit(disk.lines, FALSE) = "complete" =>
              \A p \in performed : Recorded(disk.lines, Len(disk.lines), "effect-after", p)
<1>1. /\ disk.lines \in Seq(LineType) /\ disk.synced \in 0..Len(disk.lines)
      /\ Len(disk.lines) \in Nat
      /\ disk.synced >= 1 /\ disk.synced = chain.lines
      /\ chain \in ChainType /\ chain.life \in LifeType /\ chain.bytes \in 0..MaxBytes
      /\ Base \in Seq(LineType) /\ Len(Base) = disk.synced
      /\ Valid(Base, chain.life, chain.bytes)
      /\ disk.lines[1].event.at = StartTime /\ disk.lines[1].event.policy = chain.policy
  BY FileParts
<1> DEFINE line == Last(disk.lines)
           life == Admit(chain.life, line.event)
           bytes == chain.bytes + line.size
<1>2. /\ Len(disk.lines) = disk.synced + 1 /\ line.seq = chain.lines
      /\ CanAppend(chain, line.event, line.size) /\ ~disk.torn
      /\ line.event.kind = "terminal" => line.event.at \in FinishTimes
  BY DEF LiveInv, PendingInv
<1>3. disk.lines = Append(Base, line) /\ disk.lines # <<>>
  <2>1. disk.lines = Append(Base, line)
    BY <1>1, <1>2, BaseIs DEF Base
  <2>2. QED
    BY <1>1, <1>2, <2>1
<1>4. line \in LineType /\ line.event \in EventType /\ line.size \in Nat
  <2>1. line \in LineType
    BY <1>1, <1>3, FrontTyped
  <2>2. QED
    BY <2>1 DEF LineType
<1> HIDE DEF line
<1>5. Valid(disk.lines, life, bytes)
  BY <1>1, <1>2, <1>3, <1>4, AppendReplayed
<1>6. /\ Appended(chain, line.event, line.size) \in ChainType
      /\ Appended(chain, line.event, line.size).life = life
      /\ Appended(chain, line.event, line.size).lines = chain.lines + 1
      /\ Appended(chain, line.event, line.size).bytes = bytes
      /\ ~chain.terminal /\ Admits(chain.life, line.event)
      /\ line.event.kind = "terminal" => Assessed(chain.policy, line.event)
  BY <1>1, <1>2, <1>4, AppendedTyped
<1>7. life \in LifeType /\ chain.lines + 1 \in 1..MaxLines /\ bytes \in 0..MaxBytes
  BY <1>6 DEF ChainType
<1>8. /\ life.terminal <=> line.event.kind = "terminal"
      /\ line.event.kind = "terminal" => chain.life.effects = <<>>
  BY <1>1, <1>4, <1>6, AdmitTyped
<1>9. ~(Len(disk.lines) > MaxLines) /\ ~(bytes > MaxBytes)
  BY <1>1, <1>2, <1>7, ChainAssumption
<1> HIDE DEF life, bytes
<1>10. /\ ~life.terminal => Audit(disk.lines, FALSE) = "incomplete"
       /\ (/\ life.terminal /\ ~FALSE /\ ~(Last(disk.lines).event.at < disk.lines[1].event.at)
           /\ Assessed(disk.lines[1].event.policy, Last(disk.lines).event)) => Audit(disk.lines,
              FALSE) = "complete"
       /\ Audit(disk.lines, FALSE) = "complete" => life.terminal
  BY <1>3, <1>5, <1>7, <1>9, AuditOf
<1>11. ASSUME Steady, line.event.kind = "terminal" PROVE Audit(disk.lines, FALSE) = "complete"
  <2>1. ~(line.event.at < StartTime)
    BY <1>2, <1>11, NotBefore
  <2>2. QED
    BY <1>1, <1>6, <1>8, <1>10, <1>11, <2>1 DEF line
<1>12. Steady => Audit(disk.lines, FALSE) # "refused"
  BY <1>8, <1>10, <1>11
<1>13. ASSUME line.event.kind = "terminal"
       PROVE  \A p \in performed : Recorded(disk.lines, Len(disk.lines), "effect-after", p)
  <2>1. Accounted(chain.life, disk.lines, disk.synced, performed)
    BY DEF LiveInv, AccountInv
  <2>2. \A p \in performed : Recorded(disk.lines, disk.synced, "effect-after", p)
    BY <1>8, <1>13, <2>1, SettledAccounts
  <2>3. 1..disk.synced \subseteq 1..Len(disk.lines)
    BY <1>1
  <2>4. QED
    BY <2>2, <2>3 DEF Recorded
<1>14. QED
  BY <1>2, <1>6, <1>8, <1>10, <1>12, <1>13 DEF line

(* audit_journal: the verdict on any part of the file that holds every     *)
(* durable line: the file itself, and what a crash leaves of it.           *)
LEMMA PrefixVerdict ==
  ASSUME LiveInv, Site \notin Setup, NEW kept \in disk.synced..Len(disk.lines),
         NEW torn \in BOOLEAN,
         torn => disk.torn \/ kept < Len(disk.lines)
  PROVE  LET lines == SubSeq(disk.lines, 1, kept)
             verdict == Audit(lines, torn) IN
         /\ Len(lines) = kept /\ \A i \in 1..disk.synced : lines[i] = disk.lines[i]
         /\ verdict = "complete" => \A p \in performed : Recorded(lines, Len(lines),
            "effect-after", p)
         /\ Steady => verdict # "refused"
         /\ chain.terminal /\ Steady => verdict = "complete"
         /\ (~chain.terminal /\ (Len(disk.lines) = disk.synced
            \/ Last(disk.lines).event.kind # "terminal"))
              => verdict = "incomplete"
<1> DEFINE lines == SubSeq(disk.lines, 1, kept)
           verdict == Audit(lines, torn)
<1>1. /\ disk.lines \in Seq(LineType) /\ disk.synced \in 0..Len(disk.lines)
      /\ Len(disk.lines) \in Nat
  BY FileParts
<1>2. /\ Len(lines) = kept /\ \A i \in 1..kept : lines[i] = disk.lines[i]
      /\ kept = Len(disk.lines) => lines = disk.lines
      /\ kept \in Nat
  BY <1>1, BaseIs
<1>3. /\ Len(lines) = kept /\ \A i \in 1..disk.synced : lines[i] = disk.lines[i]
  BY <1>1, <1>2
<1>4. CASE kept = disk.synced
  <2>1. lines = Base
    BY <1>4 DEF Base
  <2>2. torn => ~chain.terminal
    <3>1. CASE Len(disk.lines) # disk.synced
      BY <3>1, PendingVerdict
    <3>2. CASE Len(disk.lines) = disk.synced
      <4>1. torn => disk.torn
        BY <1>1, <1>4, <3>2
      <4>2. disk.torn => journal.failed
        BY DEF LiveInv, PendingInv
      <4>3. chain.terminal => ~journal.failed
        BY DEF LiveInv, EndInv, Sites
      <4>4. QED
        BY <4>1, <4>2, <4>3
    <3>3. QED
      BY <3>1, <3>2
  <2>3. /\ ~chain.terminal => verdict = "incomplete"
        /\ chain.terminal /\ ~torn /\ Steady => verdict = "complete"
        /\ verdict = "complete" => \A p \in performed : Recorded(lines, Len(lines), "effect-after",
           p)
    BY <2>1, DurableVerdict
  <2> HIDE DEF lines, verdict
  <2>4. QED
    BY <1>3, <2>2, <2>3 DEF lines, verdict
<1>5. CASE kept # disk.synced
  <2>1. Len(disk.lines) # disk.synced
    BY <1>1, <1>5
  <2>2. Len(disk.lines) = disk.synced + 1
    BY <2>1 DEF LiveInv, PendingInv
  <2>3. kept = Len(disk.lines)
    BY <1>1, <1>5, <2>2
  <2>4. lines = disk.lines /\ ~chain.terminal /\ ~disk.torn
    BY <1>2, <2>1, <2>3, PendingVerdict
  <2>5. torn = FALSE
    BY <1>1, <2>3, <2>4
  <2>6. /\ Last(disk.lines).event.kind # "terminal" => verdict = "incomplete"
        /\ Steady => verdict # "refused"
        /\ verdict = "complete" => \A p \in performed : Recorded(lines, Len(lines), "effect-after",
           p)
    BY <2>1, <2>4, <2>5, PendingVerdict
  <2> HIDE DEF lines, verdict
  <2>7. QED
    BY <1>3, <2>1, <2>4, <2>6 DEF lines, verdict
<1>6. QED
  BY <1>4, <1>5

-----------------------------------------------------------------------------
(* What the invariant implies.                                             *)

(* Before there is a journal there is nothing to account for.              *)
LEMMA SetupParts ==
  ASSUME LiveInv, Site \in Setup \cup {"rename", "sync_parent"}
  PROVE  /\ performed = {} /\ receipt.file \in {"absent", "reserved"}
         /\ Site \in Setup => disk = [name |-> "absent", lines |-> <<>>, synced |-> 0,
            torn |-> FALSE]
<1>1. performed = {} /\ (Site \in Setup => disk = [name |-> "absent", lines |-> <<>>, synced |-> 0,
      torn |-> FALSE])
  BY DEF LiveInv, NameInv
<1>2. receipt.file \in {"absent", "reserved"}
  BY DEF LiveInv, ReceiptInv, Setup, Closed
<1>3. QED
  BY <1>1, <1>2

(* The types the invariant implies.                                        *)
LEMMA LiveTypeOK ==
  ASSUME LiveInv
  PROVE  TypeOK
<1>1. /\ request \in Requests /\ requested \in BOOLEAN /\ faults \in 0..MaxFaults
      /\ chain \in ChainType /\ disk \in DiskType
      /\ result \in {"running", "err", "failure", "success"}
      /\ receipt \in ReceiptType /\ audit \in AuditType /\ exit = NoExit
  BY DEF LiveInv, Types, WorldTypes, EndTypes
<1>2. /\ chain.lines \in 1..MaxLines /\ chain.bytes \in 0..MaxBytes
      /\ chain.terminal \in BOOLEAN /\ chain.policy \in {"execution", "require-true"}
  BY <1>1 DEF ChainType, Policies
<1>3. /\ journal.failed \in BOOLEAN /\ journal.complete \in BOOLEAN
      /\ journal.output_failed \in BOOLEAN /\ journal.assessment \in {"null", "true", "false"}
  BY Parts DEF JournalType
<1>4. /\ disk.name \in {"absent", "temporary", "linked", "durable"} /\ disk.torn \in BOOLEAN
  BY <1>1 DEF DiskType
<1>5. disk.synced \in 0..Len(disk.lines)
  BY Within DEF LiveInv, Types, SyncedWithin
<1>6. /\ ops.actions \in Seq(Nodes) /\ Len(ops.actions) <= MaxDepth
      /\ ops.next_attempt \in 0..MaxAttempts /\ Len(ops.effects) <= 2
      /\ performed \subseteq [effect : Effects, attempt : 0..MaxAttempts]
  BY Parts DEF Attempts
<1>7. /\ receipt.file \in {"absent", "reserved", "torn", "written", "durable"}
      /\ audit.file \in {"absent", "reserved", "torn", "written", "durable"}
  BY <1>1 DEF ReceiptType, AuditType, Files
<1>8. QED
  BY <1>1, <1>2, <1>3, <1>4, <1>5, <1>6, <1>7 DEF TypeOK

(* While the command runs, every effect that has reached the host is on    *)
(* record.                                                                 *)
LEMMA LiveEffects ==
  ASSUME LiveInv
  PROVE  /\ EffectsAreJournalled
         /\ performed # {} => disk.name = "durable" /\ Site \notin Setup
         /\ \A p \in performed : Recorded(disk.lines, disk.synced, "effect-before", p)
<1>1. \A p \in performed : Recorded(disk.lines, disk.synced, "effect-before", p)
  BY DEF LiveInv, AccountInv, Accounted
<1>2. performed # {} => disk.name = "durable" /\ Site \notin Setup
  BY DEF LiveInv, NameInv
<1>3. QED
  BY <1>1, <1>2 DEF EffectsAreJournalled, Recorded

(* What a receipt on disk says of the chain.                               *)
LEMMA ReceiptParts ==
  ASSUME LiveInv, receipt.file \in {"written", "durable"}
  PROVE  /\ Site \notin Setup /\ Site \in Closed
         /\ receipt.state = "complete" => chain.terminal
         /\ receipt.state = "incomplete" =>
              /\ ~chain.terminal
              /\ Len(disk.lines) = disk.synced \/ Last(disk.lines).event.kind # "terminal"
<1>1. Site \in Closed \ {"closed"}
  BY DEF LiveInv, ReceiptInv
<1>2. Site \notin Setup
  BY <1>1 DEF Setup, Closed
<1>3. journal.complete => chain.terminal
  BY DEF LiveInv, EndInv
<1>4. QED
  BY <1>1, <1>2, <1>3 DEF LiveInv, ReceiptInv

(* While the command runs, the journal audits as it should.                *)
LEMMA LiveVerdicts ==
  ASSUME LiveInv
  PROVE  /\ CompleteAccountsForEffects
         /\ Steady => JournalIsAuditable /\ ReceiptAgreesWithAudit
<1>1. CASE Site \in Setup
  <2>1. performed = {} /\ receipt.file \in {"absent", "reserved"} /\ disk.name = "absent"
    BY <1>1, SetupParts
  <2>2. QED
    BY <2>1 DEF CompleteAccountsForEffects, JournalIsAuditable, ReceiptAgreesWithAudit, Published
<1>2. CASE Site \notin Setup
  <2>1. /\ disk.lines \in Seq(LineType) /\ disk.synced \in 0..Len(disk.lines)
        /\ Len(disk.lines) \in Nat
        /\ disk.torn \in BOOLEAN
    BY <1>2, FileParts
  <2> DEFINE n == Len(disk.lines)
             lines == SubSeq(disk.lines, 1, n)
  <2>2. n \in disk.synced..Len(disk.lines) /\ lines = disk.lines
    BY <2>1, BaseIs
  <2>3. /\ Verdict = "complete" => \A p \in performed : Recorded(disk.lines, Len(disk.lines),
           "effect-after", p)
        /\ Steady => Verdict # "refused"
        /\ chain.terminal /\ Steady => Verdict = "complete"
        /\ (~chain.terminal /\ (Len(disk.lines) = disk.synced
           \/ Last(disk.lines).event.kind # "terminal"))
              => Verdict = "incomplete"
    BY <1>2, <2>1, <2>2, PrefixVerdict DEF Verdict
  <2>4. CompleteAccountsForEffects
    BY <2>3 DEF CompleteAccountsForEffects, Recorded
  <2>5. Steady => JournalIsAuditable
    BY <2>3 DEF JournalIsAuditable
  <2>6. Steady => ReceiptAgreesWithAudit
    BY <2>3, ReceiptParts DEF ReceiptAgreesWithAudit
  <2>7. QED
    BY <2>4, <2>5, <2>6
<1>3. QED
  BY <1>1, <1>2

(* While the command runs there is no exit code.                           *)
LEMMA LiveEvidence ==
  ASSUME LiveInv
  PROVE  ExitIsEvidenced
  BY DEF LiveInv, Types, EndTypes, ExitIsEvidenced, NoExit

(* Crash: what is left of journal, receipt and audit has the properties.   *)
LEMMA CrashEnded ==
  ASSUME LiveInv, Crash
  PROVE  EndedInv'
<1>1. PICK name \in CASE disk.name = "temporary" -> {"absent"}
                     [] disk.name = "linked" -> {"absent", "linked"}
                     [] OTHER -> {disk.name},
           kept \in disk.synced..Len(disk.lines),
           torn \in BOOLEAN :
        /\ torn => disk.torn \/ kept < Len(disk.lines)
        /\ disk' = [disk EXCEPT !.name = name, !.torn = torn, !.lines = SubSeq(@, 1, kept)]
  BY DEF Crash
<1> DEFINE lines == SubSeq(disk.lines, 1, kept)
<1>2. disk \in DiskType /\ disk.lines \in Seq(LineType) /\ disk.synced \in 0..Len(disk.lines)
      /\ Len(disk.lines) \in Nat
      /\ disk.synced \in Nat
  BY Within DEF LiveInv, Types, WorldTypes, SyncedWithin, DiskType
<1>3. /\ kept \in 0..Len(disk.lines) /\ kept \in Nat /\ disk.synced <= kept
  BY <1>2
<1>4. /\ lines \in Seq(LineType) /\ Len(lines) = kept
         /\ \A i \in 1..kept : lines[i] = disk.lines[i]
  BY <1>2, <1>3, BaseIs
<1>5. name \in {"absent", "temporary", "linked", "durable"}
      /\ (disk.name = "durable" => name = "durable")
      /\ (disk.name = "absent" => name = "absent")
  BY <1>1, <1>2 DEF DiskType
<1>6. /\ disk'.name = name /\ disk'.torn = torn /\ disk'.lines = lines
      /\ disk'.synced = disk.synced
  BY <1>1, <1>2 DEF DiskType
<1> HIDE DEF lines
<1>7. /\ io' = NoIo /\ chain' = Begin("execution", 0) /\ journal' = NewJournal
      /\ ops' = NewOperations /\ todo' = NoCleanup /\ result' = "running"
      /\ requested' = FALSE /\ faults' = 0
      /\ UNCHANGED <<request, performed, exit>>
  BY DEF Crash
<1>8. PICK file \in Remains(receipt.file) :
        receipt' = IF file \in {"written", "durable"} THEN [receipt EXCEPT !.file = file]
                   ELSE [NoReceipt EXCEPT !.file = file]
  BY DEF Crash
<1>9. /\ receipt'.file \in Files
      /\ receipt'.file \in {"written", "durable"} =>
           receipt.file \in {"written", "durable"} /\ receipt'.state = receipt.state
  <2>1. receipt \in ReceiptType
    BY DEF LiveInv, Types, EndTypes
  <2>2. file \in Files /\ (file \in {"written", "durable"} => receipt.file \in {"written",
        "durable"})
    BY <2>1 DEF Remains, ReceiptType, Files
  <2>3. receipt'.file = file /\ (file \in {"written", "durable"}
        => receipt'.state = receipt.state)
    BY <1>8, <2>1 DEF ReceiptType, NoReceipt
  <2>4. QED
    BY <2>2, <2>3
<1>10. audit'.file \in Files
  <2>1. audit \in AuditType
    BY DEF LiveInv, Types, EndTypes
  <2>2. PICK f \in Remains(audit.file) : audit' = [audit EXCEPT !.file = f]
    BY DEF Crash
  <2>3. f \in Files
    BY <2>1, <2>2 DEF Remains, AuditType, Files
  <2>4. QED
    BY <2>1, <2>2, <2>3 DEF AuditType
<1>11. TypeOK'
  <2>1. TypeOK
    BY LiveTypeOK
  <2>2. /\ chain'.lines \in 1..MaxLines /\ chain'.bytes \in 0..MaxBytes
        /\ chain'.terminal \in BOOLEAN /\ chain'.policy \in {"execution", "require-true"}
    BY <1>7, NoIoTyped, BeginTyped, ChainAssumption DEF ChainType, Policies, Begin
  <2>3. /\ journal'.failed \in BOOLEAN /\ journal'.complete \in BOOLEAN
        /\ journal'.output_failed \in BOOLEAN /\ journal'.assessment \in {"null", "true", "false"}
    BY <1>7 DEF NewJournal
  <2>4. disk'.synced \in 0..Len(disk'.lines) /\ disk'.torn \in BOOLEAN
    BY <1>2, <1>3, <1>4, <1>6
  <2>5. /\ ops'.actions \in Seq(Nodes) /\ Len(ops'.actions) <= MaxDepth
        /\ ops'.next_attempt \in 0..MaxAttempts /\ Len(ops'.effects) <= 2
    BY <1>7, RunAssumption DEF NewOperations
  <2>6. faults' \in 0..MaxFaults
    BY <1>7, RunAssumption
  <2>7. QED
    BY <1>5, <1>6, <1>7, <1>9, <1>10, <2>1, <2>2, <2>3, <2>4, <2>5, <2>6 DEF TypeOK, Files
<1>12. EffectsAreJournalled'
  <2>1. ASSUME NEW p \in performed PROVE /\ disk'.name = "durable"
                                         /\ Recorded(disk'.lines, disk'.synced, "effect-before",
                                            p)
    <3>1. disk.name = "durable" /\ Recorded(disk.lines, disk.synced, "effect-before", p)
      BY LiveEffects
    <3>2. \A i \in 1..disk.synced : lines[i] = disk.lines[i]
      BY <1>2, <1>3, <1>4
    <3>3. QED
      BY <1>5, <1>6, <3>1, <3>2 DEF Recorded
  <2>2. QED
    BY <1>7, <2>1 DEF EffectsAreJournalled, Recorded
<1>13. ExitIsEvidenced'
  BY <1>7 DEF LiveInv, Types, EndTypes, ExitIsEvidenced, NoExit
<1>14. CASE Site \in Setup
  <2>1. performed = {} /\ receipt.file \in {"absent", "reserved"} /\ disk.name = "absent"
    BY <1>14, SetupParts
  <2>2. disk'.name = "absent" /\ receipt'.file \notin {"written", "durable"}
    BY <1>5, <1>6, <1>9, <2>1
  <2>3. QED
    BY <1>7, <1>11, <1>12, <1>13, <2>1, <2>2
       DEF EndedInv, CompleteAccountsForEffects, JournalIsAuditable, ReceiptAgreesWithAudit,
         Published
<1>15. CASE Site \notin Setup
  <2>1. /\ Verdict' = "complete"
           => \A p \in performed : Recorded(lines, Len(lines), "effect-after", p)
        /\ Steady => Verdict' # "refused"
        /\ chain.terminal /\ Steady => Verdict' = "complete"
        /\ (~chain.terminal /\ (Len(disk.lines) = disk.synced
           \/ Last(disk.lines).event.kind # "terminal"))
              => Verdict' = "incomplete"
    BY <1>1, <1>6, <1>15, PrefixVerdict DEF Verdict, lines
  <2>2. CompleteAccountsForEffects'
    BY <1>6, <1>7, <2>1 DEF CompleteAccountsForEffects, Recorded
  <2>3. Steady => JournalIsAuditable'
    BY <2>1 DEF JournalIsAuditable
  <2>4. Steady => ReceiptAgreesWithAudit'
    BY <1>9, <2>1, ReceiptParts DEF ReceiptAgreesWithAudit
  <2>5. QED
    BY <1>11, <1>12, <1>13, <2>2, <2>3, <2>4 DEF EndedInv
<1>16. QED
  BY <1>14, <1>15

-----------------------------------------------------------------------------
(* Exits.                                                                  *)

(* The exit codes of an error before the journal is durable.               *)
LEMMA ErrorExits == ErrorExit \in {1, 2, 130}
  BY DEF ErrorExit

(* An error before the journal is durable ends the command without         *)
(* evidence, and without effects.                                          *)
LEMMA SetupEnded ==
  ASSUME LiveInv, SetupStep, pc' = "exited"
  PROVE  EndedInv'
<1>1. /\ pc \in Setup \cup {"rename", "sync_parent"} /\ Site = pc
  BY DEF SetupStep, Refuse, Admitted, ReserveAudit, ReserveReceipt, WriteHeader, RenameJournal,
         SyncParent, Site, Setup
<1>2. /\ performed = {} /\ receipt.file \in {"absent", "reserved"}
  BY <1>1, SetupParts
<1>3. /\ receipt \in ReceiptType /\ audit \in AuditType /\ faults \in 0..MaxFaults
  BY DEF LiveInv, Types, WorldTypes, EndTypes
<1>4. /\ UNCHANGED <<request, requested, chain, journal, ops, performed, result>>
      /\ exit' = ErrorExit /\ (Fault \/ NoFault)
      /\ disk' = disk \/ disk' = [name |-> "absent", lines |-> <<>>, synced |-> 0, torn |-> FALSE]
  BY DEF SetupStep, Refuse, Admitted, ReserveAudit, ReserveReceipt, WriteHeader, RenameJournal,
         SyncParent, Exit, setupVars, NoFault
<1>5. receipt'.file \in {"absent", "reserved"} /\ audit'.file \in Files
  BY <1>2, <1>3 DEF SetupStep, Refuse, Admitted, ReserveAudit, ReserveReceipt, WriteHeader,
     RenameJournal,
         SyncParent, ReceiptType, AuditType, Files
<1>6. faults' \in 0..MaxFaults
  BY <1>3, <1>4, FaultCounted
<1>7. TypeOK'
  <2>1. TypeOK
    BY LiveTypeOK
  <2>2. exit' \in {0, 1, 2, 130, NoExit}
    BY <1>4, ErrorExits
  <2>3. /\ disk'.name \in {"absent", "temporary", "linked", "durable"}
        /\ disk'.synced \in 0..Len(disk'.lines) /\ disk'.torn \in BOOLEAN
    <3>1. CASE disk' = disk
      BY <2>1, <3>1 DEF TypeOK
    <3>2. CASE disk' = [name |-> "absent", lines |-> <<>>, synced |-> 0, torn |-> FALSE]
      <4>1. disk'.name = "absent" /\ disk'.synced = 0 /\ disk'.lines = <<>> /\ disk'.torn = FALSE
        BY <3>2
      <4>2. 0 \in 0..Len(<<>>)
        OBVIOUS
      <4>3. QED
        BY <4>1, <4>2
    <3>3. QED
      BY <1>4, <3>1, <3>2
  <2>4. QED
    BY <1>4, <1>5, <1>6, <2>1, <2>2, <2>3 DEF TypeOK, Files
<1>8. EffectsAreJournalled' /\ CompleteAccountsForEffects'
  BY <1>2, <1>4 DEF EffectsAreJournalled, CompleteAccountsForEffects
<1>9. ExitIsEvidenced'
  <2>1. exit' # 0 /\ receipt'.file # "durable"
    BY <1>4, <1>5, ErrorExits
  <2>2. QED
    BY <2>1 DEF ExitIsEvidenced
<1>10. ASSUME Steady PROVE JournalIsAuditable' /\ ReceiptAgreesWithAudit'
  <2>1. ReceiptAgreesWithAudit'
    BY <1>5 DEF ReceiptAgreesWithAudit
  <2>2. CASE disk' = disk
    BY <1>10, <2>1, <2>2, LiveVerdicts DEF JournalIsAuditable, Published, Verdict
  <2>3. CASE disk' = [name |-> "absent", lines |-> <<>>, synced |-> 0, torn |-> FALSE]
    BY <2>1, <2>3 DEF JournalIsAuditable, Published
  <2>4. QED
    BY <1>4, <2>2, <2>3
<1>11. QED
  BY <1>7, <1>8, <1>9, <1>10 DEF EndedInv

(* What a success leaves behind.                                           *)
LEMMA SuccessEvidence ==
  ASSUME LiveInv, pc \in Closed, result = "success"
  PROVE  /\ disk.name = "durable" /\ disk.synced = Len(disk.lines) /\ ~disk.torn
         /\ Last(disk.lines).event.kind = "terminal"
         /\ Last(disk.lines).event.primary = Outcome("success", "null")
         /\ \A i \in DOMAIN Last(disk.lines).event.cleanup :
                Last(disk.lines).event.cleanup[i] = "success"
         /\ Last(disk.lines).event.assessment = journal.assessment
<1>1. Site = pc /\ journal \in JournalType
  BY FinishParts
<1>2. disk.name = "durable"
  BY <1>1 DEF LiveInv, NameInv, Closed, Setup
<1>3. /\ journal.complete /\ ~journal.failed /\ journal.primary.class = "success"
      /\ ~CleanupFailed
      /\ \E at \in FinishTimes :
            Last(disk.lines).event = Terminal(journal.primary, journal.cleanup, journal.assessment,
              at)
  BY DEF LiveInv, EndInv
<1>4. PICK at \in FinishTimes :
            Last(disk.lines).event = Terminal(journal.primary, journal.cleanup, journal.assessment,
              at)
  BY <1>3
<1>5. disk.synced = Len(disk.lines) /\ ~disk.torn
  BY <1>3 DEF LiveInv, PendingInv, Closed
<1>6. /\ Last(disk.lines).event.kind = "terminal"
      /\ Last(disk.lines).event.primary = journal.primary
      /\ Last(disk.lines).event.cleanup = journal.cleanup
      /\ Last(disk.lines).event.assessment = journal.assessment
  BY <1>4 DEF Terminal
<1>7. journal.primary = Outcome("success", "null")
  <2>1. journal.primary \in Primary
    BY <1>1 DEF JournalType
  <2>2. QED
    BY <1>3, <2>1 DEF Primary, Outcome, NoOutcome
<1>8. ASSUME NEW i \in DOMAIN journal.cleanup PROVE journal.cleanup[i] = "success"
  <2>1. journal.cleanup \in Seq(CleanupOutcomes)
    BY <1>1 DEF JournalType
  <2>2. i \in 1..Len(journal.cleanup)
    BY <2>1
  <2>3. journal.cleanup[i] \in CleanupOutcomes
    BY <2>1, <2>2, ElementOfSeq
  <2>4. journal.cleanup[i] # "cleanup-failed"
    BY <1>3 DEF CleanupFailed
  <2>5. QED
    BY <2>3, <2>4 DEF CleanupOutcomes
<1>9. QED
  BY <1>2, <1>5, <1>6, <1>7, <1>8

(* selected_exit: 0 and 1 stand for a successful receipt and the           *)
(* assessment.                                                             *)
LEMMA SelectedExits ==
  ASSUME journal \in JournalType
  PROVE  /\ SelectedExit \in {0, 1, 2, 130}
         /\ SelectedExit = 0 => receipt.successful /\ journal.assessment = "true"
         /\ SelectedExit = 1 => receipt.successful /\ journal.assessment = "false"
<1>1. journal.assessment \in {"null", "true", "false"}
  BY DEF JournalType
<1> DEFINE cancelled == receipt.primary = Outcome("cancelled", "requested")
           failed == \/ ~receipt.successful \/ receipt.secondary
                     \/ receipt.primary.class # "success"
                     \/ receipt.state # "complete"
           value == CASE journal.assessment = "true" -> 0
                      [] journal.assessment = "false" -> 1
                      [] OTHER -> 2
<1>2. /\ value \in {0, 1, 2} /\ (value = 0 => journal.assessment = "true")
      /\ value = 1 => journal.assessment = "false"
  BY <1>1
<1>3. SelectedExit = CASE cancelled -> 130 [] ~cancelled /\ failed -> 2 [] OTHER -> value
  BY DEF SelectedExit
<1>4. ~failed => receipt.successful
  OBVIOUS
<1> HIDE DEF cancelled, failed, value
<1>5. QED
  BY <1>2, <1>3, <1>4

(* The command exits after the closure: only the exit code is new.         *)
LEMMA ExitEnded ==
  ASSUME LiveInv, pc \in Closed, pc' = "exited", faults' \in 0..MaxFaults,
         UNCHANGED <<request, requested, chain, io, ops, performed, todo, result, journal, disk,
         receipt, audit>>,
         exit' \in {0, 1, 2, 130},
         exit' = 0 \/ (exit' = 1 /\ request.require_true /\ receipt.file = "durable"
           /\ receipt.successful) =>
           /\ result = "success"
           /\ request.require_true => (exit' = 0 <=> journal.assessment = "true")
           /\ request.receipt => receipt.file = "durable" /\ receipt.state = "complete"
           /\ request.task => audit.file = "durable" /\ audit.verdict = "complete"
  PROVE  EndedInv'
<1>1. TypeOK'
  <2>1. TypeOK
    BY LiveTypeOK
  <2>2. QED
    BY <2>1 DEF TypeOK
<1>2. EffectsAreJournalled' /\ CompleteAccountsForEffects'
  BY LiveEffects, LiveVerdicts DEF EffectsAreJournalled, CompleteAccountsForEffects, Published,
     Verdict
<1>3. Steady => JournalIsAuditable' /\ ReceiptAgreesWithAudit'
  BY LiveVerdicts DEF JournalIsAuditable, ReceiptAgreesWithAudit, Published, Verdict
<1>4. ExitIsEvidenced'
  BY SuccessEvidence DEF ExitIsEvidenced
<1>5. QED
  BY <1>1, <1>2, <1>3, <1>4 DEF EndedInv

(* selected_exit, finish_task_run: an exit over durable evidence.          *)
LEMMA FinishEnded ==
  ASSUME LiveInv, FinishStep, pc' = "exited"
  PROVE  EndedInv'
<1>1. WithoutReceipt \/ Select \/ FinishTaskRun
  BY DEF FinishStep, WriteReceipt, SyncReceipt, ReceiptFailed, ReceiptEvidence, GenerateAudit,
     WriteAudit,
         SyncAudit, Call
<1>2. /\ pc \in {"closed", "select", "finish_task"} /\ pc \in Closed /\ (Fault \/ NoFault)
      /\ UNCHANGED <<request, requested, chain, io, ops, performed, todo, result, journal, disk,
         receipt, audit>>
  BY <1>1 DEF WithoutReceipt, Select, FinishTaskRun, finishVars, NoFault, Closed
<1>3. /\ receipt \in ReceiptType /\ audit \in AuditType /\ journal \in JournalType
      /\ faults \in 0..MaxFaults /\ Site = pc
      /\ request.receipt \in BOOLEAN /\ request.task \in BOOLEAN
      /\ request.require_true \in BOOLEAN
      /\ request.task => request.receipt
  BY <1>2, FinishParts
<1>4. request.require_true => request.receipt
  BY RunAssumption DEF LiveInv, Types, WorldTypes
<1>5. faults' \in 0..MaxFaults
  BY <1>2, <1>3, FaultCounted
<1>6. pc # "closed" /\ receipt.successful =>
        result = "success" /\ receipt.state = "complete" /\ receipt.file = "durable"
  BY <1>2, <1>3 DEF LiveInv, ReceiptInv, Closed
<1>7. CASE WithoutReceipt
  <2>1. ~request.receipt /\ exit' = IF result = "success" THEN 0 ELSE 1
    BY <1>7 DEF WithoutReceipt, Exit
  <2>2. QED
    BY <1>2, <1>3, <1>4, <1>5, <2>1, ExitEnded
<1>8. CASE Select
  <2>1. /\ pc = "select" /\ ~request.task
        /\ exit' = IF request.require_true THEN SelectedExit ELSE IF receipt.successful THEN 0 ELSE 1
    BY <1>8 DEF Select, Exit
  <2>2. /\ exit' \in {0, 1, 2, 130}
        /\ exit' = 0 => receipt.successful
        /\ request.require_true /\ exit' = 0 => journal.assessment = "true"
        /\ request.require_true /\ exit' = 1 => journal.assessment = "false"
    BY <1>3, <2>1, SelectedExits
  <2>3. QED
    BY <1>2, <1>3, <1>5, <1>6, <2>1, <2>2, ExitEnded
<1>9. CASE FinishTaskRun
  <2>1. PICK summarised \in BOOLEAN :
          exit' = CASE requested \/ receipt.primary = Outcome("cancelled", "requested") -> 130
                  [] ~requested /\ receipt.primary # Outcome("cancelled", "requested") ->
                     IF ~summarised \/ ~audit.persisted \/ audit.verdict # "complete" THEN 2
                     ELSE IF request.require_true THEN SelectedExit
                     ELSE IF receipt.successful THEN 0 ELSE 2
    BY <1>9 DEF FinishTaskRun, Exit
  <2>2. \/ exit' \in {2, 130}
        \/ /\ audit.persisted /\ audit.verdict = "complete"
           /\ exit' = IF request.require_true THEN SelectedExit ELSE IF receipt.successful THEN 0 ELSE 2
    <3>0. requested \in BOOLEAN
      BY DEF LiveInv, Types, WorldTypes
    <3>1. CASE requested \/ receipt.primary = Outcome("cancelled", "requested")
      BY <2>1, <3>0, <3>1
    <3>2. CASE ~requested /\ receipt.primary # Outcome("cancelled", "requested")
      BY <2>1, <3>0, <3>2
    <3>3. QED
      BY <3>1, <3>2
  <2>3. pc = "finish_task" /\ (audit.persisted => audit.file = "durable")
    BY <1>9 DEF FinishTaskRun, LiveInv, ReceiptInv
  <2>4. /\ exit' \in {0, 1, 2, 130}
        /\ exit' \in {0, 1} => receipt.successful /\ audit.file = "durable"
           /\ audit.verdict = "complete"
        /\ request.require_true /\ exit' = 0 => journal.assessment = "true"
        /\ request.require_true /\ exit' = 1 => journal.assessment = "false"
    BY <1>3, <2>2, <2>3, SelectedExits
  <2>5. QED
    BY <1>2, <1>3, <1>5, <1>6, <2>3, <2>4, ExitEnded
<1>10. QED
  BY <1>1, <1>7, <1>8, <1>9

(* Initially the invariant holds.                                          *)
LEMMA InitLive ==
  ASSUME Init
  PROVE  IInv
<1>1. /\ pc = "admission" /\ request \in Requests /\ requested = FALSE /\ faults = 0
      /\ chain = Begin("execution", 0) /\ journal = NewJournal
      /\ disk = [name |-> "absent", lines |-> <<>>, synced |-> 0, torn |-> FALSE]
      /\ io = NoIo /\ ops = NewOperations /\ performed = {} /\ todo = NoCleanup
      /\ result = "running"
      /\ receipt = NoReceipt
      /\ audit = [file |-> "absent", verdict |-> "none", persisted |-> FALSE]
      /\ exit = NoExit
  BY DEF Init
<1>2. Site = "admission" /\ Site \in Setup /\ ~Ended /\ Site \notin Evaluating
      /\ Site \notin Closed
      /\ Site \notin Sites /\ pc \in Places
  BY <1>1 DEF Site, Setup, Ended, Evaluating, Closed, Sites, Places
<1>3. chain \in ChainType /\ ~chain.terminal /\ chain.life = NewLifecycle
  <2>1. 0 \in 0..MaxBytes
    BY ChainAssumption
  <2>2. QED
    BY <1>1, <2>1, BeginTyped DEF Policies
<1>4. Types
  <2>1. WorldTypes
    <3>1. disk \in DiskType
      BY <1>1 DEF DiskType
    <3>2. 0 \in 0..MaxFaults
      BY RunAssumption
    <3>3. QED
      BY <1>1, <1>3, <3>1, <3>2 DEF WorldTypes
  <2>2. io \in IoType /\ journal \in JournalType /\ todo \in TodoType
    BY <1>1, NoIoTyped DEF NewJournal, JournalType, NoCleanup, TodoType, Primary
  <2>3. ops \in OpsType
    BY <1>1, RunAssumption DEF NewOperations, OpsType, Aborts, Attempts
  <2>4. ControlTypes
    BY <1>1, <1>2, <2>2, <2>3 DEF ControlTypes
  <2>5. EndTypes
    BY <1>1 DEF EndTypes, NoReceipt, ReceiptType, AuditType, Files, Primary
  <2>6. QED
    BY <2>1, <2>4, <2>5 DEF Types
<1>5. CallInv
  BY <1>2 DEF CallInv, Setup
<1>6. ops.effects = <<>> /\ ops.actions = <<>> /\ Len(ops.effects) = 0 /\ Len(ops.actions) = 0
  BY <1>1 DEF NewOperations
<1>7. OpsInv /\ OpenInv
  <2>1. OpsInv
    BY <1>2, <1>6, RunAssumption DEF OpsInv
  <2>2. OpenInv
    BY <1>1, <1>6 DEF OpenInv
  <2>3. QED
    BY <2>1, <2>2
<1>8. NameInv /\ PendingInv
  BY <1>1, <1>2 DEF NameInv, PendingInv, Setup
<1>9. AccountInv
  <2>1. DOMAIN chain.life.effects = {}
    BY <1>3, LifeTyped
  <2>2. QED
    BY <1>1, <2>1 DEF AccountInv, Accounted
<1>10. EndInv
  BY <1>1, <1>2, <1>3 DEF EndInv, NewJournal
<1>11. ReceiptInv
  BY <1>1, <1>2 DEF ReceiptInv, NoReceipt, Closed
<1>12. QED
  BY <1>2, <1>4, <1>5, <1>7, <1>8, <1>9, <1>10, <1>11 DEF IInv, LiveInv

-----------------------------------------------------------------------------
(* The theorems.                                                           *)

(* A stuttering step keeps the invariant.                                  *)
LEMMA LiveStutters ==
  ASSUME LiveInv, UNCHANGED vars
  PROVE  LiveInv'
<1>1. UNCHANGED <<pc, request, requested, faults, chain, journal, disk, io, ops, performed, todo,
      result, receipt, audit, exit>>
  BY DEF vars
<1>2. Site' = Site /\ Base' = Base /\ (CleanupFailed' <=> CleanupFailed)
  BY <1>1 DEF Site, Base, CleanupFailed
<1>3. Types'
  BY <1>1 DEF LiveInv, Types, WorldTypes, ControlTypes, EndTypes
<1>4. CallInv' /\ OpsInv' /\ NameInv'
  BY <1>1, <1>2 DEF LiveInv, CallInv, OpsInv, NameInv
<1>5. PendingInv' /\ (Site' \notin Setup => ChainInv')
  BY <1>1, <1>2 DEF LiveInv, PendingInv, ChainInv
<1>6. AccountInv' /\ OpenInv'
  BY <1>1, <1>2 DEF LiveInv, AccountInv, OpenInv, IsOpen
<1>7. EndInv' /\ ReceiptInv'
  BY <1>1, <1>2 DEF LiveInv, EndInv, ReceiptInv
<1>8. QED
  BY <1>3, <1>4, <1>5, <1>6, <1>7 DEF LiveInv

(* No action is enabled once the command has ended.                        *)
LEMMA EndedStutters ==
  ASSUME Ended, [Next]_vars
  PROVE  UNCHANGED vars
<1>1. ~AppendStep
  BY DEF Ended, AppendStep, AppendRefused, AppendWrite, AppendWriteFails, AppendSync,
     AppendSyncFails
<1>2. ~SetupStep
  BY DEF Ended, SetupStep, Refuse, Admitted, ReserveAudit, ReserveReceipt, WriteHeader,
     RenameJournal, SyncParent
<1>3. ~ProbeStep
  BY DEF Ended, ProbeStep, BindStreams, BindFails, ProbeStart, ProbeStarted, ProbeSucceeds,
     ProbeFails,
         ProbeIsStale, Probed, Prepare, PrepareFails
<1>4. ~TaskStep
  BY DEF Ended, TaskStep, InitializationFails, EnterAction, Entered, StartEffect, RefuseEffect,
     Started,
         EffectSucceeds, EffectFails, Finished, Throw, Catch, LeaveAction, Left
<1>5. ~CleanupStep
  BY DEF Ended, CleanupStep, Evaluated, AppendCleanup, Cleaned, CleanupDone, AppendTerminal,
     ClockFails,
         Terminated
<1>6. ~FinishStep
  BY DEF Ended, FinishStep, WithoutReceipt, WriteReceipt, SyncReceipt, ReceiptFailed,
     ReceiptEvidence,
         Select, GenerateAudit, WriteAudit, SyncAudit, FinishTaskRun
<1>7. ~RequestCancel /\ ~Crash
  BY DEF RequestCancel, Crash
<1>8. QED
  BY <1>1, <1>2, <1>3, <1>4, <1>5, <1>6, <1>7 DEF Next, Done

(* What holds at the end stays.                                            *)
LEMMA EndedStays ==
  ASSUME EndedInv, Ended, UNCHANGED vars
  PROVE  EndedInv' /\ Ended'
<1>1. UNCHANGED <<pc, request, requested, faults, chain, journal, disk, io, ops, performed, todo,
      result, receipt, audit, exit>>
  BY DEF vars
<1>2. TypeOK' /\ EffectsAreJournalled'
  BY <1>1 DEF EndedInv, TypeOK, EffectsAreJournalled
<1>3. Verdict' = Verdict /\ (Published' <=> Published)
  BY <1>1 DEF Verdict, Published
<1>4. CompleteAccountsForEffects' /\ (Steady => JournalIsAuditable' /\ ReceiptAgreesWithAudit')
  BY <1>1, <1>3 DEF EndedInv, CompleteAccountsForEffects, JournalIsAuditable,
     ReceiptAgreesWithAudit
<1>5. ExitIsEvidenced'
  BY <1>1 DEF EndedInv, ExitIsEvidenced
<1>6. QED
  BY <1>1, <1>2, <1>4, <1>5 DEF EndedInv, Ended

(* Every step keeps the invariant.                                         *)
LEMMA StepInv ==
  ASSUME IInv, [Next]_vars
  PROVE  IInv'
<1>1. CASE Ended
  <2>1. EndedInv /\ UNCHANGED vars
    BY <1>1, EndedStutters DEF IInv
  <2>2. QED
    BY <1>1, <2>1, EndedStays DEF IInv
<1>2. CASE ~Ended
  <2>1. LiveInv
    BY <1>2 DEF IInv
  <2>2. LiveInv' => IInv'
    <3>1. LiveInv' => ~Ended'
      BY DEF LiveInv, Types, ControlTypes, Ended, Places, Setup, Evaluating, Closed, Sites
    <3>2. QED
      BY <3>1 DEF IInv
  <2>3. CASE AppendStep
    BY <2>1, <2>2, <2>3, AppendLive
  <2>4. CASE SetupStep
    <3>1. CASE pc' = "exited"
      BY <2>1, <2>4, <3>1, SetupEnded DEF IInv, Ended
    <3>2. CASE pc' # "exited"
      BY <2>1, <2>2, <2>4, <3>2, SetupLive
    <3>3. QED
      BY <3>1, <3>2
  <2>5. CASE ProbeStep
    BY <2>1, <2>2, <2>5, ProbeLive
  <2>6. CASE TaskStep
    BY <2>1, <2>2, <2>6, TaskLive
  <2>7. CASE CleanupStep
    BY <2>1, <2>2, <2>7, CleanupLive
  <2>8. CASE FinishStep
    <3>1. CASE pc' = "exited"
      BY <2>1, <2>8, <3>1, FinishEnded DEF IInv, Ended
    <3>2. CASE pc' # "exited"
      BY <2>1, <2>2, <2>8, <3>2, FinishLive
    <3>3. QED
      BY <3>1, <3>2
  <2>9. CASE RequestCancel
    BY <2>1, <2>2, <2>9, CancelLive
  <2>10. CASE Crash
    <3>1. EndedInv' /\ pc' = "crashed"
      BY <2>1, <2>10, CrashEnded DEF Crash
    <3>2. QED
      BY <3>1 DEF IInv, Ended
  <2>11. CASE Done
    BY <1>2, <2>11 DEF Done
  <2>12. CASE UNCHANGED vars
    BY <2>1, <2>2, <2>12, LiveStutters
  <2>13. QED
    BY <2>3, <2>4, <2>5, <2>6, <2>7, <2>8, <2>9, <2>10, <2>11, <2>12 DEF Next
<1>3. QED
  BY <1>1, <1>2

(* The invariant holds in every state, for any requests, nodes, clock,     *)
(* limits, number of probes, resources and failures.                       *)
THEOREM Invariance == Spec => []IInv
  BY InitLive, StepInv, PTL DEF Spec

(* The invariant implies the properties.                                   *)
LEMMA InvProperties ==
  ASSUME IInv
  PROVE  /\ TypeOK /\ EffectsAreJournalled /\ CompleteAccountsForEffects /\ ExitIsEvidenced
         /\ Steady => JournalIsAuditable /\ ReceiptAgreesWithAudit
<1>1. CASE Ended
  BY <1>1 DEF IInv, EndedInv
<1>2. CASE ~Ended
  BY <1>2, LiveTypeOK, LiveEffects, LiveVerdicts, LiveEvidence DEF IInv
<1>3. QED
  BY <1>1, <1>2

(* TypeOK: every variable keeps its type; the chain stays within MaxLines  *)
(* and MaxBytes.                                                           *)
THEOREM TypeCorrect == Spec => []TypeOK
  BY Invariance, InvProperties, PTL

(* EffectsAreJournalled: no effect reaches the host before its effect-     *)
(* before line is durable under a durable name, whatever fails or crashes  *)
(* at whatever point (SyncedJournal::append).                              *)
THEOREM Journalled == Spec => []EffectsAreJournalled
  BY Invariance, InvProperties, PTL

(* CompleteAccountsForEffects: a published journal that audits as complete *)
(* records the end of every effect that reached the host, also when the    *)
(* process crashed with the terminal line in the file and not synced       *)
(* (JournalLifecycle).                                                     *)
THEOREM Accounts == Spec => []CompleteAccountsForEffects
  BY Invariance, InvProperties, PTL

(* ExitIsEvidenced: exit 0, and a selected exit 1, is given only over a    *)
(* durable terminal line that reports the success and the assessment, and  *)
(* over the durable receipt and audit that were asked for (selected_exit,  *)
(* finish_task_run).                                                       *)
THEOREM Evidenced == Spec => []ExitIsEvidenced
  BY Invariance, InvProperties, PTL

(* JournalIsAuditable: with a clock that does not step back over the start *)
(* of the run, a published journal is never refused by audit_journal: in   *)
(* the middle of an append, after a failed or torn write, after a crash.   *)
THEOREM Auditable ==
  ASSUME Steady
  PROVE  Spec => []JournalIsAuditable
<1>1. IInv => JournalIsAuditable
  BY InvProperties
<1>2. QED
  BY <1>1, Invariance, PTL

(* ReceiptAgreesWithAudit: with such a clock, a receipt on disk that       *)
(* claims a complete or an incomplete journal agrees with the audit of it  *)
(* (finish_receipt).                                                       *)
THEOREM ReceiptAgrees ==
  ASSUME Steady
  PROVE  Spec => []ReceiptAgreesWithAudit
<1>1. IInv => ReceiptAgreesWithAudit
  BY InvProperties
<1>2. QED
  BY <1>1, Invariance, PTL

-----------------------------------------------------------------------------
(* The order of what is on record.                                         *)

(* The open effects of the chain stay those of the log over one more line: *)
(* a new attempt bears a new number, an ended one is not open again.       *)
LEMMA OrderStep ==
  ASSUME NEW life \in LifeType, NEW e \in EventType, Admits(life, e), NEW d, NEW n \in Nat,
         NEW done,
         d[n + 1].event = e, Accounted(life, d, n, done), Ordered(life, d, n)
  PROVE  Ordered(Admit(life, e), d, n + 1)
<1> DEFINE new == Admit(life, e).effects
           old == life.effects
           len == Len(old)
           next == Admit(life, e).next_attempt
           ev(i) == d[i].event
<1>1. /\ Admit(life, e).terminal <=> e.kind = "terminal"
      /\ e.kind \notin {"effect-before", "effect-after"} =>
            new = old /\ next = life.next_attempt
      /\ e.kind = "effect-before" =>
            /\ new = Append(old, OpenEffect(e))
            /\ next = life.next_attempt + 1 /\ e.attempt = life.next_attempt
      /\ e.kind = "effect-after" =>
            /\ old # <<>> /\ Last(old) = OpenEffect(e)
            /\ new = Front(old) /\ next = life.next_attempt
  BY AdmitTyped
<1>2. /\ old \in Seq([node : Nodes, effect : Effects, attempt : Attempts])
      /\ life.next_attempt \in Nat
  BY DEF LifeType
<1>3. DOMAIN old = 1..len /\ len \in Nat
  BY <1>2
<1>4. OpenEffect(e).effect = e.effect /\ OpenEffect(e).attempt = e.attempt
  BY DEF OpenEffect
<1>5. /\ \A i \in 1..len : old[i].attempt < life.next_attempt
      /\ \A i, k \in 1..len : i < k => old[i].attempt < old[k].attempt
  BY <1>3 DEF Accounted
<1>6. \A i \in 1..len : old[i].attempt \in Nat
  <2>1. Attempts \subseteq Nat
    BY RunAssumption DEF Attempts
  <2>2. ASSUME NEW i \in 1..len PROVE old[i].attempt \in Nat
    <3>1. old[i] \in [node : Nodes, effect : Effects, attempt : Attempts]
      BY <1>2, ElementOfSeq
    <3>2. QED
      BY <2>1, <3>1
  <2>3. QED
    BY <2>2
<1>7. \A i \in 1..n :
        /\ ev(i).kind = "effect-before" =>
             /\ ev(i).attempt \in 0..(life.next_attempt - 1)
             /\ OpenIn(life, ev(i)) \/ Recorded(d, n, "effect-after", ev(i))
        /\ ev(i).kind = "effect-after" =>
             /\ ev(i).attempt \in 0..(life.next_attempt - 1)
             /\ \A k \in DOMAIN old : old[k].attempt # ev(i).attempt
        /\ ev(i).kind = "terminal" => life.terminal
  BY DEF Ordered
<1>8. ~life.terminal
  BY DEF Admits
<1>9. \A k, p : Recorded(d, n, k, p) => Recorded(d, n + 1, k, p)
  BY DEF Recorded
<1>10. ASSUME NEW p, p.effect = e.effect, p.attempt = e.attempt
       PROVE  Recorded(d, n + 1, e.kind, p)
  <2>1. n + 1 \in 1..(n + 1)
    OBVIOUS
  <2>2. QED
    BY <1>10, <2>1 DEF Recorded
<1>11. \A p : /\ OpenIn(life, p) <=> \E k \in 1..len : old[k].effect = p.effect
                                                       /\ old[k].attempt = p.attempt
              /\ OpenIn(Admit(life, e), p) <=> \E k \in DOMAIN new : new[k].effect = p.effect
                                                       /\ new[k].attempt = p.attempt
  BY <1>3 DEF OpenIn
<1>12. ev(n + 1) = e
  OBVIOUS
<1> HIDE DEF new, old, len, next, ev
<1>13. SUFFICES ASSUME NEW i \in 1..(n + 1)
       PROVE  /\ ev(i).kind = "effect-before" =>
                   /\ ev(i).attempt \in 0..(next - 1)
                   /\ OpenIn(Admit(life, e), ev(i)) \/ Recorded(d, n + 1, "effect-after", ev(i))
              /\ ev(i).kind = "effect-after" =>
                   /\ ev(i).attempt \in 0..(next - 1)
                   /\ \A k \in DOMAIN new : new[k].attempt # ev(i).attempt
              /\ ev(i).kind = "terminal" => e.kind = "terminal"
  BY <1>1 DEF Ordered, new, next, ev
<1>14. i \in 1..n \/ i = n + 1
  OBVIOUS
<1>15. ev(i).kind = "terminal" => e.kind = "terminal"
  BY <1>7, <1>8, <1>12, <1>14
<1>16. CASE e.kind \notin {"effect-before", "effect-after"}
  <2>1. new = old /\ next = life.next_attempt
    BY <1>1, <1>16
  <2>2. \A p : OpenIn(life, p) => OpenIn(Admit(life, e), p)
    BY <1>3, <1>11, <2>1
  <2>3. CASE i = n + 1
    BY <1>12, <1>16, <2>3
  <2>4. CASE i \in 1..n
    BY <1>7, <1>9, <1>15, <2>1, <2>2, <2>4
  <2>5. QED
    BY <1>14, <2>3, <2>4
<1>17. CASE e.kind = "effect-before"
  <2>1. /\ new = Append(old, OpenEffect(e)) /\ next = life.next_attempt + 1
        /\ e.attempt = life.next_attempt
    BY <1>1, <1>17
  <2>2. OpenEffect(e) \in [node : Nodes, effect : Effects, attempt : Attempts]
    BY <1>17, EventShape DEF OpenEffect
  <2>3. /\ DOMAIN new = 1..(len + 1) /\ new[len + 1] = OpenEffect(e)
        /\ \A k \in 1..len : new[k] = old[k]
    BY <1>2, <1>3, <2>1, <2>2 DEF len
  <2>4. \A p : OpenIn(life, p) => OpenIn(Admit(life, e), p)
    BY <1>3, <1>11, <2>3
  <2>5. CASE i = n + 1
    <3>1. ev(i) = e /\ len + 1 \in DOMAIN new
      BY <1>3, <1>12, <2>3, <2>5
    <3>2. OpenIn(Admit(life, e), e)
      BY <1>4, <1>11, <2>3, <3>1
    <3>3. e.attempt \in 0..(next - 1)
      BY <1>2, <2>1
    <3>4. QED
      BY <1>15, <1>17, <3>1, <3>2, <3>3
  <2>6. CASE i \in 1..n
    <3>1. \A a : a \in 0..(life.next_attempt - 1) => a \in 0..(next - 1) /\ a # e.attempt
      BY <1>2, <2>1
    <3>2. ev(i).kind = "effect-before" =>
            /\ ev(i).attempt \in 0..(next - 1)
            /\ OpenIn(Admit(life, e), ev(i)) \/ Recorded(d, n + 1, "effect-after", ev(i))
      BY <1>7, <1>9, <2>4, <2>6, <3>1
    <3>3. ASSUME ev(i).kind = "effect-after", NEW k \in DOMAIN new
          PROVE  new[k].attempt # ev(i).attempt
      <4>1. CASE k \in 1..len
        BY <1>3, <1>7, <2>3, <2>6, <3>3, <4>1
      <4>2. CASE k = len + 1
        BY <1>4, <1>7, <2>3, <2>6, <3>1, <3>3, <4>2
      <4>3. QED
        BY <1>3, <2>3, <4>1, <4>2
    <3>4. ev(i).kind = "effect-after" => ev(i).attempt \in 0..(next - 1)
      BY <1>7, <2>6, <3>1
    <3>5. QED
      BY <1>15, <3>2, <3>3, <3>4
  <2>7. QED
    BY <1>14, <2>5, <2>6
<1>18. CASE e.kind = "effect-after"
  <2>1. /\ new = Front(old) /\ next = life.next_attempt
        /\ old # <<>> /\ Last(old) = OpenEffect(e)
    BY <1>1, <1>18
  <2>2. /\ len \in Nat \ {0} /\ Len(new) = len - 1
        /\ new \in Seq([node : Nodes, effect : Effects, attempt : Attempts])
        /\ \A k \in 1..(len - 1) : new[k] = old[k]
        /\ old[len] = OpenEffect(e)
    BY <1>2, <2>1, FrontTyped DEF len
  <2>3. DOMAIN new = 1..(len - 1)
    BY <2>2
  <2>4. /\ old[len].attempt = e.attempt /\ old[len].effect = e.effect
        /\ len \in 1..len
    BY <1>4, <2>2
  <2>5. CASE i = n + 1
    <3>1. ev(i) = e
      BY <1>12, <2>5
    <3>2. ASSUME NEW k \in DOMAIN new PROVE new[k].attempt # e.attempt
      <4>1. k \in 1..len /\ k < len /\ new[k] = old[k]
        BY <2>2, <2>3
      <4>2. old[k].attempt < old[len].attempt
        BY <1>5, <2>4, <4>1
      <4>3. old[k].attempt \in Nat /\ old[len].attempt \in Nat
        BY <1>6, <2>4, <4>1
      <4>4. QED
        BY <2>4, <4>1, <4>2, <4>3
    <3>3. e.attempt \in 0..(next - 1)
      <4>1. old[len].attempt < life.next_attempt /\ old[len].attempt \in Nat
        BY <1>5, <1>6, <2>4
      <4>2. QED
        BY <1>2, <2>1, <2>4, <4>1
    <3>4. QED
      BY <1>18, <3>1, <3>2, <3>3
  <2>6. CASE i \in 1..n
    <3>1. ASSUME ev(i).kind = "effect-before", OpenIn(life, ev(i))
          PROVE  OpenIn(Admit(life, e), ev(i)) \/ Recorded(d, n + 1, "effect-after", ev(i))
      <4>1. PICK k \in 1..len : old[k].effect = ev(i).effect /\ old[k].attempt = ev(i).attempt
        BY <1>11, <3>1
      <4>2. CASE k = len
        <5>1. ev(i).effect = e.effect /\ ev(i).attempt = e.attempt
          BY <2>4, <4>1, <4>2
        <5>2. QED
          BY <1>10, <1>18, <5>1
      <4>3. CASE k # len
        <5>1. k \in 1..(len - 1)
          BY <2>2, <4>3
        <5>2. k \in DOMAIN new /\ new[k] = old[k]
          BY <2>2, <2>3, <5>1
        <5>3. QED
          BY <1>11, <4>1, <5>2
      <4>4. QED
        BY <4>2, <4>3
    <3>2. ev(i).kind = "effect-before" =>
            /\ ev(i).attempt \in 0..(next - 1)
            /\ OpenIn(Admit(life, e), ev(i)) \/ Recorded(d, n + 1, "effect-after", ev(i))
      BY <1>7, <1>9, <2>1, <2>6, <3>1
    <3>3. ASSUME ev(i).kind = "effect-after", NEW k \in DOMAIN new
          PROVE  new[k].attempt # ev(i).attempt
      <4>1. k \in 1..len /\ new[k] = old[k]
        BY <2>2, <2>3
      <4>2. QED
        BY <1>3, <1>7, <2>6, <3>3, <4>1
    <3>4. ev(i).kind = "effect-after" => ev(i).attempt \in 0..(next - 1)
      BY <1>7, <2>1, <2>6
    <3>5. QED
      BY <1>15, <3>2, <3>3, <3>4
  <2>7. QED
    BY <1>14, <2>5, <2>6
<1>19. QED
  BY <1>16, <1>17, <1>18

(* A step that leaves the chain and the durable lines alone.               *)
Leaves ==
  /\ chain' = chain /\ disk'.synced = disk.synced
  /\ \A i \in 1..disk.synced : disk'.lines[i] = disk.lines[i]

(* Such a step keeps the order of the effects on record.                   *)
LEMMA LeavesOrder ==
  ASSUME Ordered(chain.life, disk.lines, disk.synced), Leaves
  PROVE  Ordered(chain.life, disk.lines, disk.synced)'
<1>1. \A k, p : Recorded(disk.lines, disk.synced, k, p) => Recorded(disk'.lines, disk.synced, k, p)
  BY DEF Leaves, Recorded
<1>2. QED
  BY <1>1 DEF Leaves, Ordered

(* AppendSync: the chain admits the line that becomes durable, and         *)
(* advances over it.                                                       *)
LEMMA SyncFacts ==
  ASSUME LiveInv, AppendSync
  PROVE  /\ io.event \in EventType /\ chain.life \in LifeType /\ disk.synced \in Nat
         /\ Admits(chain.life, io.event) /\ chain'.life = Admit(chain.life, io.event)
         /\ disk.lines \in Seq(LineType) /\ Len(disk.lines) = disk.synced + 1
         /\ disk.lines[disk.synced + 1].event = io.event
         /\ disk'.name = disk.name /\ disk'.lines = disk.lines /\ disk'.synced = disk.synced + 1
         /\ Site \notin Setup /\ disk.name = "durable"
         /\ performed' = performed /\ exit' = exit
<1>1. /\ pc = "sync" /\ disk' = [disk EXCEPT !.synced = Len(disk.lines)] /\ chain' = io.chain
      /\ performed' = performed /\ exit' = exit
  BY DEF AppendSync, Return, evalVars
<1>2. /\ disk \in DiskType /\ io \in IoType /\ chain \in ChainType /\ io.site \in Sites
      /\ disk.lines \in Seq(LineType) /\ io.event \in EventType /\ disk.synced \in Nat
  BY <1>1 DEF LiveInv, Types, WorldTypes, ControlTypes, DiskType, IoType
<1>3. Site = io.site
  BY <1>1 DEF Site
<1>4. Site \notin Setup \cup {"rename", "sync_parent"}
  BY <1>2, <1>3 DEF Sites, Setup
<1>5. disk.name = "durable"
  BY <1>4 DEF LiveInv, NameInv
<1>6. /\ Len(disk.lines) = disk.synced + 1
      /\ CanAppend(chain, io.event, Last(disk.lines).size)
      /\ Last(disk.lines).event = io.event
      /\ chain' = Appended(chain, io.event, Last(disk.lines).size)
  BY <1>1, <1>2 DEF LiveInv, PendingInv
<1>7. Last(disk.lines) = disk.lines[disk.synced + 1] /\ Last(disk.lines) \in LineType
  <2>1. Len(disk.lines) \in 1..Len(disk.lines)
    BY <1>2, <1>6
  <2>2. QED
    BY <1>2, <1>6, <2>1, ElementOfSeq DEF Last
<1>8. Last(disk.lines).size \in Nat
  BY <1>7 DEF LineType
<1>9. Admits(chain.life, io.event) /\ chain'.life = Admit(chain.life, io.event)
  BY <1>2, <1>6, <1>8, AppendedTyped
<1>10. chain.life \in LifeType
  BY <1>2 DEF ChainType
<1>11. disk'.name = disk.name /\ disk'.lines = disk.lines /\ disk'.synced = disk.synced + 1
  BY <1>1, <1>2, <1>6 DEF DiskType
<1>12. QED
  BY <1>1, <1>2, <1>4, <1>5, <1>6, <1>7, <1>9, <1>10, <1>11

(* What each step outside the appends and the setup leaves alone.          *)
LEMMA WorkLeaves ==
  ASSUME ProbeStep \/ TaskStep \/ CleanupStep \/ FinishStep \/ RequestCancel
  PROVE  chain' = chain /\ disk' = disk
<1>1. ASSUME ProbeStep PROVE chain' = chain /\ disk' = disk
  BY <1>1 DEF ProbeStep, BindStreams, BindFails, ProbeStart, ProbeStarted, ProbeSucceeds,
     ProbeFails, ProbeIsStale, Probed, Prepare, PrepareFails, hostVars
<1>2. ASSUME TaskStep PROVE chain' = chain /\ disk' = disk
  BY <1>2 DEF TaskStep, InitializationFails, EnterAction, Entered, StartEffect, RefuseEffect,
     Started, EffectSucceeds, EffectFails, Finished, Throw, Catch, LeaveAction, Left,
     taskVars, hostVars
<1>3. ASSUME CleanupStep PROVE chain' = chain /\ disk' = disk
  BY <1>3 DEF CleanupStep, Evaluated, AppendCleanup, Cleaned, CleanupDone, AppendTerminal,
     ClockFails, Terminated, hostVars
<1>4. ASSUME FinishStep PROVE chain' = chain /\ disk' = disk
  BY <1>4 DEF FinishStep, WithoutReceipt, WriteReceipt, SyncReceipt, ReceiptFailed,
     ReceiptEvidence, Select, GenerateAudit, WriteAudit, SyncAudit, FinishTaskRun, finishVars
<1>5. ASSUME RequestCancel PROVE chain' = chain /\ disk' = disk
  BY <1>5 DEF RequestCancel
<1>6. QED
  BY <1>1, <1>2, <1>3, <1>4, <1>5

(* The appends: only AppendSync makes a line durable.                      *)
LEMMA AppendLeaves ==
  ASSUME LiveInv, AppendStep, ~AppendSync
  PROVE  Leaves /\ disk'.name = disk.name /\ performed' = performed /\ exit' = exit
<1>1. /\ disk \in DiskType /\ disk.lines \in Seq(LineType) /\ disk.synced \in 0..Len(disk.lines)
      /\ Len(disk.lines) \in Nat /\ chain \in ChainType /\ io \in IoType
  BY Within DEF LiveInv, Types, WorldTypes, ControlTypes, DiskType, SyncedWithin
<1>2. CASE AppendRefused
  BY <1>2 DEF AppendRefused, Leaves, evalVars
<1>3. CASE AppendWrite
  <2>1. PICK size \in Sizes :
          disk' = [disk EXCEPT !.lines = Append(@, LineOf(chain, io.event, size))]
    BY <1>3 DEF AppendWrite
  <2>2. size \in Nat /\ io.event \in EventType
    BY <1>1, RunAssumption DEF IoType
  <2>3. LineOf(chain, io.event, size) \in LineType
    BY <1>1, <2>2 DEF LineOf, LineType, ChainType
  <2>4. /\ disk'.lines = Append(disk.lines, LineOf(chain, io.event, size))
        /\ disk'.synced = disk.synced /\ disk'.name = disk.name
    BY <1>1, <2>1 DEF DiskType
  <2>5. \A i \in 1..Len(disk.lines) : disk'.lines[i] = disk.lines[i]
    BY <1>1, <2>3, <2>4, Prefixed
  <2>6. \A i \in 1..disk.synced : disk'.lines[i] = disk.lines[i]
    BY <1>1, <2>5
  <2>7. chain' = chain /\ performed' = performed /\ exit' = exit
    BY <1>3 DEF AppendWrite, evalVars
  <2>8. QED
    BY <2>4, <2>6, <2>7 DEF Leaves
<1>4. CASE AppendWriteFails
  <2>1. PICK torn \in BOOLEAN : disk' = [disk EXCEPT !.torn = torn]
    BY <1>4 DEF AppendWriteFails
  <2>2. disk'.lines = disk.lines /\ disk'.synced = disk.synced /\ disk'.name = disk.name
    BY <1>1, <2>1 DEF DiskType
  <2>3. chain' = chain /\ performed' = performed /\ exit' = exit
    BY <1>4 DEF AppendWriteFails, evalVars
  <2>4. QED
    BY <2>2, <2>3 DEF Leaves
<1>5. CASE AppendSyncFails
  BY <1>5 DEF AppendSyncFails, Leaves, evalVars
<1>6. QED
  BY <1>2, <1>3, <1>4, <1>5 DEF AppendStep

(* Crash leaves the durable lines alone, and the name only when it is      *)
(* durable; effects and exit are as they were.                             *)
LEMMA CrashLeaves ==
  ASSUME LiveInv, Crash
  PROVE  /\ disk'.synced = disk.synced
         /\ \A i \in 1..disk.synced : disk'.lines[i] = disk.lines[i]
         /\ disk'.name = "durable" <=> disk.name = "durable"
         /\ disk'.name \in {"temporary", "linked"} => disk.name = "linked"
         /\ performed' = performed /\ exit' = exit
<1>1. PICK name \in CASE disk.name = "temporary" -> {"absent"}
                     [] disk.name = "linked" -> {"absent", "linked"}
                     [] OTHER -> {disk.name},
           kept \in disk.synced..Len(disk.lines),
           torn \in BOOLEAN :
         disk' = [disk EXCEPT !.name = name, !.torn = torn, !.lines = SubSeq(@, 1, kept)]
  BY DEF Crash
<1>2. disk \in DiskType /\ disk.lines \in Seq(LineType) /\ disk.synced \in 0..Len(disk.lines)
      /\ Len(disk.lines) \in Nat /\ disk.synced \in Nat
  BY Within DEF LiveInv, Types, WorldTypes, SyncedWithin, DiskType
<1>3. /\ kept \in 0..Len(disk.lines) /\ disk.synced <= kept
  BY <1>2
<1>4. \A i \in 1..kept : SubSeq(disk.lines, 1, kept)[i] = disk.lines[i]
  BY <1>2, <1>3, BaseIs
<1>5. /\ name = "durable" <=> disk.name = "durable"
      /\ name \in {"temporary", "linked"} => disk.name = "linked"
  BY <1>1, <1>2 DEF DiskType
<1>6. /\ disk'.name = name /\ disk'.lines = SubSeq(disk.lines, 1, kept)
      /\ disk'.synced = disk.synced
  BY <1>1, <1>2 DEF DiskType
<1>7. \A i \in 1..disk.synced : disk'.lines[i] = disk.lines[i]
  BY <1>2, <1>3, <1>4, <1>6
<1>8. performed' = performed /\ exit' = exit
  BY DEF Crash
<1>9. QED
  BY <1>5, <1>6, <1>7, <1>8

(* Every step keeps the order of the effects on record.                    *)
LEMMA OrderedKept ==
  ASSUME IInv, OrderInv, [Next]_vars
  PROVE  ~Ended' => Ordered(chain.life, disk.lines, disk.synced)'
<1> SUFFICES ASSUME ~Ended'
             PROVE  Ordered(chain.life, disk.lines, disk.synced)'
  OBVIOUS
<1>1. ~Ended
  <2>1. Ended /\ UNCHANGED vars => Ended'
    BY DEF Ended, vars
  <2>2. QED
    BY <2>1, EndedStutters
<1>2. LiveInv /\ Ordered(chain.life, disk.lines, disk.synced)
  BY <1>1 DEF IInv, OrderInv
<1>3. ASSUME Leaves PROVE Ordered(chain.life, disk.lines, disk.synced)'
  BY <1>2, <1>3, LeavesOrder
<1>4. ASSUME chain' = chain, disk' = disk PROVE Ordered(chain.life, disk.lines, disk.synced)'
  BY <1>3, <1>4 DEF Leaves
<1>5. CASE AppendStep
  <2>1. CASE ~AppendSync
    BY <1>2, <1>3, <1>5, <2>1, AppendLeaves
  <2>2. CASE AppendSync
    <3>1. Accounted(chain.life, disk.lines, disk.synced, performed)
      BY <1>2 DEF LiveInv, AccountInv
    <3>2. Ordered(Admit(chain.life, io.event), disk.lines, disk.synced + 1)
      BY <1>2, <2>2, <3>1, SyncFacts, OrderStep
    <3>3. QED
      BY <1>2, <2>2, <3>2, SyncFacts
  <2>3. QED
    BY <2>1, <2>2
<1>6. CASE SetupStep
  <2>1. CASE WriteHeader
    <3>1. PICK size \in Sizes :
            /\ disk'.synced = 1
            /\ disk'.lines = <<LineOf([lines |-> 0], Header(StartTime, Policy), size)>>
      BY <2>1 DEF WriteHeader, Exit, Ended
    <3>2. disk'.lines[1].event.kind = "header"
      BY <3>1 DEF LineOf, Header
    <3>3. QED
      BY <3>1, <3>2 DEF Ordered
  <2>2. CASE RenameJournal
    <3>1. disk' = [disk EXCEPT !.name = "linked"] /\ chain' = chain
      BY <2>2 DEF RenameJournal, Exit, Ended, setupVars
    <3>2. disk \in DiskType
      BY <1>2 DEF LiveInv, Types, WorldTypes
    <3>3. disk'.lines = disk.lines /\ disk'.synced = disk.synced
      BY <3>1, <3>2 DEF DiskType
    <3>4. QED
      BY <1>3, <3>1, <3>3 DEF Leaves
  <2>3. CASE SyncParent
    <3>1. disk' = [disk EXCEPT !.name = "durable"] /\ chain' = chain
      BY <2>3 DEF SyncParent, Exit, Ended, setupVars
    <3>2. disk \in DiskType
      BY <1>2 DEF LiveInv, Types, WorldTypes
    <3>3. disk'.lines = disk.lines /\ disk'.synced = disk.synced
      BY <3>1, <3>2 DEF DiskType
    <3>4. QED
      BY <1>3, <3>1, <3>3 DEF Leaves
  <2>4. CASE Refuse \/ Admitted \/ ReserveAudit \/ ReserveReceipt
    BY <1>4, <2>4 DEF Refuse, Admitted, ReserveAudit, ReserveReceipt, setupVars
  <2>5. QED
    BY <1>6, <2>1, <2>2, <2>3, <2>4 DEF SetupStep
<1>7. CASE ProbeStep \/ TaskStep \/ CleanupStep \/ FinishStep \/ RequestCancel
  BY <1>4, <1>7, WorkLeaves
<1>8. CASE Crash \/ Done
  BY <1>1, <1>8 DEF Crash, Done, Ended
<1>9. CASE UNCHANGED vars
  BY <1>4, <1>9 DEF vars
<1>10. QED
  BY <1>5, <1>6, <1>7, <1>8, <1>9 DEF Next

(* Until it is published, the journal is its header.                       *)
LEMMA HeaderKept ==
  ASSUME IInv, OrderInv, [Next]_vars
  PROVE  disk'.name \in {"temporary", "linked"} => disk'.synced = 1
<1>0. ASSUME disk' = disk PROVE disk'.name \in {"temporary", "linked"} => disk'.synced = 1
  BY <1>0 DEF OrderInv
<1>1. CASE Ended \/ UNCHANGED vars
  BY <1>0, <1>1, EndedStutters DEF vars
<1>2. CASE ~Ended /\ Next
  <2>1. LiveInv /\ disk \in DiskType /\ disk.synced \in Nat
    BY <1>2 DEF IInv, LiveInv, Types, WorldTypes, DiskType
  <2>2. CASE AppendStep
    <3>1. CASE AppendSync
      BY <2>1, <3>1, SyncFacts
    <3>2. CASE ~AppendSync
      BY <2>1, <2>2, <3>2, AppendLeaves DEF Leaves, OrderInv
    <3>3. QED
      BY <3>1, <3>2
  <2>3. CASE SetupStep
    <3>1. CASE WriteHeader
      BY <1>0, <3>1 DEF WriteHeader
    <3>2. CASE RenameJournal
      <4>1. disk.synced = 1
        <5>1. pc = "rename"
          BY <3>2 DEF RenameJournal
        <5>2. disk.name = "temporary"
          BY <2>1, <5>1 DEF LiveInv, NameInv, Site
        <5>3. QED
          BY <5>2 DEF OrderInv
      <4>2. \/ disk' = [disk EXCEPT !.name = "linked"]
            \/ disk' = [name |-> "absent", lines |-> <<>>, synced |-> 0, torn |-> FALSE]
        BY <3>2 DEF RenameJournal
      <4>3. QED
        BY <2>1, <4>1, <4>2 DEF DiskType
    <3>3. CASE SyncParent
      <4>1. disk' = disk \/ disk' = [disk EXCEPT !.name = "durable"]
        BY <3>3 DEF SyncParent
      <4>2. QED
        BY <1>0, <2>1, <4>1 DEF DiskType
    <3>4. CASE Refuse \/ Admitted \/ ReserveAudit \/ ReserveReceipt
      BY <1>0, <3>4 DEF Refuse, Admitted, ReserveAudit, ReserveReceipt
    <3>5. QED
      BY <2>3, <3>1, <3>2, <3>3, <3>4 DEF SetupStep
  <2>4. CASE ProbeStep \/ TaskStep \/ CleanupStep \/ FinishStep \/ RequestCancel
    BY <1>0, <2>4, WorkLeaves
  <2>5. CASE Crash
    BY <2>1, <2>5, CrashLeaves DEF OrderInv
  <2>6. CASE Done
    BY <1>0, <2>6 DEF Done, vars
  <2>7. QED
    BY <1>2, <2>2, <2>3, <2>4, <2>5, <2>6 DEF Next
<1>3. QED
  BY <1>1, <1>2

(* Every step keeps the order of what is on record.                        *)
LEMMA OrderKept ==
  ASSUME IInv, OrderInv, [Next]_vars
  PROVE  OrderInv'
  BY OrderedKept, HeaderKept DEF OrderInv

-----------------------------------------------------------------------------
(* The evidence log.                                                       *)

(* The place before the journal is published.                              *)
Unpublished == Setup \cup {"rename", "sync_parent"}

(* While the command runs, the log is the durable lines once the journal   *)
(* has its name, and empty before.                                         *)
LEMMA LogIs ==
  ASSUME LiveInv
  PROVE  /\ Site \in Unpublished => disk.name # "durable" /\ DurableEvents = <<>>
         /\ Site \notin Unpublished =>
              /\ disk.name = "durable" /\ disk.synced \in Nat /\ disk.synced >= 1
              /\ disk.lines \in Seq(LineType) /\ disk.synced <= Len(disk.lines)
              /\ chain.life \in LifeType /\ ChainInv
<1>1. ASSUME Site \in Unpublished PROVE disk.name # "durable" /\ DurableEvents = <<>>
  <2>1. disk.name # "durable"
    BY <1>1 DEF LiveInv, NameInv, Unpublished
  <2>2. QED
    BY <2>1 DEF DurableEvents
<1>2. ASSUME Site \notin Unpublished
      PROVE  /\ disk.name = "durable" /\ disk.synced \in Nat /\ disk.synced >= 1
             /\ disk.lines \in Seq(LineType) /\ disk.synced <= Len(disk.lines)
             /\ chain.life \in LifeType /\ ChainInv
  <2>1. Site \notin Setup /\ disk.name = "durable"
    BY <1>2 DEF LiveInv, NameInv, Unpublished
  <2>2. ChainInv
    BY <2>1 DEF LiveInv
  <2>3. QED
    BY <2>1, <2>2, FileParts
<1>3. QED
  BY <1>1, <1>2

(* The log as a sequence of events, and what it holds.                     *)
LEMMA LogHolds ==
  ASSUME disk.name = "durable", disk.synced \in Nat
  PROVE  /\ DOMAIN DurableEvents = 1..disk.synced /\ Len(DurableEvents) = disk.synced
         /\ \A i \in 1..disk.synced : DurableEvents[i] = disk.lines[i].event
         /\ \A k, p : Log!Holds(k, p) <=> Recorded(disk.lines, disk.synced, k, p)
         /\ Log!Closed <=> \E i \in 1..disk.synced : disk.lines[i].event.kind = "terminal"
<1>1. DurableEvents = [i \in 1..disk.synced |-> disk.lines[i].event]
  BY DEF DurableEvents
<1>2. /\ DOMAIN DurableEvents = 1..disk.synced
      /\ \A i \in 1..disk.synced : DurableEvents[i] = disk.lines[i].event
  BY <1>1
<1>3. Len(DurableEvents) = disk.synced
  BY <1>2
<1>4. \A k, p : Log!Holds(k, p) <=> Recorded(disk.lines, disk.synced, k, p)
  BY <1>2 DEF Log!Holds, Recorded
<1>5. Log!Closed <=> \E i \in 1..disk.synced : disk.lines[i].event.kind = "terminal"
  BY <1>2 DEF Log!Closed
<1>6. QED
  BY <1>2, <1>3, <1>4, <1>5

(* An effect is open in the chain exactly when it is open in the log.      *)
LEMMA OpenIsOpen ==
  ASSUME LiveInv, Site \notin Unpublished, Ordered(chain.life, disk.lines, disk.synced)
  PROVE  /\ \A p : IsOpen(p) => Log!Open(p)
         /\ chain.life.effects = <<>> => \A p : ~Log!Open(p)
<1>1. /\ disk.name = "durable" /\ disk.synced \in Nat
  BY LogIs
<1>2. \A k, p : Log!Holds(k, p) <=> Recorded(disk.lines, disk.synced, k, p)
  BY <1>1, LogHolds
<1>3. ASSUME NEW p, IsOpen(p) PROVE Log!Open(p)
  <2>1. PICK i \in DOMAIN chain.life.effects : /\ chain.life.effects[i].effect = p.effect
                                               /\ chain.life.effects[i].attempt = p.attempt
    BY <1>3 DEF IsOpen, OpenIn
  <2>2. Recorded(disk.lines, disk.synced, "effect-before", chain.life.effects[i])
    BY <2>1 DEF LiveInv, AccountInv, Accounted
  <2>3. Recorded(disk.lines, disk.synced, "effect-before", p)
    BY <2>1, <2>2 DEF Recorded
  <2>4. ~Recorded(disk.lines, disk.synced, "effect-after", p)
    BY <2>1 DEF Ordered, Recorded
  <2>5. QED
    BY <1>2, <2>3, <2>4 DEF Log!Open
<1>4. ASSUME chain.life.effects = <<>>, NEW p, Log!Open(p) PROVE FALSE
  <2>1. /\ Recorded(disk.lines, disk.synced, "effect-before", p)
        /\ ~Recorded(disk.lines, disk.synced, "effect-after", p)
    BY <1>2, <1>4 DEF Log!Open
  <2>2. PICK i \in 1..disk.synced : /\ disk.lines[i].event.kind = "effect-before"
                                    /\ disk.lines[i].event.effect = p.effect
                                    /\ disk.lines[i].event.attempt = p.attempt
    BY <2>1 DEF Recorded
  <2>3. ~Recorded(disk.lines, disk.synced, "effect-after", disk.lines[i].event)
    BY <2>1, <2>2 DEF Recorded
  <2>4. OpenIn(chain.life, disk.lines[i].event)
    BY <2>2, <2>3 DEF Ordered
  <2>5. QED
    BY <1>4, <2>4 DEF OpenIn
<1>5. QED
  BY <1>3, <1>4

(* A step that leaves the durable lines alone leaves the log alone.        *)
LEMMA LeavesLog ==
  ASSUME disk'.synced = disk.synced, disk'.name = "durable" <=> disk.name = "durable",
         \A i \in 1..disk.synced : disk'.lines[i] = disk.lines[i]
  PROVE  DurableEvents' = DurableEvents
  BY DEF DurableEvents

(* A sequence of events, one event longer.                                 *)
LEMMA LongerLog ==
  ASSUME NEW n \in Nat, NEW d
  PROVE  /\ [i \in 1..(n + 1) |-> d[i].event]
              = Append([i \in 1..n |-> d[i].event], d[n + 1].event)
         /\ Len([i \in 1..(n + 1) |-> d[i].event]) = n + 1
         /\ [i \in 1..(n + 1) |-> d[i].event] # <<>>
<1> DEFINE S == {d[i].event : i \in 1..(n + 1)}
           s == [i \in 1..n |-> d[i].event]
           t == [i \in 1..(n + 1) |-> d[i].event]
           a == Append(s, d[n + 1].event)
<1>1. s \in Seq(S) /\ Len(s) = n /\ \A i \in 1..n : s[i] = d[i].event
  OBVIOUS
<1>2. t \in Seq(S) /\ Len(t) = n + 1 /\ \A i \in 1..(n + 1) : t[i] = d[i].event
  OBVIOUS
<1>3. d[n + 1].event \in S
  OBVIOUS
<1> HIDE DEF s, t, S
<1>4. a \in Seq(S) /\ Len(a) = n + 1 /\ a[n + 1] = d[n + 1].event /\ \A i \in 1..n : a[i] = s[i]
  BY <1>1, <1>3
<1> HIDE DEF a
<1>5. \A i \in 1..(n + 1) : t[i] = a[i]
  BY <1>1, <1>2, <1>4
<1>6. t = a
  BY <1>2, <1>4, <1>5, SeqEqual
<1>7. t # <<>>
  BY <1>2
<1>8. QED
  BY <1>2, <1>6, <1>7 DEF a, s, t

(* AppendSync records one event.                                           *)
LEMMA SyncRecords ==
  ASSUME LiveInv, Ordered(chain.life, disk.lines, disk.synced), AppendSync
  PROVE  Log!Record
<1> DEFINE n == disk.synced
           d == disk.lines
           e == io.event
           life == chain.life
<1>1. /\ e \in EventType /\ life \in LifeType /\ n \in Nat
      /\ Admits(life, e) /\ d[n + 1].event = e
      /\ disk'.name = disk.name /\ disk'.lines = d /\ disk'.synced = n + 1
      /\ disk.name = "durable"
      /\ performed' = performed /\ exit' = exit
  BY SyncFacts
<1>2. Site \notin Unpublished
  BY <1>1, LogIs
<1>3. exit = NoExit /\ n >= 1 /\ ChainInv
  BY <1>2, LogIs DEF LiveInv, Types, EndTypes
<1>4. /\ DurableEvents = [i \in 1..n |-> d[i].event]
      /\ DurableEvents' = [i \in 1..(n + 1) |-> d[i].event]
  BY <1>1 DEF DurableEvents
<1>5. /\ DurableEvents' = Append(DurableEvents, e) /\ Len(DurableEvents') = n + 1
      /\ DurableEvents' # <<>>
  BY <1>1, <1>4, LongerLog
<1>6. DurableEvents'[Len(DurableEvents')] = e
  <2>1. n + 1 \in 1..(n + 1)
    BY <1>1
  <2>2. QED
    BY <1>1, <1>4, <1>5, <2>1
<1>7. /\ DOMAIN DurableEvents = 1..n
      /\ \A i \in 1..n : DurableEvents[i] = d[i].event
      /\ Log!Closed <=> \E i \in 1..n : d[i].event.kind = "terminal"
  BY <1>1, LogHolds
<1>8. ~Log!Closed
  <2>1. ~life.terminal
    BY <1>1 DEF Admits
  <2>2. QED
    BY <1>7, <2>1 DEF Ordered
<1>9. e.kind # "header"
  <2>1. e.kind = "header" => ~Admits(life, e)
    BY DEF Admits
  <2>2. QED
    BY <1>1, <2>1
<1>10. DurableEvents # <<>>
  <2>1. 1 \in DOMAIN DurableEvents
    BY <1>1, <1>3, <1>7
  <2>2. QED
    BY <2>1
<1>11. ASSUME e.kind = "effect-before", NEW i \in DOMAIN DurableEvents,
              DurableEvents[i].kind = "effect-before"
       PROVE  DurableEvents[i].attempt < e.attempt
  <2>1. e.attempt = life.next_attempt /\ life.next_attempt \in Nat
    BY <1>1, <1>11, AdmitTyped DEF LifeType
  <2>2. d[i].event.attempt \in 0..(life.next_attempt - 1)
    BY <1>7, <1>11 DEF Ordered
  <2>3. QED
    BY <1>7, <1>11, <2>1, <2>2
<1>12. ASSUME e.kind = "effect-after" PROVE Log!Open(e)
  <2>1. life.effects # <<>> /\ Last(life.effects) = OpenEffect(e)
    BY <1>1, <1>12, AdmitTyped
  <2>2. life.effects \in Seq([node : Nodes, effect : Effects, attempt : Attempts])
    BY <1>1 DEF LifeType
  <2>3. /\ Len(life.effects) \in Nat \ {0}
        /\ life.effects[Len(life.effects)] = OpenEffect(e)
    BY <2>1, <2>2, FrontTyped
  <2>4. Len(life.effects) \in DOMAIN life.effects
    BY <2>2, <2>3
  <2>5. OpenEffect(e).effect = e.effect /\ OpenEffect(e).attempt = e.attempt
    BY DEF OpenEffect
  <2>6. IsOpen(e)
    BY <2>3, <2>4, <2>5 DEF IsOpen, OpenIn
  <2>7. QED
    BY <1>2, <2>6, OpenIsOpen
<1>13. ASSUME e.kind = "terminal" PROVE \A p : ~Log!Open(p)
  <2>1. life.effects = <<>>
    BY <1>1, <1>13, AdmitTyped
  <2>2. QED
    BY <1>2, <2>1, OpenIsOpen
<1>14. Log!MayRecord(e)
  BY <1>8, <1>9, <1>10, <1>11, <1>12, <1>13 DEF Log!MayRecord
<1>15. QED
  BY <1>1, <1>3, <1>5, <1>6, <1>14 DEF Log!Record

(* SyncParent records the header: the journal has its name.                *)
LEMMA HeaderRecorded ==
  ASSUME LiveInv, OrderInv, SyncParent, disk'.name = "durable"
  PROVE  Log!Record
<1>1. pc = "sync_parent" /\ performed' = performed
  BY DEF SyncParent, setupVars
<1>2. Site = "sync_parent" /\ Site \notin Setup /\ Site \in Unpublished
  BY <1>1 DEF Site, Setup, Unpublished
<1>3. /\ disk \in DiskType /\ disk.name = "linked" /\ DurableEvents = <<>> /\ exit = NoExit
  BY <1>2, LogIs DEF LiveInv, NameInv, Types, WorldTypes, EndTypes
<1>4. disk' = [disk EXCEPT !.name = "durable"] /\ exit' = exit
  BY <1>3 DEF SyncParent
<1>5. disk'.lines = disk.lines /\ disk'.synced = disk.synced
  BY <1>3, <1>4 DEF DiskType
<1>6. ChainInv /\ disk.synced = chain.lines
  BY <1>2 DEF LiveInv, ChainInv
<1>7. disk.lines[1].event = Header(StartTime, chain.policy)
  BY <1>6 DEF ChainInv
<1>8. disk.synced = 1
  BY <1>3 DEF OrderInv
<1>9. DurableEvents' = [i \in 1..(0 + 1) |-> disk.lines[i].event]
  BY <1>5, <1>8 DEF DurableEvents
<1>10. [i \in 1..0 |-> disk.lines[i].event] = <<>>
  OBVIOUS
<1>11. /\ DurableEvents' = Append(<<>>, disk.lines[1].event)
       /\ Len(DurableEvents') = 1 /\ DurableEvents' # <<>>
  BY <1>9, <1>10, LongerLog
<1>12. DurableEvents'[Len(DurableEvents')] = disk.lines[1].event
  BY <1>9, <1>11
<1>13. disk.lines[1].event.kind = "header"
  BY <1>7 DEF Header
<1>14. Log!MayRecord(disk.lines[1].event)
  BY <1>3, <1>13 DEF Log!MayRecord, Log!Closed
<1>15. QED
  BY <1>1, <1>3, <1>4, <1>11, <1>12, <1>14 DEF Log!Record

(* A step that leaves log, effects and exit alone maps to a stutter.       *)
LEMMA LogStutters ==
  ASSUME DurableEvents' = DurableEvents, performed' = performed, exit' = exit
  PROVE  UNCHANGED Log!vars
  BY DEF Log!vars

(* An effect reaches the host while it is open in the log.                 *)
LEMMA PerformsOpen ==
  ASSUME LiveInv, Ordered(chain.life, disk.lines, disk.synced), disk' = disk, exit' = exit,
         Site \notin Unpublished,
         NEW p \in [effect : Effects, attempt : Attempts], IsOpen(p),
         performed' \in {performed, performed \cup {p}}
  PROVE  [Log!Next]_(Log!vars)
<1>1. DurableEvents' = DurableEvents
  BY DEF DurableEvents
<1>2. CASE performed' = performed
  BY <1>1, <1>2, LogStutters
<1>3. CASE p \in performed
  BY <1>1, <1>3, LogStutters
<1>4. CASE performed' = performed \cup {p} /\ p \notin performed
  <2>1. Log!Open(p)
    BY OpenIsOpen
  <2>2. exit = NoExit
    BY DEF LiveInv, Types, EndTypes
  <2>3. Log!Perform
    BY <1>1, <1>4, <2>1, <2>2 DEF Log!Perform, Attempts
  <2>4. QED
    BY <2>3 DEF Log!Next
<1>5. QED
  BY <1>2, <1>3, <1>4

(* Probes reach the host between their two events.                         *)
LEMMA ProbeLogs ==
  ASSUME LiveInv, OrderInv, ~Ended, ProbeStep
  PROVE  [Log!Next]_(Log!vars)
<1>1. disk' = disk /\ exit' = exit
  BY DEF ProbeStep, BindStreams, BindFails, ProbeStart, ProbeStarted, ProbeSucceeds,
     ProbeFails, ProbeIsStale, Probed, Prepare, PrepareFails, hostVars
<1>2. CASE ProbeSucceeds \/ ProbeFails
  <2> DEFINE p == [effect |-> "process", attempt |-> ops.next_attempt]
  <2>1. pc = "probing" /\ performed' \in {performed, performed \cup {p}}
    BY <1>2 DEF ProbeSucceeds, ProbeFails
  <2>2. Site \notin Unpublished
    BY <2>1 DEF Site, Unpublished, Setup
  <2>3. p \in [effect : Effects, attempt : Attempts]
    BY Parts DEF Effects
  <2>4. IsOpen(p)
    BY <2>1 DEF LiveInv, OpenInv
  <2>5. Ordered(chain.life, disk.lines, disk.synced)
    BY DEF OrderInv
  <2> HIDE DEF p
  <2>6. QED
    BY <1>1, <2>1, <2>2, <2>3, <2>4, <2>5, PerformsOpen
<1>3. CASE performed' = performed
  <2>1. DurableEvents' = DurableEvents
    BY <1>1 DEF DurableEvents
  <2>2. QED
    BY <1>1, <1>3, <2>1, LogStutters
<1>4. QED
  BY <1>2, <1>3 DEF ProbeStep, BindStreams, BindFails, ProbeStart, ProbeStarted, ProbeIsStale,
     Probed, Prepare, PrepareFails

(* Effects of the task reach the host between their two events.            *)
LEMMA TaskLogs ==
  ASSUME LiveInv, OrderInv, ~Ended, TaskStep
  PROVE  [Log!Next]_(Log!vars)
<1>1. disk' = disk /\ exit' = exit
  BY DEF TaskStep, InitializationFails, EnterAction, Entered, StartEffect, RefuseEffect,
     Started, EffectSucceeds, EffectFails, Finished, Throw, Catch, LeaveAction, Left,
     taskVars, hostVars
<1>2. CASE EffectSucceeds \/ EffectFails
  <2> DEFINE p == Last(ops.effects)
  <2>1. /\ pc = "evaluate" /\ ops.effects # <<>>
        /\ performed' \in {performed, performed \cup {p}}
    BY <1>2 DEF EffectSucceeds, EffectFails
  <2>2. Site = "evaluate" /\ Site \notin Unpublished
    BY <2>1 DEF Site, Unpublished, Setup
  <2>3. /\ ops.effects \in Seq([effect : Effects, attempt : Attempts])
        /\ p = ops.effects[Len(ops.effects)] /\ Len(ops.effects) \in Nat \ {0}
        /\ p \in [effect : Effects, attempt : Attempts]
    BY <2>1, Parts, FrontTyped
  <2>4. Len(ops.effects) \in DOMAIN ops.effects
    BY <2>3
  <2>5. IsOpen(p)
    BY <2>2, <2>3, <2>4 DEF LiveInv, OpenInv
  <2>6. Ordered(chain.life, disk.lines, disk.synced)
    BY DEF OrderInv
  <2> HIDE DEF p
  <2>7. QED
    BY <1>1, <2>1, <2>2, <2>3, <2>5, <2>6, PerformsOpen
<1>3. CASE performed' = performed
  <2>1. DurableEvents' = DurableEvents
    BY <1>1 DEF DurableEvents
  <2>2. QED
    BY <1>1, <1>3, <2>1, LogStutters
<1>4. QED
  BY <1>2, <1>3 DEF TaskStep, InitializationFails, EnterAction, Entered, StartEffect,
     RefuseEffect, Started, Finished, Throw, Catch, LeaveAction, Left

(* An exit after the closure: 0 stands on the terminal event of a success, *)
(* and every effect that reached the host has its end on record.           *)
LEMMA FinishLogs ==
  ASSUME LiveInv, OrderInv, ~Ended, FinishStep
  PROVE  [Log!Next]_(Log!vars)
<1>1. disk' = disk /\ performed' = performed
  BY DEF FinishStep, WithoutReceipt, WriteReceipt, SyncReceipt, ReceiptFailed,
     ReceiptEvidence, Select, GenerateAudit, WriteAudit, SyncAudit, FinishTaskRun, finishVars
<1>2. DurableEvents' = DurableEvents
  BY <1>1 DEF DurableEvents
<1>3. CASE exit' = exit
  BY <1>1, <1>2, <1>3, LogStutters
<1>4. CASE exit' # exit
  <2>1. pc' = "exited"
    BY <1>4 DEF FinishStep, WithoutReceipt, WriteReceipt, SyncReceipt, ReceiptFailed,
       ReceiptEvidence, Select, GenerateAudit, WriteAudit, SyncAudit, FinishTaskRun, Exit
  <2>2. TypeOK' /\ ExitIsEvidenced'
    BY <2>1, FinishEnded DEF EndedInv
  <2>3. exit = NoExit
    BY DEF LiveInv, Types, EndTypes
  <2>4. exit' \in {0, 1, 2, 130}
    BY <1>4, <2>2, <2>3 DEF TypeOK
  <2>5. ASSUME exit' = 0 PROVE Log!Succeeded
    <3> DEFINE n == disk.synced
               e == disk.lines[n].event
    <3>1. /\ disk.name = "durable" /\ n = Len(disk.lines)
          /\ Last(disk.lines).event.kind = "terminal"
          /\ Last(disk.lines).event.primary = Outcome("success", "null")
          /\ \A i \in DOMAIN Last(disk.lines).event.cleanup :
                Last(disk.lines).event.cleanup[i] = "success"
      BY <1>1, <2>2, <2>5 DEF ExitIsEvidenced
    <3>2. Site \notin Unpublished
      BY <3>1, LogIs
    <3>3. n \in Nat /\ n >= 1 /\ ChainInv
      BY <3>2, LogIs
    <3>4. Last(disk.lines) = disk.lines[n]
      BY <3>1 DEF Last
    <3>5. /\ DOMAIN DurableEvents = 1..n /\ Len(DurableEvents) = n
          /\ \A i \in 1..n : DurableEvents[i] = disk.lines[i].event
          /\ \A k, p : Log!Holds(k, p) <=> Recorded(disk.lines, n, k, p)
      BY <3>1, <3>3, LogHolds
    <3>6. n \in 1..n
      BY <3>3
    <3>7. DurableEvents # <<>> /\ DurableEvents[Len(DurableEvents)] = e
      BY <3>5, <3>6
    <3>8. chain.life.terminal
      BY <3>1, <3>4, <3>6 DEF OrderInv, Ordered
    <3>9. chain.life.effects = <<>>
      BY <3>3, <3>8 DEF ChainInv
    <3>10. \A p \in performed : Recorded(disk.lines, n, "effect-after", p)
      BY <3>9 DEF LiveInv, AccountInv, Accounted, OpenIn
    <3>11. /\ e.kind = "terminal" /\ e.primary.class = "success"
           /\ \A i \in DOMAIN e.cleanup : e.cleanup[i] = "success"
      BY <3>1, <3>4 DEF Outcome
    <3>12. QED
      BY <3>5, <3>7, <3>10, <3>11 DEF Log!Succeeded
  <2>6. Log!Finish
    BY <1>1, <1>2, <2>3, <2>4, <2>5 DEF Log!Finish
  <2>7. QED
    BY <2>6 DEF Log!Next
<1>5. QED
  BY <1>3, <1>4

(* Before the journal is published the log is empty; publishing it records *)
(* the header, and an error ends the command with an exit other than 0.    *)
LEMMA SetupLogs ==
  ASSUME LiveInv, OrderInv, SetupStep
  PROVE  [Log!Next]_(Log!vars)
<1>1. pc \in Unpublished /\ Site = pc
  BY DEF SetupStep, Refuse, Admitted, ReserveAudit, ReserveReceipt, WriteHeader, RenameJournal,
     SyncParent, Site, Setup, Unpublished
<1>2. DurableEvents = <<>> /\ disk.name # "durable" /\ exit = NoExit /\ disk \in DiskType
  BY <1>1, LogIs DEF LiveInv, Types, EndTypes, WorldTypes
<1>3. CASE disk'.name = "durable"
  <2>1. disk' # disk
    BY <1>2, <1>3
  <2>2. ~WriteHeader
    BY <1>2, <1>3 DEF WriteHeader
  <2>3. ~RenameJournal
    BY <1>2, <1>3 DEF RenameJournal, DiskType
  <2>4. SyncParent
    BY <2>1, <2>2, <2>3 DEF SetupStep, Refuse, Admitted, ReserveAudit, ReserveReceipt
  <2>5. Log!Record
    BY <1>3, <2>4, HeaderRecorded
  <2>6. QED
    BY <2>5 DEF Log!Next
<1>4. CASE disk'.name # "durable"
  <2>1. DurableEvents' = DurableEvents
    BY <1>2, <1>4 DEF DurableEvents
  <2>2. performed' = performed /\ (exit' = exit \/ exit' = ErrorExit)
    BY DEF SetupStep, Refuse, Admitted, ReserveAudit, ReserveReceipt, WriteHeader,
       RenameJournal, SyncParent, setupVars, Exit
  <2>3. CASE exit' = exit
    BY <2>1, <2>2, <2>3, LogStutters
  <2>4. CASE exit' = ErrorExit
    <3>1. exit' \in {1, 2, 130}
      BY <2>4, ErrorExits
    <3>2. Log!Finish
      BY <1>2, <2>1, <2>2, <3>1 DEF Log!Finish
    <3>3. QED
      BY <3>2 DEF Log!Next
  <2>5. QED
    BY <2>2, <2>3, <2>4
<1>5. QED
  BY <1>3, <1>4

(* Every step of the command maps to a step of the log or to a stutter.    *)
LEMMA LogStep ==
  ASSUME IInv, OrderInv, [Next]_vars
  PROVE  [Log!Next]_(Log!vars)
<1>1. ASSUME disk' = disk, performed' = performed, exit' = exit PROVE UNCHANGED Log!vars
  <2>1. DurableEvents' = DurableEvents
    BY <1>1 DEF DurableEvents
  <2>2. QED
    BY <1>1, <2>1, LogStutters
<1>2. CASE Ended \/ UNCHANGED vars
  BY <1>1, <1>2, EndedStutters DEF vars
<1>3. CASE ~Ended /\ Next
  <2>1. LiveInv /\ Ordered(chain.life, disk.lines, disk.synced)
    BY <1>3 DEF IInv, OrderInv
  <2>2. CASE AppendStep
    <3>1. CASE AppendSync
      <4>1. Log!Record
        BY <2>1, <3>1, SyncRecords
      <4>2. QED
        BY <4>1 DEF Log!Next
    <3>2. CASE ~AppendSync
      <4>1. Leaves /\ disk'.name = disk.name /\ performed' = performed /\ exit' = exit
        BY <2>1, <2>2, <3>2, AppendLeaves
      <4>2. DurableEvents' = DurableEvents
        BY <4>1, LeavesLog DEF Leaves
      <4>3. QED
        BY <4>1, <4>2, LogStutters
    <3>3. QED
      BY <3>1, <3>2
  <2>3. CASE SetupStep
    BY <2>1, <2>3, SetupLogs
  <2>4. CASE ProbeStep
    BY <1>3, <2>1, <2>4, ProbeLogs
  <2>5. CASE TaskStep
    BY <1>3, <2>1, <2>5, TaskLogs
  <2>6. CASE CleanupStep \/ RequestCancel
    <3>1. disk' = disk
      BY <2>6, WorkLeaves
    <3>2. performed' = performed /\ exit' = exit
      BY <2>6 DEF RequestCancel, CleanupStep, Evaluated, AppendCleanup, Cleaned, CleanupDone,
         AppendTerminal, ClockFails, Terminated, hostVars
    <3>3. QED
      BY <1>1, <3>1, <3>2
  <2>7. CASE FinishStep
    BY <1>3, <2>1, <2>7, FinishLogs
  <2>8. CASE Crash
    <3>1. DurableEvents' = DurableEvents
      BY <2>1, <2>8, CrashLeaves, LeavesLog
    <3>2. QED
      BY <2>1, <2>8, <3>1, CrashLeaves, LogStutters
  <2>9. CASE Done
    BY <1>1, <2>9 DEF Done, vars
  <2>10. QED
    BY <1>3, <2>2, <2>3, <2>4, <2>5, <2>6, <2>7, <2>8, <2>9 DEF Next
<1>4. QED
  BY <1>2, <1>3

(* At first the log is empty.                                              *)
LEMMA LogStarts ==
  ASSUME Init
  PROVE  Log!Init /\ OrderInv
<1>1. disk = [name |-> "absent", lines |-> <<>>, synced |-> 0, torn |-> FALSE]
      /\ performed = {} /\ exit = NoExit
  BY DEF Init
<1>2. disk.name = "absent" /\ disk.synced = 0
  BY <1>1
<1>3. DurableEvents = <<>>
  BY <1>2 DEF DurableEvents
<1>4. OrderInv
  BY <1>2 DEF OrderInv, Ordered
<1>5. QED
  BY <1>1, <1>3, <1>4 DEF Log!Init

(* KeepsLog: the durable lines of the journal implement EvidenceLog, for   *)
(* any plan, any limits and any number of faults.  Across failed writes    *)
(* and syncs and a crash at any point they grow by one event at a time and *)
(* lose none; an effect reaches the host only while it is announced and    *)
(* not ended there; the terminal line finds no effect open and nothing     *)
(* follows it; exit 0 stands on the terminal line of a success             *)
(* (SyncedJournal::append, ControlledSourceOperations::effect,             *)
(* finish_task_run).                                                       *)
THEOREM LogKept == Spec => KeepsLog
<1>1. Init => IInv /\ OrderInv /\ Log!Init
  BY InitLive, LogStarts
<1>2. IInv /\ OrderInv /\ [Next]_vars => IInv' /\ OrderInv' /\ [Log!Next]_(Log!vars)
  BY StepInv, OrderKept, LogStep
<1>3. QED
  BY <1>1, <1>2, PTL DEF Spec, KeepsLog, Log!Spec
=============================================================================
