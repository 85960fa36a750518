------------------------- MODULE LanguageContract -------------------------
(***************************************************************************)
(* What the language server promises an editor, without its queue, its     *)
(* worker and its snapshots: every request it takes up is answered at most *)
(* once, an answer is as if computed at the moment it is sent, from the    *)
(* documents as the editor last left them, a request the editor cancelled  *)
(* in time is never answered with a result, and diagnostics always carry   *)
(* the version the editor has now.  After shutdown there are only          *)
(* cancellations and refusals.                                             *)
(***************************************************************************)
EXTENDS Naturals

CONSTANTS Uris, Ids, Documents, Closed, Diagnostics

VARIABLES
    phase,   \* "waiting", "running", "shutdown", "gone"
    docs,    \* Uris -> Documents \cup {Closed}
    edits,   \* how often the editor has changed them
    asked,   \* Ids -> [state, edits]: taken up, after how many edits
    answer,  \* Ids -> sequence of the answers the editor has read
    view     \* Uris -> the diagnostics the editor shows

vars == <<phase, docs, edits, asked, answer, view>>

NoDocuments == [u \in Uris |-> Closed]
NoView == [version |-> 0, diagnostics |-> {}]
Waiting(id) == asked[id].state \in {"open", "revoked"} /\ answer[id] = <<>>

Init ==
    /\ phase = "waiting"
    /\ docs = NoDocuments /\ edits = 0
    /\ asked = [id \in Ids |-> [state |-> "no", edits |-> 0]]
    /\ answer = [id \in Ids |-> <<>>]
    /\ view = [u \in Uris |-> NoView]

\* The editor opens, changes or closes one document.
Edit(u) ==
    /\ phase = "running"
    /\ \E d \in Documents \cup {Closed} :
           d # docs[u] /\ docs' = [docs EXCEPT ![u] = d]
    /\ edits' = edits + 1
    /\ UNCHANGED <<phase, asked, answer, view>>

\* A request is taken up.  It may move the server to its next phase.
Ask(id) ==
    /\ asked[id].state = "no"
    /\ asked' = [asked EXCEPT ![id] = [state |-> "open", edits |-> edits]]
    /\ phase' \in {phase} \cup (IF phase = "waiting" THEN {"running"} ELSE {})
                          \cup (IF phase = "running" THEN {"shutdown"} ELSE {})
    /\ UNCHANGED <<docs, edits, answer, view>>

\* The editor cancels a request that has not been answered.
Revoke(id) ==
    /\ Waiting(id)
    /\ asked' = [asked EXCEPT ![id].state = "revoked"]
    /\ UNCHANGED <<phase, docs, edits, answer, view>>

Truthful(id, kind) ==
    LET revoked == asked[id].state = "revoked"
        current == asked[id].edits = edits
    IN  CASE kind \in {"ok", "failed"} -> phase = "running" /\ ~revoked /\ current
          [] kind = "modified"  -> phase = "running" /\ ~revoked /\ ~current
          [] kind = "cancelled" -> revoked \/ phase = "shutdown"
          [] kind = "initialized" -> phase = "running"
          [] kind = "shutdown"  -> phase = "shutdown" /\ \A other \in Ids \ {id} : ~Waiting(other)
          [] kind = "refused"   -> ~revoked

Answer(id) ==
    /\ Waiting(id)
    /\ \E kind \in {"ok", "failed", "modified", "cancelled", "initialized", "shutdown", "refused"} :
           /\ Truthful(id, kind)
           /\ answer' = [answer EXCEPT ![id] = <<[kind |-> kind,
                  basis |-> IF kind = "ok" THEN docs ELSE NoDocuments]>>]
    /\ UNCHANGED <<phase, docs, edits, asked, view>>

\* Diagnostics for one document, of the version that is open now.
Show(u) ==
    /\ phase = "running"
    /\ \E d \in Diagnostics :
           view' = [view EXCEPT ![u] = [version |-> docs[u].version, diagnostics |-> d]]
    /\ UNCHANGED <<phase, docs, edits, asked, answer>>

Leave ==
    /\ phase # "gone" /\ phase' = "gone"
    /\ UNCHANGED <<docs, edits, asked, answer, view>>

Next ==
    \/ \E u \in Uris : Edit(u) \/ Show(u)
    \/ \E id \in Ids : Ask(id) \/ Revoke(id) \/ Answer(id)
    \/ Leave

Spec == Init /\ [][Next]_vars
=============================================================================
