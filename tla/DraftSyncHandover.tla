------------------------- MODULE DraftSyncHandover -------------------------
(***************************************************************************)
(* DraftSync implements RevisionHandover: what is shown is what a SEARCH   *)
(* for the draft would find, what is recorded is the row of the store.     *)
(***************************************************************************)
EXTENDS DraftSync

ShownRevisions(d) ==
    IF d \in touched THEN {} ELSE {box[u].rev : u \in CopiesOf(d)}

RecordedRevision(d) ==
    IF d \in touched THEN 0 ELSE drafts[d].revision

HandoverState(d) ==
    CASE d \in touched -> "lost"
      [] d \notin touched /\ ~Present(d) -> "none"
      [] d \notin touched /\ drafts[d].status \in Terminal -> "closed"
      [] OTHER -> "open"

Handover == INSTANCE RevisionHandover WITH
    shown <- [d \in DraftIds |-> ShownRevisions(d)],
    recorded <- [d \in DraftIds |-> RecordedRevision(d)],
    state <- [d \in DraftIds |-> HandoverState(d)]

\* Every step of the gateway, the server, the other client and a crash is one
\* of the steps RevisionHandover allows, or none of its business.
HandoverSpec == Handover!Spec
=============================================================================
