-------------------------- MODULE RevisionHandover --------------------------
(***************************************************************************)
(* What the gateway promises about the revisions of a draft as long as it  *)
(* is the only one to write the draft: the next revision is put on the     *)
(* server while exactly the recorded one is there, the old one is taken    *)
(* away only once the new one is there, and the new one is recorded only   *)
(* when it is the only one left.  So a reader of the folder always finds   *)
(* the recorded revision or its successor.  A draft that is closed         *)
(* (conflict, failure) gets no further revision; of a draft that someone   *)
(* else changed nothing is promised.                                       *)
(*                                                                         *)
(* Messages go by EXPUNGE, which asks for no draft: with the old revision  *)
(* of the draft at work goes that of any draft whose own handover broke    *)
(* off between marking it and taking it away, be it open or closed.        *)
(***************************************************************************)
EXTENDS Naturals

CONSTANT DraftIds

VARIABLES
    shown,     \* the revisions on the server
    recorded,  \* the revision on record, 0 before there is a record
    state      \* "none", "open", "closed" or "lost" to someone else

handoverVars == <<shown, recorded, state>>

Init ==
    /\ shown = [d \in DraftIds |-> {}]
    /\ recorded = [d \in DraftIds |-> 0]
    /\ state = [d \in DraftIds |-> "none"]

Register(d) ==
    /\ state[d] = "none"
    /\ state' = [state EXCEPT ![d] = "open"]
    /\ recorded' = [recorded EXCEPT ![d] = 1]
    /\ UNCHANGED shown

PublishFirst(d) ==
    /\ state[d] = "open"
    /\ recorded[d] = 1 /\ shown[d] = {}
    /\ shown' = [shown EXCEPT ![d] = {1}]
    /\ UNCHANGED <<recorded, state>>

PublishNext(d) ==
    /\ state[d] = "open"
    /\ shown[d] = {recorded[d]}
    /\ shown' = [shown EXCEPT ![d] = @ \cup {recorded[d] + 1}]
    /\ UNCHANGED <<recorded, state>>

Retire(gone) ==
    /\ \A d \in gone :
          /\ state[d] \in {"open", "closed"}
          /\ shown[d] = {recorded[d], recorded[d] + 1}
    /\ shown' = [d \in DraftIds |-> IF d \in gone THEN {recorded[d] + 1} ELSE shown[d]]
    /\ UNCHANGED <<recorded, state>>

RecordNext(d) ==
    /\ state[d] = "open"
    /\ shown[d] = {recorded[d] + 1}
    /\ recorded' = [recorded EXCEPT ![d] = @ + 1]
    /\ UNCHANGED <<shown, state>>

Close(d) ==
    /\ state[d] = "open"
    /\ state' = [state EXCEPT ![d] = "closed"]
    /\ UNCHANGED <<shown, recorded>>

Lose(d) ==
    /\ state[d] \in {"open", "closed"}
    /\ state' = [state EXCEPT ![d] = "lost"]
    /\ shown' = [shown EXCEPT ![d] = {}]
    /\ recorded' = [recorded EXCEPT ![d] = 0]

Next ==
    \/ \E d \in DraftIds :
          \/ Register(d) \/ PublishFirst(d) \/ PublishNext(d)
          \/ RecordNext(d) \/ Close(d) \/ Lose(d)
    \/ \E gone \in SUBSET DraftIds : Retire(gone)

Spec == Init /\ [][Next]_handoverVars
=============================================================================
