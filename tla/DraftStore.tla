----------------------------- MODULE DraftStore -----------------------------
(***************************************************************************)
(* The SQLite draft store (noema_mail_gateway/draft_store.py): metadata of *)
(* drafts, metadata of staged attachments, and the two idempotency tables. *)
(* Each public method that writes is one transaction under the store's     *)
(* lock (BEGIN IMMEDIATE ... COMMIT), hence one action; a call that raises *)
(* is rolled back and is a stuttering step, so an action's guard is the    *)
(* conjunction of the checks the method makes.  A replayed key returns the *)
(* stored record without a write and is a stuttering step too.             *)
(*                                                                         *)
(* fail_incomplete is the one method that is not a transaction: it lists   *)
(* the records and then runs one transaction per record, so the listing is *)
(* state of its own (sweep) and other writers may come in between.         *)
(***************************************************************************)
EXTENDS DraftData

CONSTANTS
    AttachmentIds,  \* identities of staged attachments
    Keys            \* idempotency keys chosen by clients

ASSUME StoreAssumption == None \notin AttachmentIds \cup Keys

VARIABLES
    drafts,       \* table drafts
    idem,         \* table idempotency
    attachments,  \* table attachments: the ids that have a row
    attIdem,      \* table attachment_idempotency
    sweep         \* records fail_incomplete has listed and not yet handled

storeVars == <<drafts, idem, attachments, attIdem, sweep>>

-----------------------------------------------------------------------------
(* Rows *)

CreateOp == "mail_create_draft"
UpdateOp == "mail_update_draft"
AttachOp == "mail_add_attachment"

\* uid and uidvalidity are 0 while no server copy has been confirmed.
DraftRecord ==
    [status : Statuses, revision : Revisions, hash : Hashes,
     uid : Uids \cup {0}, uidvalidity : Validities \cup {0}]

NoDraft == [status |-> "absent", revision |-> 0, hash |-> None, uid |-> 0, uidvalidity |-> 0]

Binding == [draft : DraftIds, op : {CreateOp, UpdateOp}]
Unbound == [draft |-> None, op |-> "none"]

AttachmentBinding == [attachment : AttachmentIds, op : {AttachOp}]
UnboundAttachment == [attachment |-> None, op |-> "none"]

Present(d) == drafts[d] # NoDraft

\* Mutant of KeyFree: the lookup in the attachment namespace is forgotten.
KeyFreeInOneTable(k) == k # None => idem[k] = Unbound

\* There is no key, or it is in neither namespace: _replay and
\* get_attachment_replay return None.
KeyFree(k) == k # None => idem[k] = Unbound /\ attIdem[k] = UnboundAttachment

StoreInit ==
    /\ drafts = [d \in DraftIds |-> NoDraft]
    /\ idem = [k \in Keys |-> Unbound]
    /\ attachments = {}
    /\ attIdem = [k \in Keys |-> UnboundAttachment]
    /\ sweep = {}

-----------------------------------------------------------------------------
(* Drafts *)

\* _bind_idempotency; create and update may be called without a key.
Bind(k, d, op) ==
    idem' = IF k = None THEN idem ELSE [idem EXCEPT ![k] = [draft |-> d, op |-> op]]

\* Mutant of Create: revisions counted from zero, against CHECK (revision >= 1).
CreateFromZero(d, r, h, s, k) ==
    /\ KeyFree(k)
    /\ ~Present(d)
    /\ drafts' = [drafts EXCEPT ![d] =
          [status |-> s, revision |-> r - 1, hash |-> h, uid |-> 0, uidvalidity |-> 0]]
    /\ Bind(k, d, CreateOp)
    /\ UNCHANGED <<attachments, attIdem, sweep>>

\* create: the row and its key in one transaction.
Create(d, r, h, s, k) ==
    /\ KeyFree(k)
    /\ ~Present(d)
    /\ drafts' = [drafts EXCEPT ![d] =
          [status |-> s, revision |-> r, hash |-> h, uid |-> 0, uidvalidity |-> 0]]
    /\ Bind(k, d, CreateOp)
    /\ UNCHANGED <<attachments, attIdem, sweep>>

\* update: a newer revision, its status and tracking, and the key that asked for it.
Update(d, r, h, s, u, v, k) ==
    /\ KeyFree(k)
    /\ Present(d)
    /\ r > drafts[d].revision
    /\ s # drafts[d].status => CanTransition(drafts[d].status, s)
    /\ drafts' = [drafts EXCEPT ![d] =
          [status |-> s, revision |-> r, hash |-> h, uid |-> u, uidvalidity |-> v]]
    /\ Bind(k, d, UpdateOp)
    /\ UNCHANGED <<attachments, attIdem, sweep>>

\* Mutant of UpdateTracking: the stale-revision check is off by one.
UpdateTrackingInPlace(d, r, h, u, v) ==
    /\ Present(d)
    /\ r >= drafts[d].revision
    /\ drafts' = [drafts EXCEPT ![d].revision = r, ![d].hash = h,
                                ![d].uid = u, ![d].uidvalidity = v]
    /\ UNCHANGED <<idem, attachments, attIdem, sweep>>

\* update_tracking: a newer revision without a status.
UpdateTracking(d, r, h, u, v) ==
    /\ Present(d)
    /\ r > drafts[d].revision
    /\ drafts' = [drafts EXCEPT ![d].revision = r, ![d].hash = h,
                                ![d].uid = u, ![d].uidvalidity = v]
    /\ UNCHANGED <<idem, attachments, attIdem, sweep>>

\* set_tracking: where the current revision was seen on the server.
SetTracking(d, r, h, u, v) ==
    /\ Present(d)
    /\ r = drafts[d].revision
    /\ h = drafts[d].hash
    /\ drafts' = [drafts EXCEPT ![d].uid = u, ![d].uidvalidity = v]
    /\ UNCHANGED <<idem, attachments, attIdem, sweep>>

TransitionStatus(d, target) ==
    /\ Present(d)
    /\ CanTransition(drafts[d].status, target)
    /\ drafts' = [drafts EXCEPT ![d].status = target]
    /\ UNCHANGED <<idem, attachments, attIdem, sweep>>

\* Mutant of Delete: the foreign keys are not enforced.
DeleteWithoutCascade(d) ==
    /\ Present(d)
    /\ drafts' = [drafts EXCEPT ![d] = NoDraft]
    /\ UNCHANGED <<idem, attachments, attIdem, sweep>>

\* delete: ON DELETE CASCADE removes the draft's idempotency rows.
Delete(d) ==
    /\ Present(d)
    /\ drafts' = [drafts EXCEPT ![d] = NoDraft]
    /\ idem' = [k \in Keys |-> IF idem[k].draft = d THEN Unbound ELSE idem[k]]
    /\ UNCHANGED <<attachments, attIdem, sweep>>

\* Mutant of BindIdempotency: INSERT OR REPLACE without the replay lookup.
RebindIdempotency(k, d, op) ==
    /\ Present(d)
    /\ Bind(k, d, op)
    /\ UNCHANGED <<drafts, attachments, attIdem, sweep>>

\* bind_idempotency: a key whose outcome is a conflict, not a revision.
BindIdempotency(k, d, op) ==
    /\ Present(d)
    /\ KeyFree(k)
    /\ Bind(k, d, op)
    /\ UNCHANGED <<drafts, attachments, attIdem, sweep>>

-----------------------------------------------------------------------------
(* Attachments *)

\* save_attachment: the row and its key in one transaction.
SaveAttachment(a, k) ==
    /\ KeyFree(k)
    /\ a \notin attachments
    /\ attachments' = attachments \cup {a}
    /\ attIdem' = [attIdem EXCEPT ![k] = [attachment |-> a, op |-> AttachOp]]
    /\ UNCHANGED <<drafts, idem, sweep>>

-----------------------------------------------------------------------------
(* fail_incomplete *)

ListIncomplete ==
    /\ sweep = {}
    /\ sweep' = {d \in DraftIds : drafts[d].status \in Incomplete}
    /\ UNCHANGED <<drafts, idem, attachments, attIdem>>

\* One listed record; when its transition is refused the call raises and the
\* records after it stay as they are.
FailListed(d) ==
    /\ d \in sweep
    /\ IF Present(d) /\ CanTransition(drafts[d].status, "failed")
       THEN /\ drafts' = [drafts EXCEPT ![d].status = "failed"]
            /\ sweep' = sweep \ {d}
       ELSE /\ sweep' = {}
            /\ UNCHANGED drafts
    /\ UNCHANGED <<idem, attachments, attIdem>>

\* The process ends between two of the transactions: the listing is gone.
AbandonSweep ==
    /\ sweep # {}
    /\ sweep' = {}
    /\ UNCHANGED <<drafts, idem, attachments, attIdem>>

-----------------------------------------------------------------------------

StoreNext ==
    \/ \E d \in DraftIds, r \in Revisions, h \in Hashes, s \in Statuses, k \in Keys \cup {None} :
          Create(d, r, h, s, k)
    \/ \E d \in DraftIds, r \in Revisions, h \in Hashes, s \in Statuses,
          u \in Uids \cup {0}, v \in Validities \cup {0},
          k \in Keys \cup {None} :
          Update(d, r, h, s, u, v, k)
    \/ \E d \in DraftIds, r \in Revisions, h \in Hashes,
          u \in Uids \cup {0}, v \in Validities \cup {0} :
          UpdateTracking(d, r, h, u, v) \/ SetTracking(d, r, h, u, v)
    \/ \E d \in DraftIds, t \in Statuses : TransitionStatus(d, t)
    \/ \E d \in DraftIds : Delete(d) \/ FailListed(d)
    \/ \E k \in Keys, d \in DraftIds, op \in {CreateOp, UpdateOp} : BindIdempotency(k, d, op)
    \/ \E a \in AttachmentIds, k \in Keys : SaveAttachment(a, k)
    \/ ListIncomplete
    \/ AbandonSweep

StoreSpec == StoreInit /\ [][StoreNext]_storeVars

-----------------------------------------------------------------------------
(* Properties *)

\* Every table holds rows of its schema.
StoreTypeOK ==
    /\ drafts \in [DraftIds -> DraftRecord \cup {NoDraft}]
    /\ idem \in [Keys -> Binding \cup {Unbound}]
    /\ attachments \in SUBSET AttachmentIds
    /\ attIdem \in [Keys -> AttachmentBinding \cup {UnboundAttachment}]
    /\ sweep \in SUBSET DraftIds

\* A key never answers for a draft and for an attachment.  No constraint of the
\* schema says so: the two tables are kept apart only by the lookups each
\* operation makes in the other one before it inserts.
OneNamespace ==
    \A k \in Keys : idem[k] = Unbound \/ attIdem[k] = UnboundAttachment

\* A bound key leads to a row (a replay is never "not found"), also after delete.
BindingsResolve ==
    \A k \in Keys :
        /\ idem[k] # Unbound => Present(idem[k].draft)
        /\ attIdem[k] # UnboundAttachment => attIdem[k].attachment \in attachments

\* A binding is never redirected; it goes only together with its draft.
BindingsAreFinal ==
    [][\A k \in Keys :
          /\ idem[k] # Unbound =>
                \/ idem'[k] = idem[k]
                \/ idem'[k] = Unbound /\ drafts'[idem[k].draft] = NoDraft
          /\ attIdem[k] # UnboundAttachment => attIdem'[k] = attIdem[k]]_storeVars

\* A stored revision never goes back and its hash never changes: other content
\* is always a higher revision.
RevisionsAreImmutable ==
    [][\A d \in DraftIds :
          Present(d) /\ Present(d)' =>
              /\ drafts'[d].revision >= drafts[d].revision
              /\ drafts'[d].hash # drafts[d].hash =>
                    drafts'[d].revision > drafts[d].revision]_storeVars

\* Whatever method writes it, a status moves along the automaton or not at all.
StatusFollowsAutomaton ==
    [][\A d \in DraftIds :
          Present(d) /\ Present(d)' =>
              \/ drafts'[d].status = drafts[d].status
              \/ CanTransition(drafts[d].status, drafts'[d].status)]_storeVars
=============================================================================
