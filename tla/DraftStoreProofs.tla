-------------------------- MODULE DraftStoreProofs --------------------------
(***************************************************************************)
(* Proofs about DraftStore: what its schema, its namespaces and its        *)
(* histories promise for any number of drafts, keys, attachments and       *)
(* revisions.  Apart from Delete every action that changes a draft writes  *)
(* one well-typed row and leaves the other rows alone (WritesRow); the     *)
(* invariants follow from that and from the guards on keys.                *)
(***************************************************************************)
EXTENDS DraftStore, TLAPS

-----------------------------------------------------------------------------
(* Rows *)

\* Row d is replaced by a record of the schema, the other rows stay.
WritesRow(d) ==
    /\ drafts' \in [DraftIds -> DraftRecord \cup {NoDraft}]
    /\ drafts'[d] \in DraftRecord
    /\ \A e \in DraftIds \ {d} : drafts'[e] = drafts[e]

\* The absent row is no record of the schema.
LEMMA NoDraftIsNoRecord == NoDraft \notin DraftRecord
BY DEF NoDraft, DraftRecord, Statuses

\* A row that is present is a record of the schema.
LEMMA PresentIsRecord ==
    ASSUME StoreTypeOK, NEW d \in DraftIds, Present(d)
    PROVE  drafts[d] \in DraftRecord
BY DEF StoreTypeOK, Present

\* The automaton leads to states of the lifecycle only.
LEMMA TransitionsStayInStatuses ==
    ASSUME NEW s, NEW t, CanTransition(s, t)
    PROVE  t \in Statuses
BY DEF CanTransition, Statuses

\* create writes a row of the schema.
LEMMA CreateWrites ==
    ASSUME StoreTypeOK,
           NEW d \in DraftIds, NEW r \in Revisions, NEW h \in Hashes, NEW s \in Statuses,
           NEW k, Create(d, r, h, s, k)
    PROVE  WritesRow(d)
<1> DEFINE row == [status |-> s, revision |-> r, hash |-> h, uid |-> 0, uidvalidity |-> 0]
<1>1. row \in DraftRecord
  BY DEF DraftRecord
<1>2. drafts' = [drafts EXCEPT ![d] = row]
  BY DEF Create
<1> QED
  BY <1>1, <1>2 DEF StoreTypeOK, WritesRow

\* update writes a row of the schema over a row that is there.
LEMMA UpdateWrites ==
    ASSUME StoreTypeOK,
           NEW d \in DraftIds, NEW r \in Revisions, NEW h \in Hashes, NEW s \in Statuses,
           NEW u \in Uids \cup {0}, NEW v \in Validities \cup {0},
           NEW k, Update(d, r, h, s, u, v, k)
    PROVE  WritesRow(d)
<1> DEFINE row == [status |-> s, revision |-> r, hash |-> h, uid |-> u, uidvalidity |-> v]
<1>1. row \in DraftRecord
  BY DEF DraftRecord
<1>2. drafts' = [drafts EXCEPT ![d] = row]
  BY DEF Update
<1> QED
  BY <1>1, <1>2 DEF StoreTypeOK, WritesRow

\* update_tracking changes four columns of a row and leaves its status.
LEMMA UpdateTrackingWrites ==
    ASSUME StoreTypeOK,
           NEW d \in DraftIds, NEW r \in Revisions, NEW h \in Hashes,
           NEW u \in Uids \cup {0}, NEW v \in Validities \cup {0},
           UpdateTracking(d, r, h, u, v)
    PROVE  WritesRow(d)
<1>1. drafts[d] \in DraftRecord
  BY PresentIsRecord DEF UpdateTracking
<1> DEFINE row == [drafts[d] EXCEPT !.revision = r, !.hash = h, !.uid = u, !.uidvalidity = v]
<1>2. row \in DraftRecord
  BY <1>1 DEF DraftRecord
<1>3. drafts' = [drafts EXCEPT ![d] = row]
  BY DEF UpdateTracking, StoreTypeOK
<1> QED
  BY <1>2, <1>3 DEF StoreTypeOK, WritesRow

\* set_tracking changes the tracking of a row and leaves its revision and hash.
LEMMA SetTrackingWrites ==
    ASSUME StoreTypeOK,
           NEW d \in DraftIds, NEW r, NEW h,
           NEW u \in Uids \cup {0}, NEW v \in Validities \cup {0},
           SetTracking(d, r, h, u, v)
    PROVE  WritesRow(d)
<1>1. drafts[d] \in DraftRecord
  BY PresentIsRecord DEF SetTracking
<1> DEFINE row == [drafts[d] EXCEPT !.uid = u, !.uidvalidity = v]
<1>2. row \in DraftRecord
  BY <1>1 DEF DraftRecord
<1>3. drafts' = [drafts EXCEPT ![d] = row]
  BY DEF SetTracking, StoreTypeOK
<1> QED
  BY <1>2, <1>3 DEF StoreTypeOK, WritesRow

\* transition_status and the transitions of fail_incomplete.
LEMMA StatusWrites ==
    ASSUME StoreTypeOK,
           NEW d \in DraftIds, NEW t, Present(d), CanTransition(drafts[d].status, t),
           drafts' = [drafts EXCEPT ![d].status = t]
    PROVE  WritesRow(d)
<1>1. drafts[d] \in DraftRecord
  BY PresentIsRecord
<1> DEFINE row == [drafts[d] EXCEPT !.status = t]
<1>2. t \in Statuses
  BY TransitionsStayInStatuses
<1>3. row \in DraftRecord
  BY <1>1, <1>2 DEF DraftRecord
<1>4. drafts' = [drafts EXCEPT ![d] = row]
  BY DEF StoreTypeOK
<1> QED
  BY <1>3, <1>4 DEF StoreTypeOK, WritesRow

-----------------------------------------------------------------------------
(* Steps.  The steps of the store sorted by what they write (StoreSteps), so *)
(* that each proof below has one case per kind of step.                      *)

\* A step that writes one row of a draft and, if it came with a key, binds it.
RevisionStep ==
    \/ \E d \in DraftIds, r \in Revisions, h \in Hashes, s \in Statuses, k \in Keys \cup {None} :
          Create(d, r, h, s, k)
    \/ \E d \in DraftIds, r \in Revisions, h \in Hashes, s \in Statuses,
          u \in Uids \cup {0}, v \in Validities \cup {0}, k \in Keys \cup {None} :
          Update(d, r, h, s, u, v, k)

\* A step that writes one row of a draft and binds nothing.
RowStep ==
    \/ \E d \in DraftIds, r \in Revisions, h \in Hashes,
          u \in Uids \cup {0}, v \in Validities \cup {0} :
          UpdateTracking(d, r, h, u, v) \/ SetTracking(d, r, h, u, v)
    \/ \E d \in DraftIds, t \in Statuses : TransitionStatus(d, t)
    \/ \E d \in DraftIds : FailListed(d)

\* What a revision step does to the rows and the keys.
LEMMA RevisionStepEffect ==
    ASSUME StoreTypeOK, RevisionStep
    PROVE  \E d \in DraftIds, k \in Keys \cup {None}, op \in {CreateOp, UpdateOp} :
              /\ KeyFree(k)
              /\ WritesRow(d)
              /\ Bind(k, d, op)
              /\ UNCHANGED <<attachments, attIdem, sweep>>
<1>1. CASE \E d \in DraftIds, r \in Revisions, h \in Hashes, s \in Statuses,
              k \in Keys \cup {None} : Create(d, r, h, s, k)
  <2>1. PICK d \in DraftIds, r \in Revisions, h \in Hashes, s \in Statuses,
             k \in Keys \cup {None} : Create(d, r, h, s, k)
    BY <1>1
  <2>2. WritesRow(d)
    BY <2>1, CreateWrites
  <2> QED
    BY <2>1, <2>2 DEF Create
<1>2. CASE \E d \in DraftIds, r \in Revisions, h \in Hashes, s \in Statuses,
              u \in Uids \cup {0}, v \in Validities \cup {0}, k \in Keys \cup {None} :
              Update(d, r, h, s, u, v, k)
  <2>1. PICK d \in DraftIds, r \in Revisions, h \in Hashes, s \in Statuses,
             u \in Uids \cup {0}, v \in Validities \cup {0}, k \in Keys \cup {None} :
             Update(d, r, h, s, u, v, k)
    BY <1>2
  <2>2. WritesRow(d)
    BY <2>1, UpdateWrites
  <2> QED
    BY <2>1, <2>2 DEF Update
<1> QED
  BY <1>1, <1>2 DEF RevisionStep

\* What a row step does: one row, or only the listing of fail_incomplete.
LEMMA RowStepEffect ==
    ASSUME StoreTypeOK, RowStep
    PROVE  /\ UNCHANGED <<idem, attachments, attIdem>>
           /\ sweep' \in SUBSET DraftIds
           /\ UNCHANGED drafts \/ \E d \in DraftIds : WritesRow(d)
<1>1. CASE \E d \in DraftIds, r \in Revisions, h \in Hashes,
              u \in Uids \cup {0}, v \in Validities \cup {0} : UpdateTracking(d, r, h, u, v)
  <2>1. \E d \in DraftIds : WritesRow(d)
    BY <1>1, UpdateTrackingWrites
  <2>2. UNCHANGED <<idem, attachments, attIdem, sweep>>
    BY <1>1 DEF UpdateTracking
  <2> QED
    BY <2>1, <2>2 DEF StoreTypeOK
<1>2. CASE \E d \in DraftIds, r \in Revisions, h \in Hashes,
              u \in Uids \cup {0}, v \in Validities \cup {0} : SetTracking(d, r, h, u, v)
  <2>1. \E d \in DraftIds : WritesRow(d)
    BY <1>2, SetTrackingWrites
  <2>2. UNCHANGED <<idem, attachments, attIdem, sweep>>
    BY <1>2 DEF SetTracking
  <2> QED
    BY <2>1, <2>2 DEF StoreTypeOK
<1>3. CASE \E d \in DraftIds, t \in Statuses : TransitionStatus(d, t)
  BY <1>3, StatusWrites DEF TransitionStatus, StoreTypeOK
<1>4. CASE \E d \in DraftIds : FailListed(d)
  BY <1>4, StatusWrites DEF FailListed, StoreTypeOK
<1> QED
  BY <1>1, <1>2, <1>3, <1>4 DEF RowStep

\* The steps of the store, sorted by what they write.
LEMMA StoreSteps ==
    ASSUME [StoreNext]_storeVars
    PROVE  \/ RevisionStep
           \/ RowStep
           \/ \E d \in DraftIds : Delete(d)
           \/ \E k \in Keys, d \in DraftIds, op \in {CreateOp, UpdateOp} : BindIdempotency(k, d, op)
           \/ \E a \in AttachmentIds, k \in Keys : SaveAttachment(a, k)
           \/ ListIncomplete \/ AbandonSweep
           \/ UNCHANGED storeVars
BY DEF StoreNext, RevisionStep, RowStep

-----------------------------------------------------------------------------
(* Types *)

\* Empty tables are of the schema.
LEMMA TypeInit == StoreInit => StoreTypeOK
BY DEF StoreInit, StoreTypeOK

\* Every step of the store keeps the schema.
LEMMA TypeStep ==
    ASSUME StoreTypeOK, [StoreNext]_storeVars
    PROVE  StoreTypeOK'
<1>1. CASE RevisionStep
  <2>1. PICK d \in DraftIds, k \in Keys \cup {None}, op \in {CreateOp, UpdateOp} :
             /\ WritesRow(d)
             /\ Bind(k, d, op)
             /\ UNCHANGED <<attachments, attIdem, sweep>>
    BY <1>1, RevisionStepEffect
  <2>2. [draft |-> d, op |-> op] \in Binding
    BY DEF Binding
  <2>3. idem' \in [Keys -> Binding \cup {Unbound}]
    BY <2>1, <2>2 DEF Bind, StoreTypeOK
  <2> QED
    BY <2>1, <2>3 DEF WritesRow, StoreTypeOK
<1>2. CASE RowStep
  BY <1>2, RowStepEffect DEF WritesRow, StoreTypeOK
<1>3. CASE \E d \in DraftIds : Delete(d)
  BY <1>3 DEF Delete, StoreTypeOK
<1>4. CASE \E k \in Keys, d \in DraftIds, op \in {CreateOp, UpdateOp} : BindIdempotency(k, d, op)
  <2>1. PICK k \in Keys, d \in DraftIds, op \in {CreateOp, UpdateOp} : BindIdempotency(k, d, op)
    BY <1>4
  <2>2. [draft |-> d, op |-> op] \in Binding
    BY DEF Binding
  <2> QED
    BY <2>1, <2>2 DEF BindIdempotency, Bind, StoreTypeOK
<1>5. CASE \E a \in AttachmentIds, k \in Keys : SaveAttachment(a, k)
  <2>1. PICK a \in AttachmentIds, k \in Keys : SaveAttachment(a, k)
    BY <1>5
  <2>2. [attachment |-> a, op |-> AttachOp] \in AttachmentBinding
    BY DEF AttachmentBinding
  <2> QED
    BY <2>1, <2>2 DEF SaveAttachment, StoreTypeOK
<1>6. CASE ListIncomplete \/ AbandonSweep
  BY <1>6 DEF ListIncomplete, AbandonSweep, StoreTypeOK
<1>7. CASE UNCHANGED storeVars
  BY <1>7 DEF storeVars, StoreTypeOK
<1> QED
  BY <1>1, <1>2, <1>3, <1>4, <1>5, <1>6, <1>7, StoreSteps

\* Every table holds rows of its schema, in every state of every behaviour.
THEOREM StoreTypeCorrect == StoreSpec => []StoreTypeOK
BY TypeInit, TypeStep, PTL DEF StoreSpec

-----------------------------------------------------------------------------
(* Keys *)

\* A binding is not the mark of an unbound key.
LEMMA BindingsAreBound ==
    /\ \A d \in DraftIds : \A op : [draft |-> d, op |-> op] # Unbound
    /\ Unbound \notin Binding
    /\ UnboundAttachment \notin AttachmentBinding
BY DataAssumption, StoreAssumption DEF Binding, Unbound, AttachmentBinding, UnboundAttachment

\* A key of one table is in use in that table only.  The inductive step needs
\* the guard KeyFree of every action that inserts a key, and nothing else.
LEMMA NamespaceStep ==
    ASSUME StoreTypeOK, OneNamespace, [StoreNext]_storeVars
    PROVE  OneNamespace'
<1>1. CASE RevisionStep
  <2>1. PICK d \in DraftIds, k \in Keys \cup {None}, op \in {CreateOp, UpdateOp} :
             KeyFree(k) /\ Bind(k, d, op) /\ UNCHANGED attIdem
    BY <1>1, RevisionStepEffect
  <2> QED
    BY <2>1 DEF KeyFree, Bind, OneNamespace, StoreTypeOK
<1>2. CASE RowStep
  BY <1>2, RowStepEffect DEF OneNamespace
<1>3. CASE \E d \in DraftIds : Delete(d)
  BY <1>3 DEF Delete, OneNamespace
<1>4. CASE \E k \in Keys, d \in DraftIds, op \in {CreateOp, UpdateOp} : BindIdempotency(k, d, op)
  BY <1>4, StoreAssumption DEF BindIdempotency, KeyFree, Bind, OneNamespace, StoreTypeOK
<1>5. CASE \E a \in AttachmentIds, k \in Keys : SaveAttachment(a, k)
  BY <1>5, StoreAssumption DEF SaveAttachment, KeyFree, OneNamespace, StoreTypeOK
<1>6. CASE ListIncomplete \/ AbandonSweep
  BY <1>6 DEF ListIncomplete, AbandonSweep, OneNamespace
<1>7. CASE UNCHANGED storeVars
  BY <1>7 DEF storeVars, OneNamespace
<1> QED
  BY <1>1, <1>2, <1>3, <1>4, <1>5, <1>6, <1>7, StoreSteps

\* A key never answers for a draft and for an attachment.
THEOREM NamespacesAreDisjoint == StoreSpec => []OneNamespace
<1>1. StoreInit => OneNamespace
  BY DEF StoreInit, OneNamespace
<1>2. StoreTypeOK /\ OneNamespace /\ [StoreNext]_storeVars => OneNamespace'
  BY NamespaceStep
<1> QED
  BY <1>1, <1>2, StoreTypeCorrect, PTL DEF StoreSpec
\* A write of one row makes no row disappear.
LEMMA WritesKeepRows ==
    ASSUME NEW d \in DraftIds, WritesRow(d), NEW e \in DraftIds, Present(e) \/ e = d
    PROVE  Present(e)'
BY NoDraftIsNoRecord DEF WritesRow, Present

\* A bound key leads to a row.  A new binding is made together with its row or
\* under the guard that the row exists; only Delete removes a row, and it clears
\* the keys of that row.
LEMMA ResolutionStep ==
    ASSUME StoreTypeOK, BindingsResolve, [StoreNext]_storeVars
    PROVE  BindingsResolve'
<1> USE DEF BindingsResolve
<1>0. \A k \in Keys : idem[k] # Unbound => idem[k] \in Binding /\ idem[k].draft \in DraftIds
  BY DEF StoreTypeOK, Binding
<1>1. CASE RevisionStep
  <2>1. PICK d \in DraftIds, k \in Keys \cup {None}, op \in {CreateOp, UpdateOp} :
             /\ WritesRow(d)
             /\ Bind(k, d, op)
             /\ UNCHANGED <<attachments, attIdem>>
    BY <1>1, RevisionStepEffect
  <2>2. ASSUME NEW j \in Keys, idem'[j] # Unbound
        PROVE  Present(idem[j].draft)'
    <3>1. CASE j = k
      <4>1. idem'[j].draft = d
        BY <2>1, <3>1, StoreAssumption DEF Bind, StoreTypeOK
      <4> QED
        BY <2>1, <4>1, WritesKeepRows DEF Present
    <3>2. CASE j # k
      <4>1. idem'[j] = idem[j]
        BY <2>1, <3>2 DEF Bind, StoreTypeOK
      <4>2. idem[j].draft \in DraftIds /\ Present(idem[j].draft)
        BY <2>2, <4>1, <1>0
      <4> QED
        BY <2>1, <4>1, <4>2, WritesKeepRows DEF Present
    <3> QED
      BY <3>1, <3>2
  <2> QED
    BY <2>1, <2>2
<1>2. CASE RowStep
  <2>1. \A e \in DraftIds : Present(e) => Present(e)'
    BY <1>2, RowStepEffect, WritesKeepRows DEF Present
  <2> QED
    BY <1>2, RowStepEffect, <2>1, <1>0 DEF Present
<1>3. CASE \E d \in DraftIds : Delete(d)
  <2>1. PICK d \in DraftIds : Delete(d)
    BY <1>3
  <2>2. ASSUME NEW j \in Keys, idem'[j] # Unbound
        PROVE  Present(idem[j].draft)'
    <3>1. idem'[j] = idem[j] /\ idem[j].draft # d
      BY <2>1, <2>2 DEF Delete
    <3>2. idem[j].draft \in DraftIds /\ Present(idem[j].draft)
      BY <2>2, <3>1, <1>0
    <3> QED
      BY <2>1, <3>1, <3>2 DEF Delete, Present, StoreTypeOK
  <2> QED
    BY <2>1, <2>2 DEF Delete
<1>4. CASE \E k \in Keys, d \in DraftIds, op \in {CreateOp, UpdateOp} : BindIdempotency(k, d, op)
  <2>1. PICK k \in Keys, d \in DraftIds, op \in {CreateOp, UpdateOp} : BindIdempotency(k, d, op)
    BY <1>4
  <2>2. ASSUME NEW j \in Keys, idem'[j] # Unbound
        PROVE  Present(idem[j].draft)'
    <3>1. CASE j = k
      BY <2>1, <3>1, StoreAssumption DEF BindIdempotency, Bind, Present, StoreTypeOK
    <3>2. CASE j # k
      BY <2>1, <2>2, <3>2 DEF BindIdempotency, Bind, Present, StoreTypeOK
    <3> QED
      BY <3>1, <3>2
  <2> QED
    BY <2>1, <2>2 DEF BindIdempotency
<1>5. CASE \E a \in AttachmentIds, k \in Keys : SaveAttachment(a, k)
  <2>1. PICK a \in AttachmentIds, k \in Keys : SaveAttachment(a, k)
    BY <1>5
  <2>2. ASSUME NEW j \in Keys, attIdem'[j] # UnboundAttachment
        PROVE  attIdem'[j].attachment \in attachments'
    BY <2>1, <2>2 DEF SaveAttachment, StoreTypeOK
  <2> QED
    BY <2>1, <2>2 DEF SaveAttachment, Present
<1>6. CASE ListIncomplete \/ AbandonSweep
  BY <1>6 DEF ListIncomplete, AbandonSweep, Present
<1>7. CASE UNCHANGED storeVars
  BY <1>7 DEF storeVars, Present
<1> QED
  BY <1>1, <1>2, <1>3, <1>4, <1>5, <1>6, <1>7, StoreSteps

\* A replay is never "not found": a bound key leads to a row, also after delete.
THEOREM BindingsAlwaysResolve == StoreSpec => []BindingsResolve
<1>1. StoreInit => BindingsResolve
  BY DEF StoreInit, BindingsResolve
<1>2. StoreTypeOK /\ BindingsResolve /\ [StoreNext]_storeVars => BindingsResolve'
  BY ResolutionStep
<1> QED
  BY <1>1, <1>2, StoreTypeCorrect, PTL DEF StoreSpec

-----------------------------------------------------------------------------
(* Histories *)

\* A binding is redirected by no step, and cleared only by the deletion of its
\* draft.
THEOREM BindingsStayFinal == StoreSpec => BindingsAreFinal
<1> DEFINE Final ==
      \A k \in Keys :
          /\ idem[k] # Unbound =>
                \/ idem'[k] = idem[k]
                \/ idem'[k] = Unbound /\ drafts'[idem[k].draft] = NoDraft
          /\ attIdem[k] # UnboundAttachment => attIdem'[k] = attIdem[k]
<1>1. ASSUME StoreTypeOK, [StoreNext]_storeVars
      PROVE  Final
  <2>1. CASE RevisionStep
    BY <1>1, <2>1, RevisionStepEffect DEF KeyFree, Bind, StoreTypeOK
  <2>2. CASE RowStep
    BY <1>1, <2>2, RowStepEffect
  <2>3. CASE \E d \in DraftIds : Delete(d)
    BY <1>1, <2>3 DEF Delete, StoreTypeOK
  <2>4. CASE \E k \in Keys, d \in DraftIds, op \in {CreateOp, UpdateOp} : BindIdempotency(k, d, op)
    BY <1>1, <2>4, StoreAssumption DEF BindIdempotency, KeyFree, Bind, StoreTypeOK
  <2>5. CASE \E a \in AttachmentIds, k \in Keys : SaveAttachment(a, k)
    BY <1>1, <2>5, StoreAssumption DEF SaveAttachment, KeyFree, StoreTypeOK
  <2>6. CASE ListIncomplete \/ AbandonSweep
    BY <2>6 DEF ListIncomplete, AbandonSweep
  <2>7. CASE UNCHANGED storeVars
    BY <2>7 DEF storeVars
  <2> QED
    BY <1>1, <2>1, <2>2, <2>3, <2>4, <2>5, <2>6, <2>7, StoreSteps
<1> QED
  BY <1>1, StoreTypeCorrect, PTL DEF StoreSpec, BindingsAreFinal
\* What every step does to a draft that was there before and is there after.
MovesOn(d) ==
    /\ drafts'[d].revision >= drafts[d].revision
    /\ drafts'[d].hash # drafts[d].hash => drafts'[d].revision > drafts[d].revision
    /\ \/ drafts'[d].status = drafts[d].status
       \/ CanTransition(drafts[d].status, drafts'[d].status)

\* Revisions are numbers, so that they can be compared.
LEMMA RevisionsAreNumbers ==
    ASSUME StoreTypeOK
    PROVE  \A d \in DraftIds : Present(d) => drafts[d].revision \in Nat
BY PresentIsRecord, DataAssumption DEF DraftRecord, Revisions

\* A change of the status alone moves the draft on.
LEMMA StatusMovesOn ==
    ASSUME StoreTypeOK,
           NEW d \in DraftIds, NEW t, Present(d), CanTransition(drafts[d].status, t),
           drafts' = [drafts EXCEPT ![d].status = t],
           NEW e \in DraftIds, Present(e)
    PROVE  MovesOn(e)
<1>1. drafts[d] \in DraftRecord /\ drafts[e].revision \in Nat
  BY PresentIsRecord, RevisionsAreNumbers
<1>2. CASE e = d
  <2>1. drafts'[d] = [drafts[d] EXCEPT !.status = t]
    BY DEF StoreTypeOK
  <2> QED
    BY <1>1, <1>2, <2>1 DEF MovesOn, DraftRecord
<1>3. CASE e # d
  <2>1. drafts'[e] = drafts[e]
    BY <1>3 DEF StoreTypeOK
  <2> QED
    BY <1>1, <2>1 DEF MovesOn
<1> QED
  BY <1>2, <1>3

\* Every step moves the drafts that stay along: no lower revision, no other content
\* under the same revision, no status outside the automaton.
LEMMA DraftsMoveOn ==
    ASSUME StoreTypeOK, [StoreNext]_storeVars,
           NEW e \in DraftIds, Present(e), Present(e)'
    PROVE  MovesOn(e)
<1>0. drafts[e].revision \in Nat /\ drafts[e] \in DraftRecord
  BY RevisionsAreNumbers, PresentIsRecord
<1>1. ASSUME UNCHANGED drafts
      PROVE  MovesOn(e)
  BY <1>0, <1>1 DEF MovesOn
<1>2. CASE \E d \in DraftIds, r \in Revisions, h \in Hashes, s \in Statuses,
              k \in Keys \cup {None} : Create(d, r, h, s, k)
  <2>1. PICK d \in DraftIds, r \in Revisions, h \in Hashes, s \in Statuses,
             k \in Keys \cup {None} : Create(d, r, h, s, k)
    BY <1>2
  <2>2. drafts'[e] = drafts[e]
    BY <2>1 DEF Create, StoreTypeOK
  <2> QED
    BY <1>0, <2>2 DEF MovesOn
<1>3. CASE \E d \in DraftIds, r \in Revisions, h \in Hashes, s \in Statuses,
              u \in Uids \cup {0}, v \in Validities \cup {0}, k \in Keys \cup {None} :
              Update(d, r, h, s, u, v, k)
  <2>1. PICK d \in DraftIds, r \in Revisions, h \in Hashes, s \in Statuses,
             u \in Uids \cup {0}, v \in Validities \cup {0}, k \in Keys \cup {None} :
             Update(d, r, h, s, u, v, k)
    BY <1>3
  <2>2. r \in Nat
    BY DataAssumption DEF Revisions
  <2>3. CASE e = d
    <3>1. drafts'[e] = [status |-> s, revision |-> r, hash |-> h, uid |-> u, uidvalidity |-> v]
      BY <2>1, <2>3 DEF Update, StoreTypeOK
    <3> QED
      BY <1>0, <2>1, <2>2, <2>3, <3>1 DEF Update, MovesOn
  <2>4. CASE e # d
    <3>1. drafts'[e] = drafts[e]
      BY <2>1, <2>4 DEF Update, StoreTypeOK
    <3> QED
      BY <1>0, <3>1 DEF MovesOn
  <2> QED
    BY <2>3, <2>4
<1>4. CASE \E d \in DraftIds, r \in Revisions, h \in Hashes,
              u \in Uids \cup {0}, v \in Validities \cup {0} : UpdateTracking(d, r, h, u, v)
  <2>1. PICK d \in DraftIds, r \in Revisions, h \in Hashes,
             u \in Uids \cup {0}, v \in Validities \cup {0} : UpdateTracking(d, r, h, u, v)
    BY <1>4
  <2>2. r \in Nat
    BY DataAssumption DEF Revisions
  <2>3. CASE e = d
    <3>1. drafts'[e] = [drafts[e] EXCEPT !.revision = r, !.hash = h, !.uid = u, !.uidvalidity = v]
      BY <2>1, <2>3 DEF UpdateTracking, StoreTypeOK
    <3>2. drafts'[e].revision = r /\ drafts'[e].status = drafts[e].status
      BY <1>0, <3>1 DEF DraftRecord
    <3> QED
      BY <1>0, <2>1, <2>2, <2>3, <3>2 DEF UpdateTracking, MovesOn
  <2>4. CASE e # d
    <3>1. drafts'[e] = drafts[e]
      BY <2>1, <2>4 DEF UpdateTracking, StoreTypeOK
    <3> QED
      BY <1>0, <3>1 DEF MovesOn
  <2> QED
    BY <2>3, <2>4
<1>5. CASE \E d \in DraftIds, r \in Revisions, h \in Hashes,
              u \in Uids \cup {0}, v \in Validities \cup {0} : SetTracking(d, r, h, u, v)
  <2>1. PICK d \in DraftIds, r \in Revisions, h \in Hashes,
             u \in Uids \cup {0}, v \in Validities \cup {0} : SetTracking(d, r, h, u, v)
    BY <1>5
  <2>2. CASE e = d
    <3>1. drafts'[e] = [drafts[e] EXCEPT !.uid = u, !.uidvalidity = v]
      BY <2>1, <2>2 DEF SetTracking, StoreTypeOK
    <3>2. /\ drafts'[e].revision = drafts[e].revision
          /\ drafts'[e].status = drafts[e].status
          /\ drafts'[e].hash = drafts[e].hash
      BY <1>0, <3>1 DEF DraftRecord
    <3> QED
      BY <1>0, <3>2 DEF MovesOn
  <2>3. CASE e # d
    <3>1. drafts'[e] = drafts[e]
      BY <2>1, <2>3 DEF SetTracking, StoreTypeOK
    <3> QED
      BY <1>0, <3>1 DEF MovesOn
  <2> QED
    BY <2>2, <2>3
<1>6. CASE \E d \in DraftIds, t \in Statuses : TransitionStatus(d, t)
  BY <1>6, StatusMovesOn DEF TransitionStatus
<1>7. CASE \E d \in DraftIds : FailListed(d)
  BY <1>1, <1>7, StatusMovesOn DEF FailListed
<1>8. CASE \E d \in DraftIds : Delete(d)
  <2>1. drafts'[e] = drafts[e]
    BY <1>8 DEF Delete, Present, StoreTypeOK
  <2> QED
    BY <1>0, <2>1 DEF MovesOn
<1>9. CASE UNCHANGED drafts
  BY <1>1, <1>9
<1> QED
  BY <1>2, <1>3, <1>4, <1>5, <1>6, <1>7, <1>8, <1>9
     DEF StoreNext, BindIdempotency, SaveAttachment, ListIncomplete, AbandonSweep, storeVars

\* A stored revision never goes back, and other content is a higher revision.
THEOREM RevisionsStayImmutable == StoreSpec => RevisionsAreImmutable
<1>1. ASSUME StoreTypeOK, [StoreNext]_storeVars
      PROVE  \A d \in DraftIds :
                Present(d) /\ Present(d)' =>
                    /\ drafts'[d].revision >= drafts[d].revision
                    /\ drafts'[d].hash # drafts[d].hash =>
                          drafts'[d].revision > drafts[d].revision
  BY <1>1, DraftsMoveOn DEF MovesOn
<1> QED
  BY <1>1, StoreTypeCorrect, PTL DEF StoreSpec, RevisionsAreImmutable

\* Whatever method writes it, a status moves along the automaton or not at all.
THEOREM StatusesFollowAutomaton == StoreSpec => StatusFollowsAutomaton
<1>1. ASSUME StoreTypeOK, [StoreNext]_storeVars
      PROVE  \A d \in DraftIds :
                Present(d) /\ Present(d)' =>
                    \/ drafts'[d].status = drafts[d].status
                    \/ CanTransition(drafts[d].status, drafts'[d].status)
  BY <1>1, DraftsMoveOn DEF MovesOn
<1> QED
  BY <1>1, StoreTypeCorrect, PTL DEF StoreSpec, StatusFollowsAutomaton
=============================================================================
