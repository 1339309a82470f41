-------------------------- MODULE DraftCopiesProofs --------------------------
(***************************************************************************)
(* Proofs about what DraftSync leaves in the drafts folder, for any number *)
(* of drafts, keys, revisions, UIDs and numberings, crashes, refused       *)
(* FETCHes and steps of the other client.  The inductive invariant comes   *)
(* in layers, each proved with those before it:                            *)
(*                                                                         *)
(*   the job agrees with the store                  (JobInv)               *)
(*   the keys of updates are counted                (KeysAgree)            *)
(*   the UIDs a job holds name what it takes them for   (UidInv)           *)
(*   a message is marked only beside one that stays     (CopiesInv)        *)
(*   the revisions that are there, the message of a synced draft           *)
(*                                                  (RevisionsInv)         *)
(*   nobody but another client makes a conflict     (ConflictsAgree)       *)
(*                                                                         *)
(* and with them the refinement of RevisionHandover, step by step.         *)
(***************************************************************************)
EXTENDS DraftSyncHandover, DraftSyncProofs

-----------------------------------------------------------------------------
(* The job and the store *)

\* The phases of _sync_conflict.
ConflictPhases == {"conflict_modified", "conflict_duplicate"}

\* The steps each phase has.
StepsAgree ==
    /\ phase \in {"idle", "down", "boot"} => step = "none"
    /\ phase \in {"stage", "failing"} => step = "status"
    /\ phase \in Lookups => step \in {"select", "search", "fetch", "append", "tracking"}
    /\ phase = "remove" => step \in {"store", "expunge"}
    /\ phase \in ConflictPhases => step \in {"status", "bind"}
    /\ step = "append" => phase \in {"look", "verify"}
    /\ step = "tracking" => phase \in {"summary", "record"}

\* What the store has of the draft a job works on, up to the job's last step.
JobAgrees ==
    /\ phase \in {"idle", "down", "boot"} => job = NoJob
    /\ job.op = CreateOp =>
          /\ Record.revision = 1 /\ Record.hash = job.hash
          /\ Record.status = IF phase = "stage" THEN "new" ELSE "staged"
    /\ job.op = UpdateOp =>
          /\ Record.revision + 1 = job.rev
          /\ IF phase \in ConflictPhases /\ step = "bind"
             THEN Record.status \in {"modified", "invalidated"}
             ELSE Record.status = "synced_to_gmx"
    /\ job.op = SummaryOp => Present(job.draft)

\* The phases in which a UID has been found, and the drafts that have one.
UidsAgree ==
    /\ phase \in {"replace", "remove"} \/ At("verify", "append") => prevUid \in Uids
    /\ phase \in {"remove", "final", "record"} \/ At("summary", "tracking") => newUid \in Uids
    /\ \A d \in DraftIds : drafts[d].status \in {"synced_to_gmx", "modified"} => drafts[d].uid # 0
    /\ At("record", "status") => Record.uid # 0

JobInv == StepsAgree /\ JobAgrees /\ UidsAgree

\* The requests a job can have.
LEMMA JobKinds ==
    ASSUME GatewayTypeOK
    PROVE  /\ job \in CreateJob <=> job.op = CreateOp
           /\ job \in UpdateJob <=> job.op = UpdateOp
           /\ job \in SummaryJob <=> job.op = SummaryOp
           /\ job = NoJob <=> job.op = "none"
           /\ job.op \in {CreateOp, UpdateOp, SummaryOp} => job.draft \in DraftIds
           /\ job.op = UpdateOp => job.rev \in Revisions /\ job.hash \in Hashes /\ job.key \in Keys
           /\ job.op = CreateOp => job.rev = 1 /\ job.hash \in Hashes /\ job.key \in Keys
           /\ job.op \in {CreateOp, UpdateOp, SummaryOp, "none"}
<1>1. job \in CreateJob \cup UpdateJob \cup SummaryJob \cup {NoJob}
  BY DEF GatewayTypeOK, Job
<1> QED
  BY <1>1 DEF CreateJob, UpdateJob, SummaryJob, NoJob, CreateOp, UpdateOp, SummaryOp

\* Which request a phase belongs to.
LEMMA JobPhases ==
    ASSUME GatewayOK
    PROVE  /\ phase \in {"stage", "look", "confirm"} => job.op = CreateOp
           /\ phase \in {"inspect", "verify", "replace", "remove", "final"} \cup ConflictPhases =>
                 job.op = UpdateOp
           /\ phase = "summary" => job.op = SummaryOp
           /\ phase = "record" => job.op = IF step = "update" THEN UpdateOp ELSE CreateOp
           /\ phase = "record" => step \in {"tracking", "status", "update"}
           /\ phase = "failing" => job.op \in {CreateOp, UpdateOp, SummaryOp}
BY JobKinds DEF GatewayOK, ControlOK, ConflictPhases, Job

\* What a step does to one row leaves the others alone and the row a record.
LEMMA StatusEffect ==
    ASSUME StoreTypeOK, NEW d \in DraftIds, NEW t, TransitionStatus(d, t)
    PROVE  /\ CanTransition(drafts[d].status, t)
           /\ drafts'[d] = [drafts[d] EXCEPT !.status = t]
           /\ drafts'[d].status = t
           /\ drafts'[d].revision = drafts[d].revision
           /\ drafts'[d].hash = drafts[d].hash
           /\ drafts'[d].uid = drafts[d].uid
           /\ drafts'[d].uidvalidity = drafts[d].uidvalidity
           /\ \A e \in DraftIds \ {d} : drafts'[e] = drafts[e]
           /\ Present(d) /\ Present(d)'
           /\ UNCHANGED <<idem, sweep>>
<1>1. drafts[d] \in DraftRecord
  BY PresentIsRecord DEF TransitionStatus
<1>2. drafts' = [drafts EXCEPT ![d] = [drafts[d] EXCEPT !.status = t]]
  BY DEF TransitionStatus, StoreTypeOK
<1>3. drafts'[d] = [drafts[d] EXCEPT !.status = t]
  BY <1>2 DEF StoreTypeOK
<1>4. t \in Statuses
  BY TransitionsStayInStatuses DEF TransitionStatus
<1>5. drafts'[d] \in DraftRecord
  BY <1>1, <1>3, <1>4 DEF DraftRecord
<1> QED
  BY <1>1, <1>2, <1>3, <1>5, NoDraftIsNoRecord DEF TransitionStatus, StoreTypeOK, DraftRecord, Present

\* set_tracking writes the UID and the numbering of one row.
LEMMA TrackingRow ==
    ASSUME StoreTypeOK, NEW d \in DraftIds, NEW r, NEW h, NEW u \in Uids \cup {0},
           NEW v \in Validities \cup {0}, SetTracking(d, r, h, u, v)
    PROVE  /\ drafts'[d].uid = u
           /\ drafts'[d].uidvalidity = v
           /\ drafts'[d].status = drafts[d].status
           /\ drafts'[d].revision = drafts[d].revision
           /\ drafts'[d].hash = drafts[d].hash
           /\ \A e \in DraftIds \ {d} : drafts'[e] = drafts[e]
           /\ Present(d) /\ Present(d)'
           /\ UNCHANGED <<idem, sweep>>
<1>1. drafts[d] \in DraftRecord
  BY PresentIsRecord DEF SetTracking
<1>2. drafts' = [drafts EXCEPT ![d] = [drafts[d] EXCEPT !.uid = u, !.uidvalidity = v]]
  BY DEF SetTracking, StoreTypeOK
<1>3. drafts'[d] = [drafts[d] EXCEPT !.uid = u, !.uidvalidity = v]
  BY <1>2 DEF StoreTypeOK
<1>4. drafts'[d] \in DraftRecord
  BY <1>1, <1>3 DEF DraftRecord
<1> QED
  BY <1>1, <1>2, <1>3, <1>4, NoDraftIsNoRecord DEF SetTracking, StoreTypeOK, DraftRecord, Present

\* update replaces the row.
LEMMA UpdateRow ==
    ASSUME StoreTypeOK, NEW d \in DraftIds, NEW r \in Revisions, NEW h \in Hashes, NEW s,
           NEW u, NEW v, NEW k, Update(d, r, h, s, u, v, k)
    PROVE  /\ drafts'[d] = [status |-> s, revision |-> r, hash |-> h, uid |-> u, uidvalidity |-> v]
           /\ \A e \in DraftIds \ {d} : drafts'[e] = drafts[e]
           /\ Present(d) /\ Present(d)'
           /\ UNCHANGED sweep
<1>1. drafts'[d] = [status |-> s, revision |-> r, hash |-> h, uid |-> u, uidvalidity |-> v]
  BY DEF Update, StoreTypeOK
<1>2. r # 0
  BY DEF Revisions
<1> QED
  BY <1>1, <1>2 DEF Update, StoreTypeOK, Present, NoDraft

\* create adds the row.
LEMMA CreateRow ==
    ASSUME StoreTypeOK, NEW d \in DraftIds, NEW h \in Hashes, NEW s, NEW k, Create(d, 1, h, s, k)
    PROVE  /\ drafts'[d] = [status |-> s, revision |-> 1, hash |-> h, uid |-> 0, uidvalidity |-> 0]
           /\ \A e \in DraftIds \ {d} : drafts'[e] = drafts[e]
           /\ ~Present(d) /\ Present(d)'
           /\ UNCHANGED sweep
<1>1. drafts'[d] = [status |-> s, revision |-> 1, hash |-> h, uid |-> 0, uidvalidity |-> 0]
  BY DEF Create, StoreTypeOK
<1> QED
  BY <1>1 DEF Create, StoreTypeOK, Present, NoDraft

\* fail_incomplete fails a draft it has listed or gives up.
LEMMA FailedRow ==
    ASSUME StoreTypeOK, NEW d \in DraftIds, FailListed(d)
    PROVE  /\ \A e \in DraftIds :
                 /\ drafts'[e].revision = drafts[e].revision
                 /\ drafts'[e].hash = drafts[e].hash
                 /\ drafts'[e].uid = drafts[e].uid
                 /\ drafts'[e].uidvalidity = drafts[e].uidvalidity
                 /\ Present(e) <=> Present(e)'
                 /\ \/ drafts'[e] = drafts[e]
                    \/ e = d /\ drafts'[e].status = "failed" /\ drafts[e].status \in Incomplete \cup {"synced_to_gmx"}
           /\ UNCHANGED idem
<1>1. CASE Present(d) /\ CanTransition(drafts[d].status, "failed")
  <2>1. drafts[d] \in DraftRecord
    BY <1>1, PresentIsRecord
  <2>2. drafts' = [drafts EXCEPT ![d] = [drafts[d] EXCEPT !.status = "failed"]]
    BY <1>1 DEF FailListed, StoreTypeOK
  <2>3. drafts'[d] = [drafts[d] EXCEPT !.status = "failed"]
    BY <2>2 DEF StoreTypeOK
  <2>4. drafts'[d] \in DraftRecord
    BY <2>1, <2>3 DEF DraftRecord, Statuses
  <2>5. \A e \in DraftIds \ {d} : drafts'[e] = drafts[e]
    BY <2>2 DEF StoreTypeOK
  <2>6. drafts[d].status \in Incomplete \cup {"synced_to_gmx"}
    BY <1>1 DEF CanTransition, Incomplete
  <2> QED
    BY <1>1, <2>1, <2>3, <2>4, <2>5, <2>6, NoDraftIsNoRecord DEF FailListed, DraftRecord, Present
<1>2. CASE ~(Present(d) /\ CanTransition(drafts[d].status, "failed"))
  BY <1>2 DEF FailListed, Present
<1> QED
  BY <1>1, <1>2

\* Every step leads to a step its phase has.
LEMMA StepsStep ==
    ASSUME GatewayOK, StepsAgree, [SyncNext]_vars
    PROVE  StepsAgree'
<1> USE DEF StepsAgree, GoTo, At, Seen, Lookups, ConflictPhases
<1>0. ASSUME Finish PROVE StepsAgree'
  BY <1>0 DEF Finish
<1>1. CASE Request
  BY <1>1 DEF Request, BeginCreate, BeginUpdate, BeginSummary
<1>2. CASE Lookup
  BY <1>2 DEF Lookup, Select, Search, Fetch
<1>3. CASE CreateStep
  BY <1>0, <1>3 DEF CreateStep, Stage, LookClear, AppendCreated, AppendRevision, CreateConflict,
     ConfirmCreated, TrackCreated, RecordCreated
<1>4. CASE UpdateStep
  BY <1>0, <1>4 DEF UpdateStep, Conflict, InspectInSync, VerifyPrevious, AppendUpdated, AppendRevision,
     ReplaceFound, ReplaceConflict, MarkDeleted, Expunge, SelectFinal, FinalFound, FinalConflict,
     RecordUpdated, RecordConflict, BindConflict, ConflictPhase
<1>5. CASE SummaryStep
  BY <1>0, <1>5 DEF SummaryStep, SummaryRefused, SummaryStatus, SummaryTracking
<1>6. CASE Unusable \/ Fail \/ FailJob \/ Crash \/ BootStep
  BY <1>0, <1>6 DEF Unusable, Fail, FailJob, Crash, BootStep, Boot, BootFail, Serve, gatewayVars
<1>7. CASE OtherClient \/ ServerRenumbers \/ UNCHANGED vars
  BY <1>7 DEF OtherClient, ServerRenumbers, vars, gatewayVars
<1> QED
  BY <1>1, <1>2, <1>3, <1>4, <1>5, <1>6, <1>7 DEF SyncNext, JobStep

\* A job that is over has nothing to agree with.
LEMMA JobOver ==
    ASSUME job' = NoJob
    PROVE  JobAgrees'
BY DEF JobAgrees, NoJob, CreateOp, UpdateOp, SummaryOp

\* A step that leaves the job and its row alone and is no border between the
\* statuses keeps the agreement.
LEMMA JobKept ==
    ASSUME GatewayTypeOK, JobAgrees, job' = job, job # NoJob,
           drafts'[job.draft].status = drafts[job.draft].status,
           drafts'[job.draft].revision = drafts[job.draft].revision,
           drafts'[job.draft].hash = drafts[job.draft].hash,
           Present(job.draft) => Present(job.draft)',
           phase' \notin {"idle", "down", "boot"},
           phase = "stage" <=> phase' = "stage",
           ~(phase \in ConflictPhases /\ step = "bind"), ~(phase' \in ConflictPhases /\ step' = "bind")
    PROVE  JobAgrees'
BY DEF JobAgrees, Record

\* What the store has of a draft a job works on is changed by the job alone.
LEMMA JobAgreesStep ==
    ASSUME StoreTypeOK, GatewayOK, StepsAgree, JobAgrees, [SyncNext]_vars
    PROVE  JobAgrees'
<1> USE DEF GoTo, At, Seen, lookupVars
<1>0. GatewayTypeOK /\ ConflictPhases = {"conflict_modified", "conflict_duplicate"}
  BY DEF GatewayOK, ConflictPhases
<1>a. phase \notin {"idle", "down", "boot"} => job # NoJob /\ job.draft \in DraftIds
  <2>1. phase \notin {"idle", "down", "boot"} => job.op \in {CreateOp, UpdateOp, SummaryOp}
    BY JobPhases DEF GatewayOK, GatewayTypeOK, ConflictPhases, Phases, Lookups
  <2> QED
    BY <1>0, <2>1, JobKinds DEF CreateOp, UpdateOp, SummaryOp
<1>1. CASE \E k \in Keys, d \in DraftIds, h \in Hashes : BeginCreate(k, d, h)
  <2>1. PICK k \in Keys, d \in DraftIds, h \in Hashes : BeginCreate(k, d, h)
    BY <1>1
  <2>2. drafts'[d] = [status |-> "new", revision |-> 1, hash |-> h, uid |-> 0, uidvalidity |-> 0]
    BY <2>1, CreateRow DEF BeginCreate
  <2> QED
    BY <2>1, <2>2 DEF BeginCreate, JobAgrees, Record, CreateOp, UpdateOp, SummaryOp
<1>2. CASE \E k \in Keys, d \in DraftIds, h \in Hashes : BeginUpdate(k, d, h)
  <2>1. PICK k \in Keys, d \in DraftIds, h \in Hashes : BeginUpdate(k, d, h)
    BY <1>2
  <2> QED
    BY <1>0, <2>1 DEF BeginUpdate, JobAgrees, Record, CreateOp, UpdateOp, SummaryOp, storeVars
<1>3. CASE \E d \in DraftIds : BeginSummary(d)
  BY <1>0, <1>3 DEF BeginSummary, JobAgrees, Record, CreateOp, UpdateOp, SummaryOp, storeVars, Present
<1>4. CASE Lookup \/ LookClear \/ AppendCreated \/ ConfirmCreated
  BY <1>0, <1>a, <1>4, JobKept DEF Lookup, Select, Search, Fetch, LookClear, AppendCreated, AppendRevision,
     ConfirmCreated, Lookups, storeVars, Present
<1>5. CASE Stage
  <2>1. job.op = CreateOp /\ job.draft \in DraftIds
    BY <1>0, <1>5, JobPhases, JobKinds DEF Stage
  <2> QED
    BY <1>5, <2>1, StatusEffect DEF Stage, JobAgrees, Record, CreateOp, UpdateOp, SummaryOp
<1>6. CASE TrackCreated
  <2>1. job.op = CreateOp /\ job.draft \in DraftIds /\ newUid \in Uids \cup {0} /\ sel \in Validities \cup {0}
    BY <1>0, <1>6, JobPhases, JobKinds DEF TrackCreated, GatewayTypeOK
  <2> QED
    BY <1>6, <2>1, TrackingRow DEF TrackCreated, JobAgrees, Record, CreateOp, UpdateOp, SummaryOp
<1>7. CASE UpdateStep /\ ~RecordUpdated /\ ~RecordConflict /\ ~BindConflict
  BY <1>0, <1>a, <1>7, JobKept DEF UpdateStep, Conflict, InspectInSync, InSync, VerifyPrevious, AppendUpdated,
     AppendRevision, ReplaceFound, ReplaceConflict, MarkDeleted, Expunge, SelectFinal, FinalFound,
     FinalConflict, storeVars, Present
<1>8. CASE RecordConflict
  <2>1. job.op = UpdateOp /\ job.draft \in DraftIds
    BY <1>0, <1>8, JobPhases, JobKinds DEF RecordConflict, ConflictPhase
  <2> QED
    BY <1>0, <1>8, <2>1, StatusEffect
       DEF RecordConflict, ConflictPhase, JobAgrees, Record, CreateOp, UpdateOp, SummaryOp
<1>9. CASE SummaryStatus
  <2>1. job.op = SummaryOp /\ job.draft \in DraftIds
    BY <1>0, <1>9, JobPhases, JobKinds DEF SummaryStatus
  <2> QED
    BY <1>9, <2>1, StatusEffect
       DEF SummaryStatus, JobAgrees, Record, CreateOp, UpdateOp, SummaryOp, storeVars, Present
<1>10. CASE \/ CreateConflict \/ RecordCreated \/ RecordUpdated \/ BindConflict
            \/ SummaryRefused \/ SummaryTracking \/ FailJob \/ Crash
  BY <1>10, JobOver DEF CreateConflict, RecordCreated, RecordUpdated, BindConflict, SummaryRefused,
     SummaryTracking, FailJob, Crash, Finish
<1>11. CASE Unusable \/ Fail
  BY <1>0, <1>a, <1>11, JobKept, JobPhases DEF Unusable, Fail, InSync, storeVars, Present, JobAgrees, Record, Lookups
<1>12. CASE BootStep
  BY <1>12, JobOver DEF BootStep, Boot, BootFail, Serve, gatewayVars, JobAgrees
<1>13. CASE OtherClient \/ ServerRenumbers \/ UNCHANGED vars
  BY <1>13 DEF OtherClient, ServerRenumbers, vars, storeVars, gatewayVars, JobAgrees, Record, Present
<1> QED
  BY <1>1, <1>2, <1>3, <1>4, <1>5, <1>6, <1>7, <1>8, <1>9, <1>10, <1>11, <1>12, <1>13
     DEF SyncNext, Request, JobStep, CreateStep, UpdateStep, SummaryStep

\* A UID a job goes on with is one that a FETCH returned.
LEMMA FoundUids ==
    ASSUME GatewayTypeOK
    PROVE  \A m \in found : m.uid \in Uids
BY DEF GatewayTypeOK, ServerDraft

\* A step that keeps the UIDs the job has found and the rows' UIDs.
LEMMA UidsKept ==
    ASSUME UidsAgree,
           prevUid' = prevUid \/ prevUid' \in Uids, newUid' = newUid \/ newUid' \in Uids,
           \/ phase' \notin {"replace", "remove"} /\ ~At("verify", "append")'
           \/ prevUid' \in Uids
           \/ phase \in {"replace", "remove"} \/ At("verify", "append"),
           \/ phase' \notin {"remove", "final", "record"} /\ ~At("summary", "tracking")'
           \/ newUid' \in Uids
           \/ phase \in {"remove", "final", "record"} \/ At("summary", "tracking"),
           \A d \in DraftIds :
               /\ drafts'[d].uid = drafts[d].uid
               /\ drafts'[d].status \in {"synced_to_gmx", "modified"} =>
                     drafts[d].status \in {"synced_to_gmx", "modified"},
           ~At("record", "status")'
    PROVE  UidsAgree'
BY DEF UidsAgree

\* A draft the store calls synced has been seen under a UID.
LEMMA UidsAgreeStep ==
    ASSUME StoreTypeOK, GatewayOK, StepsAgree, UidsAgree, [SyncNext]_vars
    PROVE  UidsAgree'
<1> USE DEF GoTo, At, Seen, lookupVars
<1>0. /\ GatewayTypeOK /\ ConflictPhases = {"conflict_modified", "conflict_duplicate"}
      /\ prevUid \in Uids \cup {0} /\ newUid \in Uids \cup {0}
  BY DEF GatewayOK, ConflictPhases, GatewayTypeOK
<1>1. CASE Request
  <2>1. CASE \E k \in Keys, d \in DraftIds, h \in Hashes : BeginCreate(k, d, h)
    <3>1. PICK k \in Keys, d \in DraftIds, h \in Hashes : BeginCreate(k, d, h)
      BY <2>1
    <3>2. Create(d, 1, h, "new", k)
      BY <3>1 DEF BeginCreate
    <3>3. /\ drafts'[d] = [status |-> "new", revision |-> 1, hash |-> h, uid |-> 0, uidvalidity |-> 0]
          /\ \A e \in DraftIds \ {d} : drafts'[e] = drafts[e]
      BY <3>2, CreateRow
    <3> QED
      BY <3>1, <3>3 DEF BeginCreate, UidsAgree
  <2>2. CASE ~\E k \in Keys, d \in DraftIds, h \in Hashes : BeginCreate(k, d, h)
    BY <1>1, <2>2, UidsKept DEF Request, BeginUpdate, BeginSummary, storeVars
  <2> QED
    BY <2>1, <2>2
<1>2. CASE Lookup
  BY <1>2 DEF Lookup, Select, Search, Fetch, storeVars, UidsAgree, StepsAgree
<1>3. CASE LookClear \/ AppendCreated \/ ConfirmCreated
  BY <1>0, <1>3, UidsKept, FoundUids DEF LookClear, AppendCreated, AppendRevision, ConfirmCreated, storeVars
<1>4. ASSUME NEW d \in DraftIds, NEW t, TransitionStatus(d, t),
             t \in {"synced_to_gmx", "modified"} => drafts[d].uid # 0
      PROVE  \A e \in DraftIds : drafts'[e].status \in {"synced_to_gmx", "modified"} => drafts'[e].uid # 0
  <2>1. /\ drafts'[d].status = t /\ drafts'[d].uid = drafts[d].uid
        /\ \A e \in DraftIds \ {d} : drafts'[e] = drafts[e]
    BY <1>4, StatusEffect
  <2> QED
    BY <1>4, <2>1 DEF UidsAgree
<1>5. CASE Stage
  <2>1. job.draft \in DraftIds
    BY <1>0, <1>5, JobPhases, JobKinds DEF Stage
  <2> QED
    BY <1>5, <2>1, <1>4 DEF Stage, UidsAgree
<1>6. CASE CreateConflict \/ RecordCreated
  <2>1. job.draft \in DraftIds
    BY <1>0, <1>6, JobPhases, JobKinds DEF CreateConflict, RecordCreated
  <2> QED
    BY <1>6, <2>1, <1>4 DEF CreateConflict, RecordCreated, Finish, UidsAgree, Record
<1>7. CASE TrackCreated
  <2>1. job.draft \in DraftIds /\ newUid \in Uids /\ sel \in Validities \cup {0}
    BY <1>0, <1>7, JobPhases, JobKinds DEF TrackCreated, GatewayTypeOK, UidsAgree
  <2>2. drafts'[job.draft].uid = newUid /\ \A e \in DraftIds \ {job.draft} : drafts'[e] = drafts[e]
    <3>1. SetTracking(job.draft, job.rev, job.hash, newUid, sel)
      BY <1>7 DEF TrackCreated
    <3> QED
      BY <2>1, <3>1, TrackingRow
  <2>3. newUid # 0
    BY <2>1 DEF Uids
  <2> QED
    BY <1>7, <2>1, <2>2, <2>3 DEF TrackCreated, UidsAgree, Record
<1>8. CASE UpdateStep /\ ~RecordUpdated /\ ~RecordConflict
  <2>1. CASE Conflict \/ InspectInSync \/ ReplaceConflict \/ FinalConflict \/ BindConflict
    BY <2>1 DEF Conflict, InspectInSync, ReplaceConflict, FinalConflict, BindConflict, BindIdempotency,
       Finish, storeVars, UidsAgree
  <2>2. CASE VerifyPrevious \/ ReplaceFound \/ FinalFound
    BY <2>2, FoundUids, <1>0 DEF VerifyPrevious, ReplaceFound, FinalFound, storeVars, UidsAgree
  <2>3. CASE AppendUpdated \/ MarkDeleted \/ Expunge \/ SelectFinal
    BY <2>3 DEF AppendUpdated, AppendRevision, MarkDeleted, Expunge, SelectFinal, storeVars, UidsAgree
  <2> QED
    BY <1>8, <2>1, <2>2, <2>3 DEF UpdateStep
<1>9. CASE RecordUpdated
  <2>1. job.op = UpdateOp /\ job.draft \in DraftIds /\ job.rev \in Revisions /\ job.hash \in Hashes
    BY <1>0, <1>9, JobPhases, JobKinds DEF RecordUpdated
  <2>2. drafts'[job.draft].uid = newUid /\ \A e \in DraftIds \ {job.draft} : drafts'[e] = drafts[e]
    <3>1. Update(job.draft, job.rev, job.hash, "synced_to_gmx", newUid, sel, job.key)
      BY <1>9 DEF RecordUpdated
    <3>2. drafts'[job.draft] = [status |-> "synced_to_gmx", revision |-> job.rev, hash |-> job.hash,
                                uid |-> newUid, uidvalidity |-> sel]
          /\ \A e \in DraftIds \ {job.draft} : drafts'[e] = drafts[e]
      BY <2>1, <3>1, UpdateRow
    <3> QED
      BY <3>2
  <2>3. newUid # 0
    BY <1>9 DEF Uids, UidsAgree, RecordUpdated
  <2> QED
    BY <1>9, <2>1, <2>2, <2>3 DEF RecordUpdated, Finish, UidsAgree
<1>10. CASE RecordConflict
  <2>1. job.draft \in DraftIds
    BY <1>0, <1>10, JobPhases, JobKinds DEF RecordConflict, ConflictPhase
  <2>2. PICK t \in {"modified", "invalidated"} : TransitionStatus(job.draft, t)
    BY <1>10 DEF RecordConflict
  <2>3. t = "modified" => drafts[job.draft].uid # 0
    BY <2>1, <2>2 DEF TransitionStatus, CanTransition, UidsAgree
  <2>4. \A e \in DraftIds : drafts'[e].status \in {"synced_to_gmx", "modified"} => drafts'[e].uid # 0
    BY <1>4, <2>1, <2>2, <2>3
  <2> QED
    BY <1>10, <2>4 DEF RecordConflict, ConflictPhase, UidsAgree
<1>11. CASE SummaryStep
  <2>1. job.op = SummaryOp /\ job.draft \in DraftIds
    BY <1>0, <1>11, JobPhases, JobKinds DEF SummaryStep, SummaryRefused, SummaryStatus, SummaryTracking
  <2>2. CASE SummaryRefused
    BY <2>1, <2>2, <1>4 DEF SummaryRefused, Finish, UidsAgree, storeVars
  <2>3. CASE SummaryStatus
    BY <2>1, <2>3, <1>0, <1>4, FoundUids DEF SummaryStatus, UidsAgree, storeVars, Record
  <2>4. CASE SummaryTracking
    <3>1. newUid \in Uids /\ newUid # 0 /\ sel \in Validities \cup {0}
      BY <1>0, <2>4 DEF SummaryTracking, UidsAgree, GatewayTypeOK, Uids
    <3>2. drafts'[job.draft].uid = newUid /\ \A e \in DraftIds \ {job.draft} : drafts'[e] = drafts[e]
      BY <2>1, <2>4, <3>1, TrackingRow DEF SummaryTracking
    <3> QED
      BY <2>1, <2>4, <3>1, <3>2 DEF SummaryTracking, Finish, UidsAgree
  <2> QED
    BY <1>11, <2>2, <2>3, <2>4 DEF SummaryStep
<1>12. CASE Unusable \/ Fail \/ Crash
  <2>1. UNCHANGED drafts /\ phase' \in {"failing", "down"}
    BY <1>12 DEF Unusable, Fail, Crash, AbandonSweep, storeVars
  <2> QED
    BY <2>1 DEF UidsAgree
<1>13. CASE FailJob
  <2>1. job.draft \in DraftIds
    BY <1>0, <1>13, JobPhases, JobKinds DEF FailJob
  <2> QED
    BY <1>13, <2>1, <1>4 DEF FailJob, Finish, UidsAgree, storeVars
<1>14. CASE Boot \/ Serve
  BY <1>14, UidsKept DEF Boot, Serve, ListIncomplete, storeVars
<1>15. CASE \E d \in DraftIds : BootFail(d)
  BY <1>15, FailedRow DEF BootFail, gatewayVars, UidsAgree
<1>16. CASE OtherClient \/ ServerRenumbers \/ UNCHANGED vars
  BY <1>16 DEF OtherClient, ServerRenumbers, vars, storeVars, gatewayVars, UidsAgree, Record
<1> QED
  BY <1>1, <1>2, <1>3, <1>5, <1>6, <1>7, <1>8, <1>9, <1>10, <1>11, <1>12, <1>13, <1>14, <1>15, <1>16
     DEF SyncNext, JobStep, CreateStep, BootStep

\* The job, its draft and the UIDs it has found agree throughout.
LEMMA JobAlwaysAgrees == SyncSpec => []JobInv
<1>1. SyncInit => JobInv
  BY DEF SyncInit, StoreInit, JobInv, StepsAgree, JobAgrees, UidsAgree, NoJob, NoDraft, At, Lookups,
     ConflictPhases, CreateOp, UpdateOp, SummaryOp
<1>2. SyncTypeInv /\ JobInv /\ [SyncNext]_vars => JobInv'
  BY StepsStep, JobAgreesStep, UidsAgreeStep DEF SyncTypeInv, SyncTypeOK, GatewayOK, JobInv
<1> QED
  BY <1>1, <1>2, SyncTypes, PTL DEF SyncSpec

-----------------------------------------------------------------------------
(* Rows *)

\* A row keeps its revision and its content; its status stays or moves on.
SameContent(d) ==
    /\ Present(d)' <=> Present(d)
    /\ drafts'[d].revision = drafts[d].revision
    /\ drafts'[d].hash = drafts[d].hash
    /\ drafts'[d].status = drafts[d].status \/ CanTransition(drafts[d].status, drafts'[d].status)

\* A row keeps where its message was seen.
SameTracking(d) == drafts'[d].uid = drafts[d].uid /\ drafts'[d].uidvalidity = drafts[d].uidvalidity

StartsCreate == \E k \in Keys, d \in DraftIds, h \in Hashes : BeginCreate(k, d, h)

\* The steps that write no row.
LEMMA RowsUntouched ==
    ASSUME UNCHANGED drafts
    PROVE  \A d \in DraftIds : drafts'[d] = drafts[d] /\ SameContent(d) /\ SameTracking(d)
BY DEF SameContent, SameTracking, Present

\* A change of the status of the job's draft.
LEMMA JobStatusRows ==
    ASSUME StoreTypeOK, GatewayOK, Stage \/ CreateConflict \/ RecordCreated \/ RecordConflict
                        \/ SummaryRefused \/ SummaryStatus \/ FailJob
    PROVE  /\ \A d \in DraftIds : SameContent(d) /\ SameTracking(d)
           /\ \A d \in DraftIds \ {job.draft} : drafts'[d] = drafts[d]
           /\ idem' = idem
<1>1. PICK d \in DraftIds : d = job.draft
  BY JobPhases, JobKinds DEF GatewayOK, Stage, CreateConflict, RecordCreated, RecordConflict, ConflictPhase,
     SummaryRefused, SummaryStatus, FailJob, ConflictPhases, At, Seen
<1>2. CASE UNCHANGED storeVars
  BY <1>2, RowsUntouched DEF storeVars
<1>3. ASSUME NEW t, TransitionStatus(d, t)
      PROVE  /\ \A e \in DraftIds : SameContent(e) /\ SameTracking(e)
             /\ \A e \in DraftIds \ {d} : drafts'[e] = drafts[e]
             /\ idem' = idem
  <2>1. /\ CanTransition(drafts[d].status, t) /\ drafts'[d].status = t
        /\ drafts'[d].revision = drafts[d].revision
        /\ drafts'[d].hash = drafts[d].hash
        /\ drafts'[d].uid = drafts[d].uid
        /\ drafts'[d].uidvalidity = drafts[d].uidvalidity
        /\ \A e \in DraftIds \ {d} : drafts'[e] = drafts[e]
        /\ Present(d) /\ Present(d)'
        /\ idem' = idem
    BY <1>3, StatusEffect
  <2> QED
    BY <2>1 DEF SameContent, SameTracking, Present
<1>4. UNCHANGED storeVars \/ \E t : TransitionStatus(d, t)
  BY <1>1 DEF Stage, CreateConflict, RecordCreated, RecordConflict, SummaryRefused, SummaryStatus, FailJob
<1> QED
  BY <1>1, <1>2, <1>3, <1>4

\* The tracking of the job's draft.
LEMMA JobTrackingRows ==
    ASSUME StoreTypeOK, GatewayOK, TrackCreated \/ SummaryTracking
    PROVE  /\ \A d \in DraftIds : SameContent(d)
           /\ \A d \in DraftIds \ {job.draft} : drafts'[d] = drafts[d] /\ SameTracking(d)
           /\ job.draft \in DraftIds /\ Present(job.draft)
           /\ drafts'[job.draft].uid = newUid /\ drafts'[job.draft].uidvalidity = sel
           /\ drafts'[job.draft].status = drafts[job.draft].status
           /\ idem' = idem
<1>0. newUid \in Uids \cup {0} /\ sel \in Validities \cup {0}
  BY DEF GatewayOK, GatewayTypeOK
<1>1. PICK d \in DraftIds : d = job.draft
  BY JobPhases, JobKinds DEF GatewayOK, TrackCreated, SummaryTracking, At
<1>2. PICK r, h : SetTracking(d, r, h, newUid, sel)
  BY <1>1 DEF TrackCreated, SummaryTracking
<1>3. /\ drafts'[d].uid = newUid /\ drafts'[d].uidvalidity = sel
      /\ drafts'[d].status = drafts[d].status
      /\ drafts'[d].revision = drafts[d].revision
      /\ drafts'[d].hash = drafts[d].hash
      /\ \A e \in DraftIds \ {d} : drafts'[e] = drafts[e]
      /\ Present(d) /\ Present(d)'
      /\ idem' = idem
  BY <1>0, <1>2, TrackingRow
<1> QED
  BY <1>1, <1>3 DEF SameContent, SameTracking, Present

\* The row an update records.
LEMMA JobUpdateRow ==
    ASSUME StoreTypeOK, GatewayOK, RecordUpdated
    PROVE  /\ job.op = UpdateOp /\ job.draft \in DraftIds /\ job.key \in Keys
           /\ drafts'[job.draft] = [status |-> "synced_to_gmx", revision |-> job.rev, hash |-> job.hash,
                                    uid |-> newUid, uidvalidity |-> sel]
           /\ \A d \in DraftIds \ {job.draft} : drafts'[d] = drafts[d] /\ SameContent(d) /\ SameTracking(d)
           /\ \A d \in DraftIds : d = job.draft => Present(d) /\ Present(d)'
<1>1. job.op = UpdateOp /\ job.draft \in DraftIds /\ job.rev \in Revisions /\ job.hash \in Hashes /\ job.key \in Keys
  BY JobPhases, JobKinds DEF GatewayOK, RecordUpdated, At
<1>2. PICK d \in DraftIds : d = job.draft
  BY <1>1
<1>3. Update(d, job.rev, job.hash, "synced_to_gmx", newUid, sel, job.key)
  BY <1>2 DEF RecordUpdated
<1>4. /\ drafts'[d] = [status |-> "synced_to_gmx", revision |-> job.rev, hash |-> job.hash,
                       uid |-> newUid, uidvalidity |-> sel]
      /\ \A e \in DraftIds \ {d} : drafts'[e] = drafts[e]
      /\ Present(d) /\ Present(d)'
  BY <1>1, <1>3, UpdateRow
<1> QED
  BY <1>1, <1>2, <1>4 DEF SameContent, SameTracking, Present

\* The row a creation starts with.
LEMMA NewRow ==
    ASSUME StoreTypeOK, NEW k \in Keys, NEW d \in DraftIds, NEW h \in Hashes, BeginCreate(k, d, h)
    PROVE  /\ drafts'[d] = [status |-> "new", revision |-> 1, hash |-> h, uid |-> 0, uidvalidity |-> 0]
           /\ \A e \in DraftIds \ {d} : drafts'[e] = drafts[e] /\ SameContent(e) /\ SameTracking(e)
           /\ ~Present(d) /\ Present(d)'
<1>1. Create(d, 1, h, "new", k)
  BY DEF BeginCreate
<1>2. /\ drafts'[d] = [status |-> "new", revision |-> 1, hash |-> h, uid |-> 0, uidvalidity |-> 0]
      /\ \A e \in DraftIds \ {d} : drafts'[e] = drafts[e]
      /\ ~Present(d) /\ Present(d)'
  BY <1>1, CreateRow
<1> QED
  BY <1>2 DEF SameContent, SameTracking, Present

\* The rows after any other step.
LEMMA OtherRows ==
    ASSUME StoreTypeOK, GatewayOK, [SyncNext]_vars,
           ~StartsCreate, ~RecordUpdated, ~TrackCreated, ~SummaryTracking
    PROVE  /\ \A d \in DraftIds : SameContent(d) /\ SameTracking(d)
           /\ ~BindConflict => idem' = idem
<1>1. CASE Stage \/ CreateConflict \/ RecordCreated \/ RecordConflict \/ SummaryRefused \/ SummaryStatus \/ FailJob
  BY <1>1, JobStatusRows
<1>2. CASE \E d \in DraftIds : BootFail(d)
  <2>1. PICK d \in DraftIds : FailListed(d)
    BY <1>2 DEF BootFail
  <2>2. /\ \A e \in DraftIds :
              /\ drafts'[e].revision = drafts[e].revision
              /\ drafts'[e].hash = drafts[e].hash
              /\ SameTracking(e)
              /\ Present(e)' <=> Present(e)
              /\ \/ drafts'[e] = drafts[e]
                 \/ drafts'[e].status = "failed" /\ drafts[e].status \in Incomplete \cup {"synced_to_gmx"}
        /\ idem' = idem
    BY <2>1, FailedRow DEF SameTracking
  <2> QED
    BY <2>2 DEF SameContent, CanTransition, Incomplete
<1>3. CASE UNCHANGED drafts /\ (~BindConflict => idem' = idem)
  BY <1>3, RowsUntouched
<1>4. CASE Request \/ Lookup
  BY <1>3, <1>4 DEF StartsCreate, Request, BeginUpdate, BeginSummary, Lookup, Select, Search, Fetch, storeVars
<1>5. CASE LookClear \/ AppendCreated \/ ConfirmCreated \/ Unusable \/ Fail
  BY <1>3, <1>5 DEF LookClear, AppendCreated, AppendRevision, ConfirmCreated, Unusable, Fail, storeVars
<1>6. CASE UpdateStep /\ ~RecordConflict
  BY <1>3, <1>6 DEF UpdateStep, Conflict, InspectInSync, VerifyPrevious, AppendUpdated, AppendRevision,
     ReplaceFound, ReplaceConflict, MarkDeleted, Expunge, SelectFinal, FinalFound, FinalConflict,
     BindConflict, BindIdempotency, storeVars
<1>7. CASE Crash \/ Boot \/ Serve \/ OtherClient \/ ServerRenumbers \/ UNCHANGED vars
  BY <1>3, <1>7 DEF Crash, AbandonSweep, Boot, ListIncomplete, Serve, OtherClient, ServerRenumbers, vars, storeVars
<1> QED
  BY <1>1, <1>2, <1>4, <1>5, <1>6, <1>7 DEF SyncNext, JobStep, CreateStep, SummaryStep, BootStep

-----------------------------------------------------------------------------
(* Keys of updates                                                           *)
(*                                                                           *)
(* OneRevisionPerKey counts the keys; to be kept by the step that adds one,  *)
(* it has to say that a draft whose conflict key is bound has no job left.   *)

KeysAgree ==
    \A d \in DraftIds :
        Present(d) =>
            /\ IsFiniteSet(UpdateKeys(d))
            /\ \/ Cardinality(UpdateKeys(d)) = drafts[d].revision - 1
               \/ /\ Cardinality(UpdateKeys(d)) = drafts[d].revision
                  /\ drafts[d].status \in {"modified", "invalidated"}
                  /\ job.draft # d \/ job.op # UpdateOp

\* No key and no revision is added, and no update begins with a closed draft.
LEMMA KeysKept ==
    ASSUME KeysAgree, idem' = idem, \A d \in DraftIds : SameContent(d),
           job'.op = UpdateOp => job' = job \/ drafts[job'.draft].status = "synced_to_gmx"
    PROVE  KeysAgree'
<1> SUFFICES ASSUME NEW d \in DraftIds, Present(d)'
             PROVE  /\ IsFiniteSet(UpdateKeys(d)')
                    /\ \/ Cardinality(UpdateKeys(d)') = drafts'[d].revision - 1
                       \/ /\ Cardinality(UpdateKeys(d)') = drafts'[d].revision
                          /\ drafts'[d].status \in {"modified", "invalidated"}
                          /\ job'.draft # d \/ job'.op # UpdateOp
  BY DEF KeysAgree
<1>1. UpdateKeys(d)' = UpdateKeys(d)
  BY DEF UpdateKeys
<1>2. drafts[d].status \in {"modified", "invalidated"} => drafts'[d].status = drafts[d].status
  BY DEF SameContent, CanTransition
<1>3. Present(d) /\ drafts'[d].revision = drafts[d].revision
  BY DEF SameContent
<1> QED
  BY <1>1, <1>2, <1>3 DEF KeysAgree

\* A key that was free is one more of its draft, and of no other.
LEMMA KeyAdded ==
    ASSUME StoreTypeOK, NEW k \in Keys, NEW d \in DraftIds, KeyFree(k), Bind(k, d, UpdateOp)
    PROVE  /\ UpdateKeys(d)' = UpdateKeys(d) \cup {k} /\ k \notin UpdateKeys(d)
           /\ \A e \in DraftIds \ {d} : UpdateKeys(e)' = UpdateKeys(e)
<1>1. k # None /\ [draft |-> d, op |-> UpdateOp] # Unbound
  BY StoreAssumption, BindingsAreBound
<1>2. idem[k] = Unbound /\ idem' = [idem EXCEPT ![k] = [draft |-> d, op |-> UpdateOp]]
  BY <1>1 DEF KeyFree, Bind
<1>3. \A q \in Keys : idem'[q] = IF q = k THEN [draft |-> d, op |-> UpdateOp] ELSE idem[q]
  BY <1>2 DEF StoreTypeOK
<1>4. \A e \in DraftIds : idem[k] # [draft |-> e, op |-> UpdateOp]
  BY <1>2, BindingsAreBound
<1>5. \A e \in DraftIds \ {d} : [draft |-> e, op |-> UpdateOp] # [draft |-> d, op |-> UpdateOp]
  OBVIOUS
<1> QED
  BY <1>3, <1>4, <1>5 DEF UpdateKeys

\* One key more, which asked for a revision or for a conflict.
LEMMA KeysGrow ==
    ASSUME StoreTypeOK, KeysAgree, job.draft \in DraftIds, job.key \in Keys, job.op = UpdateOp,
           KeyFree(job.key), Bind(job.key, job.draft, UpdateOp), job' = NoJob,
           \A d \in DraftIds \ {job.draft} : SameContent(d),
           Present(job.draft),
           \/ drafts'[job.draft].revision = Record.revision + 1
           \/ /\ drafts'[job.draft].revision = Record.revision
              /\ drafts'[job.draft].status \in {"modified", "invalidated"}
    PROVE  KeysAgree'
<1>0. job'.op # UpdateOp
  BY DEF NoJob, UpdateOp
<1>1. PICK d \in DraftIds : d = job.draft
  OBVIOUS
<1>2. PICK k \in Keys : k = job.key
  OBVIOUS
<1>3. /\ UpdateKeys(d)' = UpdateKeys(d) \cup {k} /\ k \notin UpdateKeys(d)
      /\ \A e \in DraftIds \ {d} : UpdateKeys(e)' = UpdateKeys(e)
  BY <1>1, <1>2, KeyAdded
<1>4. IsFiniteSet(UpdateKeys(d)) /\ Cardinality(UpdateKeys(d)) = drafts[d].revision - 1
  BY <1>1 DEF KeysAgree
<1>5. IsFiniteSet(UpdateKeys(d)') /\ Cardinality(UpdateKeys(d)') = drafts[d].revision
  <2>1. drafts[d].revision \in Nat
    BY <1>1, RevisionsAreNumbers
  <2>2. /\ IsFiniteSet(UpdateKeys(d) \cup {k})
        /\ Cardinality(UpdateKeys(d) \cup {k}) = Cardinality(UpdateKeys(d)) + 1
    BY <1>3, <1>4, FS_AddElement
  <2> QED
    BY <1>3, <1>4, <2>1, <2>2
<1>6. drafts[d].revision \in Nat
  BY <1>1, RevisionsAreNumbers
<1> SUFFICES ASSUME NEW e \in DraftIds, Present(e)'
             PROVE  /\ IsFiniteSet(UpdateKeys(e)')
                    /\ \/ Cardinality(UpdateKeys(e)') = drafts'[e].revision - 1
                       \/ /\ Cardinality(UpdateKeys(e)') = drafts'[e].revision
                          /\ drafts'[e].status \in {"modified", "invalidated"}
  BY <1>0 DEF KeysAgree
<1>7. CASE e = d
  BY <1>1, <1>5, <1>6, <1>7 DEF Record
<1>8. CASE e # d
  <2>1. drafts[e].status \in {"modified", "invalidated"} => drafts'[e].status = drafts[e].status
    BY <1>1, <1>8 DEF SameContent, CanTransition
  <2>2. Present(e) /\ drafts'[e].revision = drafts[e].revision
    BY <1>1, <1>8 DEF SameContent
  <2> QED
    BY <1>3, <1>8, <2>1, <2>2 DEF KeysAgree
<1> QED
  BY <1>7, <1>8

\* A creation binds its key, but not as that of an update.
LEMMA KeysOfNewDraft ==
    ASSUME StoreTypeOK, BindingsResolve, KeysAgree,
           NEW k \in Keys, NEW d \in DraftIds, NEW h \in Hashes, BeginCreate(k, d, h)
    PROVE  KeysAgree'
<1>1. /\ drafts'[d] = [status |-> "new", revision |-> 1, hash |-> h, uid |-> 0, uidvalidity |-> 0]
      /\ \A e \in DraftIds \ {d} : drafts'[e] = drafts[e]
      /\ ~Present(d)
  BY NewRow
<1>2. k # None /\ KeyFree(k) /\ Bind(k, d, CreateOp)
  BY StoreAssumption DEF BeginCreate, Create
<1>3. \A q \in Keys : idem'[q] = IF q = k THEN [draft |-> d, op |-> CreateOp] ELSE idem[q]
  BY <1>2 DEF Bind, StoreTypeOK
<1>4. idem[k] = Unbound
  BY <1>2 DEF KeyFree
<1>5. \A e \in DraftIds : UpdateKeys(e)' = UpdateKeys(e)
  BY <1>3, <1>4, BindingsAreBound DEF UpdateKeys, CreateOp, UpdateOp
<1>6. UpdateKeys(d) = {}
  BY <1>1, BindingsAreBound DEF UpdateKeys, BindingsResolve
<1>7. IsFiniteSet(UpdateKeys(d)') /\ Cardinality(UpdateKeys(d)') = drafts'[d].revision - 1
  BY <1>1, <1>5, <1>6, FS_EmptySet
<1>8. job'.op # UpdateOp
  BY DEF BeginCreate, CreateOp, UpdateOp
<1> QED
  BY <1>1, <1>5, <1>7, <1>8 DEF KeysAgree, Present

\* Every step adds a key together with a revision, or with the conflict that
\* closes the draft.
LEMMA KeysStep ==
    ASSUME StoreTypeOK, GatewayOK, BindingsResolve, JobInv, KeysAgree, [SyncNext]_vars
    PROVE  KeysAgree'
<1>1. CASE StartsCreate
  BY <1>1, KeysOfNewDraft DEF StartsCreate
<1>2. CASE RecordUpdated
  <2>1. /\ job.op = UpdateOp /\ job.draft \in DraftIds /\ job.key \in Keys
        /\ drafts'[job.draft].revision = job.rev
        /\ \A d \in DraftIds \ {job.draft} : SameContent(d)
        /\ Present(job.draft)
    BY <1>2, JobUpdateRow
  <2>2. job.rev = Record.revision + 1
    BY <2>1 DEF JobInv, JobAgrees
  <2> QED
    BY <1>2, <2>1, <2>2, KeysGrow DEF RecordUpdated, Update, Finish
<1>3. CASE BindConflict
  <2>1. job.op = UpdateOp /\ job.draft \in DraftIds /\ job.key \in Keys
    BY <1>3, JobPhases, JobKinds DEF GatewayOK, BindConflict, ConflictPhase, ConflictPhases
  <2>2. Record.status \in {"modified", "invalidated"}
    BY <1>3, <2>1 DEF JobInv, JobAgrees, BindConflict, ConflictPhase, ConflictPhases
  <2>3. UNCHANGED drafts /\ job' = NoJob /\ KeyFree(job.key) /\ Bind(job.key, job.draft, UpdateOp) /\ Present(job.draft)
    BY <1>3 DEF BindConflict, BindIdempotency, Finish
  <2> QED
    BY <2>1, <2>2, <2>3, RowsUntouched, KeysGrow DEF Record
<1>4. CASE ~StartsCreate /\ ~RecordUpdated /\ ~BindConflict
  <2>1. idem' = idem /\ \A d \in DraftIds : SameContent(d)
    BY <1>4, OtherRows, JobTrackingRows
  <2>2. job' = job \/ job' = NoJob \/ Request
    BY DEF SyncNext, JobStep, Lookup, CreateStep, UpdateStep, SummaryStep, BootStep, Select, Search, Fetch,
       Stage, LookClear, AppendCreated, AppendRevision, CreateConflict, ConfirmCreated, TrackCreated,
       RecordCreated, Conflict, InspectInSync, VerifyPrevious, AppendUpdated, ReplaceFound, ReplaceConflict,
       MarkDeleted, Expunge, SelectFinal, FinalFound, FinalConflict, RecordUpdated, RecordConflict,
       BindConflict, SummaryRefused, SummaryStatus, SummaryTracking, Unusable, Fail, FailJob, Crash, Boot,
       BootFail, Serve, OtherClient, ServerRenumbers, gatewayVars, vars, Finish
  <2>3. job'.op = UpdateOp => job' = job \/ drafts[job'.draft].status = "synced_to_gmx"
    BY <1>4, <2>2 DEF Request, StartsCreate, BeginUpdate, BeginSummary, NoJob, UpdateOp, SummaryOp
  <2> QED
    BY <2>1, <2>3, KeysKept
<1> QED
  BY <1>1, <1>2, <1>3, <1>4

\* The keys are counted throughout.
LEMMA KeysAlwaysAgree == SyncSpec => []KeysAgree
<1>1. SyncInit => KeysAgree
  BY DEF SyncInit, StoreInit, KeysAgree, Present
<1>2. SyncTypeInv /\ BindingsResolve /\ JobInv /\ KeysAgree /\ [SyncNext]_vars => KeysAgree'
  BY KeysStep DEF SyncTypeInv, SyncTypeOK, GatewayOK
<1> QED
  BY <1>1, <1>2, SyncTypes, SyncImplementsStore, BindingsAlwaysResolve, JobAlwaysAgrees, PTL DEF SyncSpec

\* Each revision after the first was asked for by exactly one key; the one key more
\* a draft may have is that of the conflict which closed it.
THEOREM RevisionsHaveOneKey == SyncSpec => []OneRevisionPerKey
<1>1. KeysAgree => OneRevisionPerKey
  BY DEF KeysAgree, OneRevisionPerKey
<1> QED
  BY <1>1, KeysAlwaysAgree, PTL

\* A replay answers "created" only for a draft that was seen on the server, and
\* "updated" only for one that has a revision after the first.
THEOREM RepliesAlwaysEarned == SyncSpec => []RepliesAreEarned
<1>1. ASSUME StoreTypeOK, BindingsResolve, IncompleteIsOwned, JobInv, KeysAgree
      PROVE  RepliesAreEarned
  <2> SUFFICES ASSUME NEW k \in Keys, phase = "idle", idem[k] # Unbound
               PROVE  /\ ReplayOutcome(k) = "created" => drafts[idem[k].draft].uid # 0
                      /\ ReplayOutcome(k) = "updated" => drafts[idem[k].draft].revision > 1
    BY DEF RepliesAreEarned
  <2> DEFINE d == idem[k].draft
  <2>1. idem[k] \in Binding /\ d \in DraftIds /\ idem[k].op \in {CreateOp, UpdateOp} /\ Present(d)
    BY <1>1 DEF StoreTypeOK, Binding, BindingsResolve
  <2>2. drafts[d] \in DraftRecord /\ drafts[d].revision \in Nat
    BY <1>1, <2>1, PresentIsRecord, RevisionsAreNumbers
  <2>3. drafts[d].status \in Statuses \ Incomplete
    BY <1>1, <2>1, <2>2 DEF IncompleteIsOwned, ResolvedBy, CreatePhases, DraftRecord
  <2>4. drafts[d].status \in {"synced_to_gmx", "modified"} => drafts[d].uid # 0
    BY <1>1, <2>1 DEF JobInv, UidsAgree
  <2>5. ReplayOutcome(k) = "created" => drafts[d].status \in {"synced_to_gmx", "modified"}
    BY <2>1, <2>3 DEF ReplayOutcome, Statuses, Incomplete, CreateOp, UpdateOp
  <2>6. ASSUME ReplayOutcome(k) = "updated"
        PROVE  drafts[d].revision > 1
    <3>1. idem[k].op = UpdateOp /\ drafts[d].status \notin {"modified", "invalidated"}
      BY <2>1, <2>6 DEF ReplayOutcome, CreateOp, UpdateOp
    <3>2. k \in UpdateKeys(d)
      BY <2>1, <3>1 DEF UpdateKeys, Binding
    <3>3. IsFiniteSet(UpdateKeys(d)) /\ Cardinality(UpdateKeys(d)) = drafts[d].revision - 1
      BY <1>1, <2>1, <3>1 DEF KeysAgree
    <3>4. Cardinality(UpdateKeys(d)) # 0
      BY <3>2, <3>3, FS_EmptySet
    <3>5. Cardinality(UpdateKeys(d)) \in Nat
      BY <3>3, FS_CardinalityType
    <3> QED
      BY <2>2, <3>3, <3>4, <3>5
  <2> QED
    BY <2>4, <2>5, <2>6
<1> QED
  BY <1>1, SyncTypes, SyncImplementsStore, BindingsAlwaysResolve, IncompleteAlwaysOwned, JobAlwaysAgrees,
     KeysAlwaysAgree, PTL DEF SyncTypeInv, SyncTypeOK

-----------------------------------------------------------------------------
(* UIDs                                                                      *)
(*                                                                           *)
(* FlagsOnlyPriorRevision speaks of the step that marks a message by its UID *)
(* alone.  That the UID still names what the verifying lookup saw rests on   *)
(* the numbering: a UID is not given twice while UIDVALIDITY stays, and a    *)
(* job compares the UIDVALIDITY of its last two SELECTs before it uses one.  *)

FolderAgrees ==
    /\ \A u \in Uids : Live(u) => u < uidNext
    /\ \A u \in Uids : Live(u) /\ box[u].draft # None => Present(box[u].draft)
    /\ \A d \in touched : Present(d)
    /\ \A d \in DraftIds : drafts[d].uidvalidity <= validity
    /\ sel <= validity /\ sel0 <= validity

\* What is known of a UID: it will not be given again, and it names a message of the
\* job's draft with this revision and content, or one that somebody has removed.
Names(u, m) ==
    /\ u \in Uids /\ u < uidNext
    /\ Live(u) => box[u].draft = job.draft /\ box[u].rev = m.rev /\ box[u].hash = m.hash
    /\ job.draft \notin touched => Live(u)

LookupAgrees ==
    /\ phase = "remove" \/ step \in {"search", "fetch"} => sel = validity
    /\ phase = "verify" /\ step \in {"search", "fetch"} => sel0 = validity
    /\ step = "fetch" =>
          /\ \A u \in hits : u < uidNext /\ (Live(u) => box[u].draft = job.draft)
          /\ \A m \in found : Names(m.uid, m)
          /\ job.draft \notin touched /\ refused = 0 =>
                \A u \in CopiesOf(job.draft) : u \in hits \/ \E m \in found : m.uid = u

\* The revision previous.uid was read from.
Prior == [rev |-> Record.revision, hash |-> Record.hash]

PreviousAgrees ==
    \/ (At("verify", "append") \/ phase = "replace") /\ validity = sel0
    \/ phase = "remove"
    => Names(prevUid, Prior)

UidInv == FolderAgrees /\ LookupAgrees /\ PreviousAgrees

SameMessage(u) ==
    box'[u].draft = box[u].draft /\ box'[u].rev = box[u].rev /\ box'[u].hash = box[u].hash

\* The steps that change the folder.
LEMMA FolderSteps ==
    ASSUME [SyncNext]_vars
    PROVE  UNCHANGED folderVars \/ AppendCreated \/ AppendUpdated \/ MarkDeleted \/ Expunge
           \/ OtherClient \/ ServerRenumbers
<1>1. CASE Request \/ Lookup
  BY <1>1 DEF Request, BeginCreate, BeginUpdate, BeginSummary, Lookup, Select, Search, Fetch, folderVars
<1>2. CASE CreateStep \/ SummaryStep
  BY <1>2 DEF CreateStep, Stage, LookClear, CreateConflict, ConfirmCreated, TrackCreated, RecordCreated,
     SummaryStep, SummaryRefused, SummaryStatus, SummaryTracking
<1>3. CASE UpdateStep
  BY <1>3 DEF UpdateStep, Conflict, InspectInSync, VerifyPrevious, ReplaceFound, ReplaceConflict, SelectFinal,
     FinalFound, FinalConflict, RecordUpdated, RecordConflict, BindConflict
<1>4. CASE Unusable \/ Fail \/ FailJob \/ Crash \/ BootStep \/ UNCHANGED vars
  BY <1>4 DEF Unusable, Fail, FailJob, Crash, BootStep, Boot, BootFail, Serve, vars
<1> QED
  BY <1>1, <1>2, <1>3, <1>4 DEF SyncNext, JobStep

\* A row stays once it is there.
LEMMA RowsStay ==
    ASSUME StoreTypeOK, GatewayOK, [SyncNext]_vars, NEW d \in DraftIds, Present(d)
    PROVE  Present(d)'
<1>1. CASE StartsCreate
  BY <1>1, NewRow DEF StartsCreate, SameContent
<1>2. CASE RecordUpdated
  BY <1>2, JobUpdateRow DEF SameContent
<1>3. CASE TrackCreated \/ SummaryTracking
  BY <1>3, JobTrackingRows DEF SameContent
<1> QED
  BY <1>1, <1>2, <1>3, OtherRows DEF SameContent

\* What a step of the other client can be told by: it gives UIDs that are new, it
\* changes only messages of drafts it is then known to have touched, and makes none
\* of a draft of which there was none.
ExternalEffect ==
    /\ uidNext <= uidNext' /\ validity' = validity /\ touched \subseteq touched'
    /\ \A u \in Uids : u < uidNext /\ Live(u)' => Live(u) /\ SameMessage(u)
    /\ \A d \in DraftIds \ touched' :
          CopiesOf(d)' = CopiesOf(d) /\ \A u \in CopiesOf(d) : box'[u] = box[u]
    /\ \A u \in Uids :
          Live(u)' => /\ u < uidNext'
                      /\ box'[u].draft # None => \E w \in Uids : Live(w) /\ box[w].draft = box'[u].draft
    /\ \A d \in touched' : d \in touched \/ \E w \in Uids : Live(w) /\ box[w].draft = d

\* Every step of the other client can be told by this effect.
LEMMA ExternalTold ==
    ASSUME FolderTypeOK, FolderAgrees, ExternalStep
    PROVE  ExternalEffect
<1> USE DEF External, Live, CopiesOf, SameMessage, Touch
<1>0. /\ uidNext \in Nat /\ \A u \in Uids : u \in Nat
      /\ \A u \in Uids : Live(u) => u < uidNext /\ box[u].draft \in DraftIds \cup {None}
      /\ box \in [Uids -> Message \cup {NoMessage}]
      /\ None \notin DraftIds
  BY DataAssumption DEF FolderTypeOK, FolderAgrees, Uids, Message
<1>1. CASE \E u \in Uids : ExternalEdit(u)
  <2>1. PICK u \in Uids : ExternalEdit(u)
    BY <1>1
  <2> DEFINE m == [box[u] EXCEPT !.hash = Tampered, !.deleted = FALSE]
  <2>2. m.draft = box[u].draft
    BY <1>0, <2>1 DEF ExternalEdit, Message
  <2>3. \A w \in Uids : box'[w] = IF w = uidNext THEN m ELSE IF w = u THEN NoMessage ELSE box[w]
    BY <1>0, <2>1 DEF ExternalEdit
  <2>4. uidNext' = uidNext + 1 /\ uidNext \in Uids /\ Live(u) /\ touched' = touched \cup ({box[u].draft} \ {None})
        /\ validity' = validity
    BY <2>1 DEF ExternalEdit
  <2> HIDE DEF m
  <2>5. /\ uidNext <= uidNext' /\ validity' = validity /\ touched \subseteq touched'
        /\ \A w \in Uids : w < uidNext /\ Live(w)' => Live(w) /\ SameMessage(w)
    BY <1>0, <2>2, <2>3, <2>4
  <2>6. \A d \in DraftIds \ touched' :
            CopiesOf(d)' = CopiesOf(d) /\ \A w \in CopiesOf(d) : box'[w] = box[w]
    <3> SUFFICES ASSUME NEW d \in DraftIds \ touched'
                 PROVE  \A w \in Uids : /\ Live(w)' /\ box'[w].draft = d <=> Live(w) /\ box[w].draft = d
                                        /\ Live(w) /\ box[w].draft = d => box'[w] = box[w]
      OBVIOUS
    <3> SUFFICES ASSUME NEW w \in Uids
                 PROVE  /\ Live(w)' /\ box'[w].draft = d <=> Live(w) /\ box[w].draft = d
                        /\ Live(w) /\ box[w].draft = d => box'[w] = box[w]
      OBVIOUS
    <3> QED
      BY <1>0, <2>2, <2>3, <2>4
  <2>7. \A w \in Uids :
            Live(w)' => /\ w < uidNext'
                        /\ box'[w].draft # None => \E v \in Uids : Live(v) /\ box[v].draft = box'[w].draft
    BY <1>0, <2>2, <2>3, <2>4
  <2>8. \A d \in touched' : d \in touched \/ \E w \in Uids : Live(w) /\ box[w].draft = d
    BY <1>0, <2>2, <2>3, <2>4
  <2> QED
    BY <2>5, <2>6, <2>7, <2>8 DEF ExternalEffect
<1>2. CASE \E u \in Uids : ExternalCopy(u)
  <2>1. PICK u \in Uids : ExternalCopy(u)
    BY <1>2
  <2> DEFINE m == [box[u] EXCEPT !.deleted = FALSE]
  <2>2. m.draft = box[u].draft
    BY <1>0, <2>1 DEF ExternalCopy, Message
  <2>3. \A w \in Uids : box'[w] = IF w = uidNext THEN m ELSE box[w]
    BY <1>0, <2>1 DEF ExternalCopy
  <2>4. uidNext' = uidNext + 1 /\ uidNext \in Uids /\ Live(u) /\ touched' = touched \cup ({box[u].draft} \ {None})
        /\ validity' = validity
    BY <2>1 DEF ExternalCopy
  <2> HIDE DEF m
  <2>5. /\ uidNext <= uidNext' /\ validity' = validity /\ touched \subseteq touched'
        /\ \A w \in Uids : w < uidNext /\ Live(w)' => Live(w) /\ SameMessage(w)
    BY <1>0, <2>2, <2>3, <2>4
  <2>6. \A d \in DraftIds \ touched' :
            CopiesOf(d)' = CopiesOf(d) /\ \A w \in CopiesOf(d) : box'[w] = box[w]
    <3> SUFFICES ASSUME NEW d \in DraftIds \ touched'
                 PROVE  \A w \in Uids : /\ Live(w)' /\ box'[w].draft = d <=> Live(w) /\ box[w].draft = d
                                        /\ Live(w) /\ box[w].draft = d => box'[w] = box[w]
      OBVIOUS
    <3> SUFFICES ASSUME NEW w \in Uids
                 PROVE  /\ Live(w)' /\ box'[w].draft = d <=> Live(w) /\ box[w].draft = d
                        /\ Live(w) /\ box[w].draft = d => box'[w] = box[w]
      OBVIOUS
    <3>1. CASE w = uidNext
      <4>1. ~Live(w)
        BY <1>0, <3>1
      <4>2. m.draft # d
        BY <1>0, <2>2, <2>4
      <4> QED
        BY <2>3, <3>1, <4>1, <4>2
    <3>2. CASE w # uidNext
      BY <2>3, <3>2
    <3> QED
      BY <3>1, <3>2
  <2>7. \A w \in Uids :
            Live(w)' => /\ w < uidNext'
                        /\ box'[w].draft # None => \E v \in Uids : Live(v) /\ box[v].draft = box'[w].draft
    BY <1>0, <2>2, <2>3, <2>4
  <2>8. \A d \in touched' : d \in touched \/ \E w \in Uids : Live(w) /\ box[w].draft = d
    BY <1>0, <2>2, <2>3, <2>4
  <2> QED
    BY <2>5, <2>6, <2>7, <2>8 DEF ExternalEffect
<1>3. CASE \E u \in Uids : ExternalFlag(u)
  <2>1. PICK u \in Uids : ExternalFlag(u)
    BY <1>3
  <2> DEFINE m == [box[u] EXCEPT !.deleted = TRUE]
  <2>2. m.draft = box[u].draft /\ m.rev = box[u].rev /\ m.hash = box[u].hash
    BY <1>0, <2>1 DEF ExternalFlag, Message
  <2>3. \A w \in Uids : box'[w] = IF w = u THEN m ELSE box[w]
    BY <1>0, <2>1 DEF ExternalFlag
  <2>4. uidNext' = uidNext /\ Live(u) /\ touched' = touched \cup ({box[u].draft} \ {None}) /\ validity' = validity
    BY <2>1 DEF ExternalFlag
  <2> HIDE DEF m
  <2> QED
    BY <1>0, <2>2, <2>3, <2>4 DEF ExternalEffect
<1>4. CASE \E u \in Uids : ExternalRemove(u)
  <2>1. PICK u \in Uids : ExternalRemove(u)
    BY <1>4
  <2>2. \A w \in Uids : box'[w] = IF w = u THEN NoMessage ELSE box[w]
    BY <1>0, <2>1 DEF ExternalRemove
  <2>3. uidNext' = uidNext /\ Live(u) /\ touched' = touched \cup ({box[u].draft} \ {None}) /\ validity' = validity
    BY <2>1 DEF ExternalRemove
  <2> QED
    BY <1>0, <2>2, <2>3 DEF ExternalEffect
<1>5. CASE ExternalDraft
  <2>1. \A w \in Uids : box'[w] = IF w = uidNext THEN Foreign ELSE box[w]
    BY <1>0, <1>5 DEF ExternalDraft
  <2>2. uidNext' = uidNext + 1 /\ uidNext \in Uids /\ touched' = touched /\ validity' = validity
    BY <1>5 DEF ExternalDraft
  <2>3. Foreign.draft = None
    BY DEF Foreign
  <2>5. /\ uidNext <= uidNext' /\ validity' = validity /\ touched \subseteq touched'
        /\ \A w \in Uids : w < uidNext /\ Live(w)' => Live(w) /\ SameMessage(w)
    <3>1. \A w \in Uids : w < uidNext => box'[w] = box[w]
      BY <1>0, <2>1
    <3>2. \A w \in Uids : w < uidNext => SameMessage(w) /\ (Live(w)' <=> Live(w))
      BY <3>1
    <3>3. uidNext <= uidNext'
      BY <1>0, <2>2
    <3> QED
      BY <2>2, <3>2, <3>3
  <2>6. \A d \in DraftIds \ touched' :
            CopiesOf(d)' = CopiesOf(d) /\ \A w \in CopiesOf(d) : box'[w] = box[w]
    <3> SUFFICES ASSUME NEW d \in DraftIds \ touched'
                 PROVE  \A w \in Uids : /\ Live(w)' /\ box'[w].draft = d <=> Live(w) /\ box[w].draft = d
                                        /\ Live(w) /\ box[w].draft = d => box'[w] = box[w]
      OBVIOUS
    <3> SUFFICES ASSUME NEW w \in Uids
                 PROVE  /\ Live(w)' /\ box'[w].draft = d <=> Live(w) /\ box[w].draft = d
                        /\ Live(w) /\ box[w].draft = d => box'[w] = box[w]
      OBVIOUS
    <3>1. w # uidNext => box'[w] = box[w]
      BY <2>1
    <3>2. w = uidNext => ~Live(w) /\ box'[w].draft # d
      BY <1>0, <2>1, <2>3
    <3> QED
      BY <3>1, <3>2
  <2>7. \A w \in Uids :
            Live(w)' => /\ w < uidNext'
                        /\ box'[w].draft # None => \E v \in Uids : Live(v) /\ box[v].draft = box'[w].draft
    <3> SUFFICES ASSUME NEW w \in Uids, Live(w)'
                 PROVE  /\ w < uidNext'
                        /\ box'[w].draft # None => \E v \in Uids : Live(v) /\ box[v].draft = box'[w].draft
      OBVIOUS
    <3>1. CASE w = uidNext
      BY <1>0, <2>1, <2>2, <2>3, <3>1
    <3>2. CASE w # uidNext
      <4>1. box'[w] = box[w] /\ Live(w)
        BY <2>1, <3>2
      <4>2. w < uidNext
        BY <1>0, <4>1
      <4>3. w < uidNext'
        BY <1>0, <2>2, <4>2
      <4> QED
        BY <4>1, <4>3
    <3> QED
      BY <3>1, <3>2
  <2>8. \A d \in touched' : d \in touched \/ \E w \in Uids : Live(w) /\ box[w].draft = d
    BY <2>2
  <2> QED
    BY <2>5, <2>6, <2>7, <2>8 DEF ExternalEffect
<1> QED
  BY <1>1, <1>2, <1>3, <1>4, <1>5 DEF ExternalStep

\* UID STORE and EXPUNGE, message by message.
LEMMA FlagEffect ==
    ASSUME FolderTypeOK, NEW u \in Uids, FlagDeleted(u)
    PROVE  /\ \A w \in Uids : SameMessage(w) /\ (Live(w)' <=> Live(w))
           /\ \A w \in Uids : box'[w].deleted <=> (box[w].deleted \/ (w = u /\ Live(u)))
           /\ \A w \in Uids \ {u} : box'[w] = box[w]
           /\ UNCHANGED <<uidNext, validity, touched>>
<1>1. /\ \A w \in Uids \ {u} : box'[w] = box[w]
      /\ box'[u] = [box[u] EXCEPT !.deleted = Live(u)]
      /\ UNCHANGED <<uidNext, validity, touched>>
  BY DEF FlagDeleted, FolderTypeOK
<1>2. CASE Live(u)
  <2>1. box[u] \in Message
    BY <1>2 DEF FolderTypeOK, Live
  <2>2. box'[u].draft = box[u].draft /\ box'[u].rev = box[u].rev /\ box'[u].hash = box[u].hash /\ box'[u].deleted = TRUE
    BY <1>1, <1>2, <2>1 DEF Message
  <2>3. box'[u] # NoMessage
    BY <2>2 DEF NoMessage
  <2> QED
    BY <1>1, <1>2, <2>2, <2>3 DEF SameMessage, Live
<1>3. CASE ~Live(u)
  <2>1. box[u] = NoMessage
    BY <1>3 DEF Live
  <2>2. [NoMessage EXCEPT !.deleted = FALSE] = NoMessage /\ NoMessage.deleted = FALSE
    <3>1. NoMessage \in [draft : {None}, rev : {0}, hash : {None}, deleted : {FALSE}]
      BY DEF NoMessage
    <3> QED
      BY <3>1
  <2>3. Live(u) = FALSE
    BY <1>3 DEF Live
  <2>4. box'[u] = NoMessage
    BY <1>1, <2>1, <2>2, <2>3
  <2> QED
    BY <1>1, <1>3, <2>1, <2>2, <2>4 DEF SameMessage, Live
<1> QED
  BY <1>2, <1>3

\* EXPUNGE takes the marked messages and leaves the others as they are.
LEMMA ExpungeEffect ==
    ASSUME FolderTypeOK, ExpungeDeleted
    PROVE  /\ \A w \in Uids : Live(w)' <=> Live(w) /\ ~box[w].deleted
           /\ \A w \in Uids : Live(w)' => box'[w] = box[w]
           /\ UNCHANGED <<uidNext, validity, touched>>
BY DEF ExpungeDeleted, FolderTypeOK, Live

\* An APPEND, message by message.
LEMMA AppendEffect ==
    ASSUME FolderTypeOK, FolderAgrees, GatewayOK, AppendCreated \/ AppendUpdated
    PROVE  /\ uidNext \in Uids /\ ~Live(uidNext)
           /\ box'[uidNext] = NewMessage
           /\ NewMessage \in Message /\ NewMessage.draft = job.draft /\ NewMessage.rev = job.rev
           /\ NewMessage.hash = job.hash /\ NewMessage.deleted = FALSE
           /\ NewMessage # NoMessage
           /\ \A w \in Uids \ {uidNext} : box'[w] = box[w]
           /\ uidNext' = uidNext + 1 /\ UNCHANGED <<validity, touched>>
<1>1. AppendMessage(NewMessage) /\ job \in CreateJob \cup UpdateJob
  BY DEF AppendCreated, AppendUpdated, AppendRevision, GatewayOK, ControlOK, At
<1>2. uidNext \in Uids /\ ~Live(uidNext)
  BY <1>1, DataAssumption DEF AppendMessage, FolderAgrees, Uids
<1>3. NewMessage \in Message
  BY <1>1, NewMessageIsMessage
<1>4. NewMessage.draft = job.draft /\ NewMessage.rev = job.rev /\ NewMessage.hash = job.hash /\ NewMessage.deleted = FALSE
  BY DEF NewMessage
<1>5. job.draft # None
  BY <1>1, DataAssumption DEF CreateJob, UpdateJob
<1>6. NewMessage # NoMessage
  BY <1>4, <1>5 DEF NoMessage
<1> QED
  BY <1>1, <1>2, <1>3, <1>4, <1>6 DEF AppendMessage, FolderTypeOK

\* A new numbering moves every message to a UID of its own and loses none.
RenumberedBy(old) ==
    /\ \A u \in Uids : Live(u)' => /\ old[u] \in Uids /\ Live(old[u]) /\ box'[u] = box[old[u]]
                                   /\ u < uidNext'
    /\ \A u, w \in Uids : Live(u)' /\ Live(w)' /\ old[u] = old[w] => u = w
    /\ \A w \in Uids : Live(w) => \E u \in Uids : Live(u)' /\ old[u] = w

\* A new numbering is one of these, and touches no draft.
LEMMA RenumberEffect ==
    ASSUME FolderTypeOK, Renumber
    PROVE  /\ \E old : RenumberedBy(old)
           /\ validity' = validity + 1 /\ touched' = touched
<1> DEFINE occupied == {u \in Uids : Live(u)}
           n == Cardinality(occupied)
<1>1. n \in Nat /\ n <= MaxUid /\ IsFiniteSet(occupied)
  <2>1. IsFiniteSet(Uids) /\ Cardinality(Uids) = MaxUid
    BY FS_Interval, DataAssumption DEF Uids
  <2> QED
    BY <2>1, FS_Subset, FS_CardinalityType
<1>2. PICK old \in [1..n -> occupied] :
           /\ \A u, w \in 1..n : old[u] = old[w] => u = w
           /\ box' = [u \in Uids |-> IF u <= n THEN box[old[u]] ELSE NoMessage]
  BY DEF Renumber
<1>3. uidNext' = n + 1 /\ validity' = validity + 1 /\ touched' = touched
  BY DEF Renumber
<1>4. \A w \in occupied : \E u \in 1..n : old[u] = w
  <2>1. old \in Injection(1..n, occupied)
    BY <1>2 DEF Injection, IsInjective
  <2>2. Cardinality(1..n) = n
    BY <1>1, FS_Interval
  <2>3. old \in Surjection(1..n, occupied)
    BY <1>1, <2>1, <2>2, FS_Injection
  <2> QED
    BY <2>3 DEF Surjection
<1>5. \A u \in 1..n : old[u] \in Uids /\ Live(old[u])
  BY <1>2
<1>6. \A u \in 1..n : u \in Uids /\ Live(u)' /\ box'[u] = box[old[u]]
  BY <1>1, <1>2, <1>5, DataAssumption DEF Uids, Live
<1>7. \A u \in Uids : Live(u)' => u \in 1..n
  BY <1>1, <1>2, DataAssumption DEF Uids, Live
<1>8. \A w \in Uids : Live(w) => w \in occupied
  OBVIOUS
<1> HIDE DEF n, occupied
<1>9. \A u \in 1..n : u < n + 1
  BY <1>1
<1>10. \A u \in Uids : Live(u)' => old[u] \in Uids /\ Live(old[u]) /\ box'[u] = box[old[u]] /\ u < uidNext'
  BY <1>3, <1>5, <1>6, <1>7, <1>9
<1>11. \A u, w \in Uids : Live(u)' /\ Live(w)' /\ old[u] = old[w] => u = w
  BY <1>2, <1>7
<1>12. \A w \in Uids : Live(w) => \E u \in Uids : Live(u)' /\ old[u] = w
  BY <1>4, <1>6, <1>8
<1> QED
  BY <1>3, <1>10, <1>11, <1>12 DEF RenumberedBy

\* The messages of the folder after any step.
LEMMA MessagesStep ==
    ASSUME FolderTypeOK, GatewayOK, FolderAgrees, [SyncNext]_vars
    PROVE  /\ \A u \in Uids :
                 Live(u)' => /\ u < uidNext'
                             /\ \/ box'[u].draft = None
                                \/ \E w \in Uids : Live(w) /\ box[w].draft = box'[u].draft
                                \/ (AppendCreated \/ AppendUpdated) /\ box'[u].draft = job.draft
           /\ validity <= validity'
           /\ \A d \in touched' : d \in touched \/ \E w \in Uids : Live(w) /\ box[w].draft = d
<1>0. uidNext \in Nat /\ validity \in Nat /\ \A u \in Uids : u \in Nat
  BY DataAssumption DEF FolderTypeOK, Uids, Validities
<1>1. CASE UNCHANGED folderVars
  BY <1>0, <1>1 DEF folderVars, Live, FolderAgrees
<1>2. CASE AppendCreated \/ AppendUpdated
  <2>1. /\ box'[uidNext] = NewMessage /\ NewMessage.draft = job.draft
        /\ \A w \in Uids \ {uidNext} : box'[w] = box[w]
        /\ uidNext' = uidNext + 1 /\ UNCHANGED <<validity, touched>>
    BY <1>2, AppendEffect
  <2> QED
    BY <1>0, <1>2, <2>1 DEF Live, FolderAgrees
<1>3. CASE MarkDeleted
  <2>1. CASE prevUid \in Uids
    <3>1. PICK u \in Uids : FlagDeleted(u)
      BY <1>3, <2>1 DEF MarkDeleted
    <3>2. /\ \A w \in Uids : SameMessage(w) /\ (Live(w)' <=> Live(w))
          /\ UNCHANGED <<uidNext, validity, touched>>
      BY <3>1, FlagEffect
    <3> QED
      BY <1>0, <3>2 DEF SameMessage, FolderAgrees
  <2>2. CASE prevUid \notin Uids
    <3>1. box' = box /\ UNCHANGED <<uidNext, validity, touched>>
      BY <1>3, <2>2 DEF MarkDeleted, FlagDeleted, FolderTypeOK
    <3> QED
      BY <1>0, <3>1 DEF Live, FolderAgrees
  <2> QED
    BY <2>1, <2>2
<1>4. CASE Expunge
  BY <1>0, <1>4, ExpungeEffect DEF Expunge, FolderAgrees
<1>5. CASE OtherClient
  BY <1>0, <1>5, ExternalTold DEF OtherClient, ExternalEffect
<1>6. CASE ServerRenumbers
  BY <1>0, <1>6, RenumberEffect DEF ServerRenumbers, RenumberedBy
<1> QED
  BY <1>1, <1>2, <1>3, <1>4, <1>5, <1>6, FolderSteps

\* What a SELECT returned, and the UID fields of the job, change as follows.
LEMMA SelectedStep ==
    ASSUME GatewayOK, [SyncNext]_vars
    PROVE  sel' \in {0, sel, validity} /\ sel0' \in {0, sel0, validity}
<1> USE DEF lookupVars, Finish
<1>1. CASE Request \/ Lookup
  BY <1>1 DEF Request, BeginCreate, BeginUpdate, BeginSummary, Lookup, Select, Search, Fetch
<1>2. CASE CreateStep \/ SummaryStep
  BY <1>2 DEF CreateStep, Stage, LookClear, AppendCreated, AppendRevision, CreateConflict, ConfirmCreated,
     TrackCreated, RecordCreated, SummaryStep, SummaryRefused, SummaryStatus, SummaryTracking
<1>3. CASE UpdateStep
  BY <1>3 DEF UpdateStep, Conflict, InspectInSync, VerifyPrevious, AppendUpdated, AppendRevision, ReplaceFound,
     ReplaceConflict, MarkDeleted, Expunge, SelectFinal, FinalFound, FinalConflict, RecordUpdated,
     RecordConflict, BindConflict
<1>4. CASE Unusable \/ Fail \/ FailJob \/ Crash \/ BootStep
  BY <1>4 DEF Unusable, Fail, FailJob, Crash, BootStep, Boot, BootFail, Serve, gatewayVars
<1>5. CASE OtherClient \/ ServerRenumbers \/ UNCHANGED vars
  BY <1>5 DEF OtherClient, ServerRenumbers, gatewayVars, vars
<1> QED
  BY <1>1, <1>2, <1>3, <1>4, <1>5 DEF SyncNext, JobStep

\* No row names a numbering the folder has not had.
LEMMA NumberingsStep ==
    ASSUME StoreTypeOK, FolderTypeOK, GatewayOK, FolderAgrees, [SyncNext]_vars
    PROVE  \A d \in DraftIds : drafts'[d].uidvalidity <= validity'
<1>0. /\ validity \in Nat /\ validity' \in Nat /\ validity <= validity' /\ sel <= validity /\ sel \in Nat
      /\ \A d \in DraftIds : drafts[d].uidvalidity <= validity /\ drafts[d].uidvalidity \in Nat
  BY MessagesStep, FolderStep, DataAssumption
     DEF FolderTypeOK, FolderAgrees, Validities, GatewayOK, GatewayTypeOK, StoreTypeOK, DraftRecord, NoDraft
<1>1. CASE StartsCreate
  <2>1. PICK k \in Keys, d \in DraftIds, h \in Hashes : BeginCreate(k, d, h)
    BY <1>1 DEF StartsCreate
  <2>2. /\ drafts'[d] = [status |-> "new", revision |-> 1, hash |-> h, uid |-> 0, uidvalidity |-> 0]
        /\ \A e \in DraftIds \ {d} : drafts'[e] = drafts[e]
    BY <2>1, NewRow
  <2> QED
    BY <1>0, <2>2
<1>2. CASE RecordUpdated
  <2>1. /\ drafts'[job.draft] = [status |-> "synced_to_gmx", revision |-> job.rev, hash |-> job.hash,
                                 uid |-> newUid, uidvalidity |-> sel]
        /\ \A d \in DraftIds \ {job.draft} : drafts'[d] = drafts[d]
    BY <1>2, JobUpdateRow
  <2> QED
    BY <1>0, <2>1
<1>3. CASE TrackCreated \/ SummaryTracking
  <2>1. /\ drafts'[job.draft].uidvalidity = sel
        /\ \A d \in DraftIds \ {job.draft} : drafts'[d] = drafts[d]
    BY <1>3, JobTrackingRows
  <2> QED
    BY <1>0, <2>1
<1>4. CASE ~StartsCreate /\ ~RecordUpdated /\ ~TrackCreated /\ ~SummaryTracking
  <2>1. \A d \in DraftIds : drafts'[d].uidvalidity = drafts[d].uidvalidity
    BY <1>4, OtherRows DEF SameTracking
  <2> QED
    BY <1>0, <2>1
<1> QED
  BY <1>1, <1>2, <1>3, <1>4

\* The folder holds messages of drafts the store knows, under UIDs already given.
LEMMA FolderAgreesStep ==
    ASSUME StoreTypeOK, FolderTypeOK, GatewayOK, JobInv, FolderAgrees, [SyncNext]_vars
    PROVE  FolderAgrees'
<1>1. \A u \in Uids : Live(u)' => u < uidNext'
  BY MessagesStep
<1>2. AppendCreated \/ AppendUpdated => job.draft \in DraftIds /\ Present(job.draft)
  BY JobPhases, JobKinds DEF AppendCreated, AppendUpdated, At, JobInv, JobAgrees, Record, Present, NoDraft,
     GatewayOK, ConflictPhases
<1>3. \A w \in Uids : Live(w) => box[w].draft \in DraftIds \cup {None}
  BY DEF FolderTypeOK, Live, Message
<1>4. ASSUME NEW u \in Uids, Live(u)', box'[u].draft # None
      PROVE  Present(box[u].draft)'
  <2>1. PICK d \in DraftIds : d = box'[u].draft /\ Present(d)
    BY <1>2, <1>3, <1>4, MessagesStep DEF FolderAgrees
  <2>2. Present(d)'
    BY <2>1, RowsStay
  <2> QED
    BY <2>1, <2>2 DEF Present
<1>5. ASSUME NEW d \in touched'
      PROVE  Present(d)'
  <2>1. d \in DraftIds
    BY FolderStep DEF FolderTypeOK
  <2>2. Present(d)
    BY <2>1, MessagesStep, DataAssumption DEF FolderAgrees
  <2> QED
    BY <2>1, <2>2, RowsStay
<1>6. \A d \in DraftIds : drafts'[d].uidvalidity <= validity'
  BY NumberingsStep
<1>7. sel' <= validity' /\ sel0' <= validity'
  <2>1. /\ validity \in Nat /\ validity' \in Nat /\ validity <= validity' /\ sel \in Nat /\ sel0 \in Nat
        /\ sel <= validity /\ sel0 <= validity
    BY MessagesStep, FolderStep, DataAssumption
       DEF FolderTypeOK, FolderAgrees, Validities, GatewayOK, GatewayTypeOK
  <2> QED
    BY <2>1, SelectedStep
<1> QED
  BY <1>1, <1>4, <1>5, <1>6, <1>7 DEF FolderAgrees

\* While the numbering stays, a UID that was given keeps its message until that is
\* removed: by EXPUNGE, or by the other client, who touches the draft with it.
UidsLast ==
    /\ uidNext <= uidNext' /\ validity' = validity /\ touched \subseteq touched'
    /\ \A u \in Uids : u < uidNext /\ Live(u)' => Live(u) /\ SameMessage(u)
    /\ \A u \in Uids : Live(u) /\ box[u].draft \in DraftIds \ touched' => Live(u)'

\* Every step but a new numbering and EXPUNGE.
LEMMA UidsLastStep ==
    ASSUME FolderTypeOK, GatewayOK, FolderAgrees, [SyncNext]_vars, ~ServerRenumbers, ~Expunge
    PROVE  UidsLast
<1>0. uidNext \in Nat /\ \A u \in Uids : u \in Nat
  BY DataAssumption DEF FolderTypeOK, Uids
<1>1. CASE UNCHANGED folderVars
  BY <1>0, <1>1 DEF folderVars, Live, UidsLast, SameMessage
<1>2. CASE AppendCreated \/ AppendUpdated
  <2>1. /\ ~Live(uidNext)
        /\ \A w \in Uids \ {uidNext} : box'[w] = box[w]
        /\ uidNext' = uidNext + 1 /\ UNCHANGED <<validity, touched>>
    BY <1>2, AppendEffect
  <2> QED
    BY <1>0, <2>1 DEF Live, UidsLast, SameMessage
<1>3. CASE MarkDeleted
  <2>1. CASE prevUid \in Uids
    <3>1. PICK u \in Uids : FlagDeleted(u)
      BY <1>3, <2>1 DEF MarkDeleted
    <3>2. /\ \A w \in Uids : SameMessage(w) /\ (Live(w)' <=> Live(w))
          /\ UNCHANGED <<uidNext, validity, touched>>
      BY <3>1, FlagEffect
    <3> QED
      BY <1>0, <3>2 DEF UidsLast
  <2>2. CASE prevUid \notin Uids
    <3>1. box' = box /\ UNCHANGED <<uidNext, validity, touched>>
      BY <1>3, <2>2 DEF MarkDeleted, FlagDeleted, FolderTypeOK
    <3> QED
      BY <1>0, <3>1 DEF Live, UidsLast, SameMessage
  <2> QED
    BY <2>1, <2>2
<1>4. CASE OtherClient
  BY <1>4, ExternalTold DEF OtherClient, ExternalEffect, UidsLast, CopiesOf, Live
<1> QED
  BY <1>1, <1>2, <1>3, <1>4, FolderSteps

\* What is known of a UID stays so.
LEMMA NamesLast ==
    ASSUME FolderTypeOK, FolderTypeOK', UidsLast, job' = job, job.draft \in DraftIds, NEW u, NEW m, Names(u, m)
    PROVE  Names(u, m)'
<1>1. u \in Uids /\ u < uidNext /\ uidNext \in Nat /\ u \in Nat /\ uidNext <= uidNext'
  BY DataAssumption DEF Names, FolderTypeOK, Uids, UidsLast
<1>2. uidNext' \in Nat
  BY DataAssumption DEF FolderTypeOK
<1>3. u < uidNext'
  BY <1>1, <1>2
<1> QED
  BY <1>1, <1>3 DEF Names, UidsLast, SameMessage

\* Only these steps lead to a SEARCH, a FETCH or the removal of the old revision.
LEMMA LookupSteps ==
    ASSUME [SyncNext]_vars
    PROVE  \/ step' \notin {"search", "fetch"} /\ phase' # "remove"
           \/ Lookup \/ SelectFinal \/ ReplaceFound \/ MarkDeleted
           \/ UNCHANGED gatewayVars /\ (OtherClient \/ ServerRenumbers \/ UNCHANGED vars)
           \/ phase' = "boot"
<1> USE DEF GoTo
<1>1. CASE Request \/ Unusable \/ Fail \/ FailJob \/ Crash \/ BootStep
  BY <1>1 DEF Request, BeginCreate, BeginUpdate, BeginSummary, Unusable, Fail, FailJob, Finish, Crash, BootStep,
     Boot, BootFail, Serve, gatewayVars
<1>2. CASE CreateStep \/ SummaryStep
  BY <1>2 DEF CreateStep, Stage, LookClear, AppendCreated, AppendRevision, CreateConflict, ConfirmCreated,
     TrackCreated, RecordCreated, SummaryStep, SummaryRefused, SummaryStatus, SummaryTracking, Finish, Seen, At
<1>3. CASE UpdateStep
  BY <1>3 DEF UpdateStep, Conflict, InspectInSync, VerifyPrevious, AppendUpdated, AppendRevision,
     ReplaceConflict, Expunge, FinalFound, FinalConflict, RecordUpdated, RecordConflict, ConflictPhase,
     BindConflict, Finish, Seen, At
<1>4. CASE OtherClient \/ ServerRenumbers \/ UNCHANGED vars
  BY <1>4 DEF OtherClient, ServerRenumbers, vars, gatewayVars
<1> QED
  BY <1>1, <1>2, <1>3, <1>4 DEF SyncNext, JobStep

\* A job looks for the messages of a draft.
LEMMA LookupJob ==
    ASSUME GatewayOK, phase \in Lookups \cup {"remove"}
    PROVE  job.draft \in DraftIds
BY JobPhases, JobKinds DEF GatewayOK, Lookups, ConflictPhases

\* The commands of a lookup belong to one.
LEMMA LookupPhase ==
    ASSUME GatewayOK, StepsAgree, step \in {"select", "search", "fetch", "append"}
    PROVE  phase \in Lookups
BY JobPhases DEF GatewayOK, GatewayTypeOK, StepsAgree, Phases, Lookups, ConflictPhases

\* A lookup and what it has found agree with the folder.
LEMMA LookupAgreesStep ==
    ASSUME FolderTypeOK, GatewayOK, HistoryTypeOK, JobInv, FolderAgrees, LookupAgrees, [SyncNext]_vars
    PROVE  LookupAgrees'
<1>0. FolderTypeOK' /\ StepsAgree /\ StepsAgree'
  BY FolderStep, StepsStep DEF JobInv
<1>1. CASE step' \notin {"search", "fetch"} /\ phase' # "remove"
  BY <1>1 DEF LookupAgrees
<1>2. CASE Select
  BY <1>2 DEF Select, LookupAgrees, folderVars, Lookups
<1>3. CASE Search
  <2>1. \A u \in CopiesOf(job.draft) : u < uidNext /\ box[u].draft = job.draft
    BY DEF CopiesOf, FolderAgrees
  <2>2. CopiesOf(job.draft)' = CopiesOf(job.draft) /\ \A u : Live(u)' <=> Live(u)
    BY <1>3 DEF Search, CopiesOf, Live, folderVars
  <2>3. step' = "fetch" /\ found' = {} /\ hits' = CopiesOf(job.draft) /\ phase' # "remove" /\ phase' = phase
        /\ UNCHANGED <<sel, sel0, validity, box, uidNext, job>>
    BY <1>3 DEF Search, folderVars, Lookups
  <2>4. sel = validity /\ (phase = "verify" => sel0 = validity)
    BY <1>3 DEF Search, LookupAgrees
  <2> QED
    BY <2>1, <2>2, <2>3, <2>4 DEF LookupAgrees
<1>4. CASE \E u \in Uids : Fetch(u)
  <2>1. PICK u \in Uids : Fetch(u)
    BY <1>4
  <2>2. /\ step = "fetch" /\ step' = "fetch" /\ phase' = phase /\ phase # "remove" /\ u \in hits
        /\ hits' = hits \ {u}
        /\ UNCHANGED <<sel, sel0, validity, box, uidNext, job, touched>>
    BY <2>1 DEF Fetch, folderVars, Lookups
  <2> DEFINE m == [uid |-> u, rev |-> box[u].rev, hash |-> box[u].hash]
  <2>3. \/ Live(u) /\ found' = found \cup {m} /\ refused' = refused
        \/ ~Live(u) /\ found' = found /\ refused' = refused
        \/ Live(u) /\ found' = found /\ refused' = refused + 1
    BY <2>1 DEF Fetch
  <2>4. u < uidNext /\ (Live(u) => box[u].draft = job.draft)
    BY <2>2 DEF LookupAgrees
  <2>5. ASSUME NEW x \in found'
        PROVE  Names(x.uid, x)'
    <3>1. CASE x \in found
      <4>1. Names(x.uid, x)
        BY <2>2, <3>1 DEF LookupAgrees
      <4> QED
        BY <2>2, <4>1 DEF Names, Live
    <3>2. CASE x \notin found
      <4>1. Live(u) /\ x = m
        BY <2>3, <2>5, <3>2
      <4> QED
        BY <2>2, <2>4, <4>1 DEF Names, Live
    <3> QED
      BY <3>1, <3>2
  <2>6. CopiesOf(job.draft)' = CopiesOf(job.draft) /\ \A w : Live(w)' <=> Live(w)
    BY <2>2 DEF CopiesOf, Live
  <2>7. ASSUME job.draft \notin touched, refused' = 0, NEW w \in CopiesOf(job.draft)
        PROVE  w \in hits' \/ \E x \in found' : x.uid = w
    <3>1. refused \in Nat
      BY SyncAssumption DEF HistoryTypeOK
    <3>2. w \in hits \/ \E x \in found : x.uid = w
      BY <2>2, <2>3, <2>7, <3>1 DEF LookupAgrees
    <3>3. found \subseteq found'
      BY <2>3
    <3>4. CASE w = u
      <4>1. Live(u)
        BY <2>7, <3>4 DEF CopiesOf
      <4>2. found' = found \cup {m} \/ refused' = refused + 1
        BY <2>3, <4>1
      <4>3. CASE found' = found \cup {m}
        <5>1. m \in found' /\ m.uid = u
          BY <4>3
        <5> QED
          BY <3>4, <5>1
      <4>4. CASE refused' = refused + 1
        BY <2>7, <3>1, <4>4
      <4> QED
        BY <4>2, <4>3, <4>4
    <3>5. CASE w # u
      BY <2>2, <3>2, <3>3, <3>5
    <3> QED
      BY <3>4, <3>5
  <2> QED
    BY <2>2, <2>5, <2>6, <2>7 DEF LookupAgrees
<1>5. CASE SelectFinal
  BY <1>5 DEF SelectFinal, LookupAgrees, folderVars, GoTo
<1>6. CASE ReplaceFound
  BY <1>6 DEF ReplaceFound, LookupAgrees, folderVars, GoTo, Seen, At
<1>7. CASE MarkDeleted
  BY <1>7 DEF MarkDeleted, FlagDeleted, LookupAgrees, lookupVars, GoTo, At
<1>8. CASE UNCHANGED gatewayVars /\ OtherClient
  <2>1. ExternalEffect /\ UNCHANGED <<phase, step, job, hits, found, sel, sel0, refused>>
    BY <1>8, ExternalTold DEF OtherClient, gatewayVars, historyVars
  <2>2. UidsLast
    BY <2>1 DEF ExternalEffect, UidsLast, CopiesOf, Live
  <2>3. CASE step # "fetch"
    BY <2>1, <2>3 DEF ExternalEffect, LookupAgrees
  <2>4. CASE step = "fetch"
    <3>1. CASE phase \notin Lookups
      BY <1>0, <2>4, <3>1, LookupPhase
    <3>2. CASE phase \in Lookups
      <4>1. job.draft \in DraftIds
        BY <3>2, LookupJob
      <4>2. ASSUME NEW x \in found
            PROVE  Names(x.uid, x)'
        <5>1. Names(x.uid, x)
          BY <2>4, <4>2 DEF LookupAgrees
        <5> QED
          BY <1>0, <2>1, <2>2, <4>1, <5>1, NamesLast
      <4>3. ASSUME NEW u \in hits
            PROVE  u < uidNext' /\ (Live(u)' => box'[u].draft = job.draft)
        <5>1. u \in Uids /\ u \in Nat /\ u < uidNext /\ (Live(u) => box[u].draft = job.draft)
          BY <2>4, <4>3 DEF LookupAgrees, GatewayOK, GatewayTypeOK, Uids
        <5>2. uidNext \in Nat /\ uidNext' \in Nat /\ uidNext <= uidNext'
          BY <1>0, <2>1, DataAssumption DEF FolderTypeOK, ExternalEffect
        <5> QED
          BY <2>1, <5>1, <5>2 DEF ExternalEffect, SameMessage
      <4>4. job.draft \notin touched' =>
                job.draft \notin touched /\ CopiesOf(job.draft)' = CopiesOf(job.draft)
        <5>1. PICK d \in DraftIds : d = job.draft
          BY <4>1
        <5>2. d \notin touched' => d \notin touched /\ CopiesOf(d)' = CopiesOf(d)
          BY <2>1 DEF ExternalEffect
        <5> QED
          BY <2>1, <5>1, <5>2 DEF CopiesOf
      <4> QED
        BY <2>1, <4>2, <4>3, <4>4 DEF LookupAgrees, ExternalEffect
    <3> QED
      BY <3>1, <3>2
  <2> QED
    BY <2>3, <2>4
<1>9. CASE UNCHANGED gatewayVars /\ ServerRenumbers
  BY <1>0, <1>9 DEF ServerRenumbers, StepsAgree, LookupAgrees, gatewayVars
<1>10. CASE UNCHANGED vars
  BY <1>10 DEF vars, gatewayVars, folderVars, historyVars, LookupAgrees, Names, CopiesOf, Live
<1>11. CASE phase' = "boot"
  BY <1>0, <1>1, <1>11 DEF StepsAgree
<1> QED
  BY <1>1, <1>2, <1>3, <1>4, <1>5, <1>6, <1>7, <1>8, <1>9, <1>10, <1>11, LookupSteps DEF Lookup

\* Only these steps lead to the use of previous.uid.
LEMMA PreviousSteps ==
    ASSUME [SyncNext]_vars
    PROVE  \/ phase' \notin {"replace", "remove"} /\ ~(phase' = "verify" /\ step' = "append")
           \/ VerifyPrevious \/ AppendUpdated \/ (Lookup /\ phase = "replace") \/ ReplaceFound \/ MarkDeleted
           \/ UNCHANGED <<gatewayVars, storeVars>> /\ (OtherClient \/ ServerRenumbers \/ UNCHANGED vars)
           \/ phase' = "boot"
<1> USE DEF GoTo, At, Seen
<1>1. CASE Request \/ Unusable \/ Fail \/ FailJob \/ Crash \/ BootStep
  BY <1>1 DEF Request, BeginCreate, BeginUpdate, BeginSummary, Unusable, Fail, FailJob, Finish, Crash, BootStep,
     Boot, BootFail, Serve, gatewayVars
<1>2. CASE CreateStep \/ SummaryStep
  BY <1>2 DEF CreateStep, Stage, LookClear, AppendCreated, AppendRevision, CreateConflict, ConfirmCreated,
     TrackCreated, RecordCreated, SummaryStep, SummaryRefused, SummaryStatus, SummaryTracking, Finish
<1>3. CASE UpdateStep
  BY <1>3 DEF UpdateStep, Conflict, InspectInSync,
     ReplaceConflict, Expunge, SelectFinal, FinalFound, FinalConflict, RecordUpdated, RecordConflict, ConflictPhase,
     BindConflict, Finish
<1>4. CASE Lookup
  BY <1>4 DEF Lookup, Select, Search, Fetch, Lookups
<1>5. CASE OtherClient \/ ServerRenumbers \/ UNCHANGED vars
  BY <1>5 DEF OtherClient, ServerRenumbers, vars
<1> QED
  BY <1>1, <1>2, <1>3, <1>4, <1>5 DEF SyncNext, JobStep

\* previous.uid names the revision on record, or nothing, until EXPUNGE.
LEMMA PreviousAgreesStep ==
    ASSUME StoreTypeOK, FolderTypeOK, GatewayOK, JobInv, UidInv, [SyncNext]_vars
    PROVE  PreviousAgrees'
<1> USE DEF At, Seen, GoTo
<1>0. FolderTypeOK' /\ StepsAgree /\ StepsAgree' /\ FolderAgrees /\ LookupAgrees
  BY FolderStep, StepsStep DEF JobInv, UidInv
<1>1. CASE phase' \notin {"replace", "remove"} /\ ~(phase' = "verify" /\ step' = "append")
  BY <1>1 DEF PreviousAgrees
<1>2. ASSUME UidsLast, job' = job, drafts' = drafts, job.draft \in DraftIds,
             NEW u, prevUid' = u, Names(u, Prior)
      PROVE  PreviousAgrees'
  <2>1. PICK m : m = Prior
    OBVIOUS
  <2>2. Names(u, m)'
    BY <1>0, <1>2, <2>1, NamesLast
  <2>3. Prior' = m
    BY <1>2, <2>1 DEF Prior, Record
  <2>4. Names(prevUid, Prior)'
    BY <1>2, <2>2, <2>3 DEF Names
  <2> QED
    BY <2>4 DEF PreviousAgrees
<1>3. CASE VerifyPrevious
  <2>1. phase = "verify" /\ step = "fetch" /\ job' = job /\ drafts' = drafts /\ UNCHANGED folderVars
    BY <1>3 DEF VerifyPrevious, storeVars
  <2>2. PICK m \in found : m.hash = Record.hash /\ m.rev + 1 = job.rev /\ prevUid' = m.uid
    BY <1>3 DEF VerifyPrevious
  <2>3. job.draft \in DraftIds /\ Record.revision + 1 = job.rev /\ Present(job.draft)
    BY <2>1, JobPhases, JobKinds DEF JobInv, JobAgrees, GatewayOK, Present, NoDraft, Record, ConflictPhases
  <2>4. m.rev = Record.revision
    <3>1. m.rev \in Nat
      BY DataAssumption DEF GatewayOK, GatewayTypeOK, ServerDraft
    <3>2. Record.revision \in Nat
      BY <2>3, RevisionsAreNumbers DEF Record
    <3> QED
      BY <2>2, <2>3, <3>1, <3>2
  <2>5. Names(m.uid, m)
    BY <1>0, <2>1 DEF LookupAgrees
  <2>6. Names(m.uid, Prior)
    BY <2>2, <2>4, <2>5 DEF Names, Prior
  <2>7. UidsLast
    BY <1>0, <1>3, <2>1, UidsLastStep DEF Expunge, ServerRenumbers
  <2> QED
    BY <1>2, <2>1, <2>2, <2>3, <2>6, <2>7
<1>4. CASE AppendUpdated
  <2>1. phase = "verify" /\ step = "append" /\ job' = job /\ drafts' = drafts /\ prevUid' = prevUid /\ sel0' = sel0
    BY <1>4 DEF AppendUpdated, AppendRevision, storeVars, lookupVars
  <2>2. UidsLast
    <3>1. step' # step
      BY <1>4, <2>1 DEF AppendUpdated, AppendRevision
    <3> QED
      BY <1>0, <2>1, <3>1, UidsLastStep DEF Expunge, ServerRenumbers, gatewayVars
  <2>3. job.draft \in DraftIds
    BY <2>1, LookupJob DEF Lookups
  <2>4. CASE validity = sel0
    BY <1>2, <2>1, <2>2, <2>3, <2>4 DEF UidInv, PreviousAgrees
  <2>5. CASE validity # sel0
    BY <1>4, <2>1, <2>2, <2>5 DEF PreviousAgrees, UidsLast, AppendUpdated, AppendRevision
  <2> QED
    BY <2>4, <2>5
<1>5. CASE Lookup /\ phase = "replace"
  <2>1. /\ job' = job /\ drafts' = drafts /\ prevUid' = prevUid /\ sel0' = sel0 /\ phase' = phase
        /\ validity' = validity /\ step \in {"select", "search", "fetch"}
    BY <1>5 DEF Lookup, Select, Search, Fetch, storeVars, folderVars
  <2>2. UidsLast
    BY <1>0, <1>5, <2>1, UidsLastStep DEF Expunge, ServerRenumbers, folderVars, gatewayVars, Lookup, Select, Search, Fetch
  <2>3. job.draft \in DraftIds
    BY <1>5, LookupJob DEF Lookups
  <2>4. CASE validity = sel0
    BY <1>2, <1>5, <2>1, <2>2, <2>3, <2>4 DEF UidInv, PreviousAgrees
  <2>5. CASE validity # sel0
    BY <1>5, <2>1, <2>5 DEF PreviousAgrees
  <2> QED
    BY <2>4, <2>5
<1>6. CASE ReplaceFound
  <2>1. phase = "replace" /\ step = "fetch" /\ job' = job /\ drafts' = drafts /\ UNCHANGED folderVars
    BY <1>6 DEF ReplaceFound, storeVars
  <2>2. PICK m \in found : m.hash = Record.hash /\ m.rev + 1 = job.rev
                           /\ prevUid' = IF sel # sel0 THEN m.uid ELSE prevUid
    BY <1>6 DEF ReplaceFound, OldRevision
  <2>3. job.draft \in DraftIds /\ Record.revision + 1 = job.rev /\ Present(job.draft)
    BY <2>1, JobPhases, JobKinds DEF JobInv, JobAgrees, GatewayOK, Present, NoDraft, Record, ConflictPhases
  <2>4. m.rev = Record.revision
    <3>1. m.rev \in Nat
      BY DataAssumption DEF GatewayOK, GatewayTypeOK, ServerDraft
    <3>2. Record.revision \in Nat
      BY <2>3, RevisionsAreNumbers DEF Record
    <3> QED
      BY <2>2, <2>3, <3>1, <3>2
  <2>5. Names(m.uid, m)
    BY <1>0, <2>1 DEF LookupAgrees
  <2>6. Names(m.uid, Prior)
    BY <2>2, <2>4, <2>5 DEF Names, Prior
  <2>7. sel = validity
    BY <1>0, <2>1 DEF LookupAgrees
  <2>8. sel = sel0 => Names(prevUid, Prior)
    BY <2>1, <2>7 DEF UidInv, PreviousAgrees
  <2>9. UidsLast
    BY <1>0, <1>6, <2>1, UidsLastStep DEF Expunge, ServerRenumbers
  <2>10. CASE sel # sel0
    BY <1>2, <2>1, <2>2, <2>3, <2>6, <2>9, <2>10
  <2>11. CASE sel = sel0
    BY <1>2, <2>1, <2>2, <2>3, <2>8, <2>9, <2>11
  <2> QED
    BY <2>10, <2>11
<1>7. CASE MarkDeleted
  <2>1. phase = "remove" /\ step = "store" /\ job' = job /\ drafts' = drafts /\ prevUid' = prevUid
    BY <1>7 DEF MarkDeleted, storeVars, lookupVars
  <2>2. UidsLast
    BY <1>0, <1>7, <2>1, UidsLastStep DEF Expunge, ServerRenumbers
  <2>3. job.draft \in DraftIds
    BY <2>1, LookupJob
  <2> QED
    BY <1>2, <2>1, <2>2, <2>3 DEF UidInv, PreviousAgrees
<1>8. CASE UNCHANGED <<gatewayVars, storeVars>> /\ (OtherClient \/ UNCHANGED vars)
  <2>1. UNCHANGED <<phase, step, job, drafts, prevUid, sel0>>
    BY <1>8 DEF gatewayVars, storeVars
  <2>2. UidsLast
    <3>1. CASE OtherClient
      BY <1>0, <3>1, ExternalTold DEF OtherClient, ExternalEffect, UidsLast, CopiesOf, Live
    <3>2. CASE UNCHANGED vars
      BY <3>2, DataAssumption DEF vars, folderVars, UidsLast, Live, SameMessage, FolderTypeOK, Uids
    <3> QED
      BY <1>8, <3>1, <3>2
  <2>3. CASE \/ (At("verify", "append") \/ phase = "replace") /\ validity = sel0
            \/ phase = "remove"
    <3>1. job.draft \in DraftIds
      BY <2>3, LookupJob DEF Lookups
    <3> QED
      BY <1>2, <2>1, <2>2, <2>3, <3>1 DEF UidInv, PreviousAgrees
  <2>4. CASE /\ ~((At("verify", "append") \/ phase = "replace") /\ validity = sel0)
            /\ phase # "remove"
    BY <2>1, <2>2, <2>4 DEF PreviousAgrees, UidsLast
  <2> QED
    BY <2>3, <2>4
<1>9. CASE UNCHANGED <<gatewayVars, storeVars>> /\ ServerRenumbers
  <2>1. phase' # "remove"
    BY <1>0, <1>9 DEF ServerRenumbers, StepsAgree, gatewayVars
  <2>2. sel0' = sel0 /\ sel0 <= validity /\ validity' = validity + 1 /\ sel0 \in Nat /\ validity \in Nat
    BY <1>0, <1>9, RenumberEffect, DataAssumption
       DEF ServerRenumbers, gatewayVars, FolderAgrees, FolderTypeOK, GatewayOK, GatewayTypeOK, Validities
  <2>3. validity' # sel0'
    BY <2>2
  <2> QED
    BY <2>1, <2>3 DEF PreviousAgrees
<1>10. CASE phase' = "boot"
  BY <1>1, <1>10
<1> QED
  BY <1>1, <1>3, <1>4, <1>5, <1>6, <1>7, <1>8, <1>9, <1>10, PreviousSteps

\* A UID a job goes on with names what the job takes it for.
LEMMA UidsAlwaysName == SyncSpec => []UidInv
<1>1. SyncInit => UidInv
  BY DataAssumption DEF SyncInit, StoreInit, FolderInit, UidInv, FolderAgrees, LookupAgrees, PreviousAgrees,
     Live, NoDraft, At
<1>2. SyncTypeInv /\ JobInv /\ UidInv /\ [SyncNext]_vars => UidInv'
  BY FolderAgreesStep, LookupAgreesStep, PreviousAgreesStep DEF SyncTypeInv, SyncTypeOK, GatewayOK, UidInv
<1> QED
  BY <1>1, <1>2, SyncTypes, JobAlwaysAgrees, PTL DEF SyncSpec

\* UID STORE hits only a message of the job's draft that holds the revision and the
\* content the store has, also after the server renumbered the folder.
THEOREM FlagsPriorRevision == SyncSpec => FlagsOnlyPriorRevision
<1> DEFINE A == \A u \in Uids :
                    At("remove", "store") /\ step' # step /\ ~box[u].deleted /\ box'[u].deleted =>
                        /\ box[u].draft = job.draft
                        /\ box[u].rev = Record.revision
                        /\ box[u].hash = Record.hash
<1>1. ASSUME FolderTypeOK, GatewayOK, JobInv, UidInv, [SyncNext]_vars
      PROVE  A
  <2> SUFFICES ASSUME NEW u \in Uids, At("remove", "store"), step' # step, ~box[u].deleted, box'[u].deleted
               PROVE  /\ box[u].draft = job.draft
                      /\ box[u].rev = Record.revision
                      /\ box[u].hash = Record.hash
    OBVIOUS
  <2>1. Names(prevUid, Prior)
    BY <1>1 DEF UidInv, PreviousAgrees, At
  <2>2. MarkDeleted
    <3>1. box' # box
      OBVIOUS
    <3>2. ~AppendCreated /\ ~AppendUpdated /\ ~Expunge /\ ~OtherClient /\ ~ServerRenumbers
      BY DEF AppendCreated, AppendUpdated, Expunge, OtherClient, ServerRenumbers, At, gatewayVars
    <3> QED
      BY <1>1, <3>1, <3>2, FolderSteps DEF folderVars
  <2>3. u = prevUid /\ Live(u)
    BY <1>1, <2>1, <2>2, FlagEffect DEF MarkDeleted, Names
  <2> QED
    BY <2>1, <2>3 DEF Names, Prior
<1>2. SyncTypeInv /\ JobInv /\ UidInv /\ [SyncNext]_vars => [A]_vars
  BY <1>1 DEF SyncTypeInv, SyncTypeOK, GatewayOK
<1> QED
  BY <1>2, SyncTypes, JobAlwaysAgrees, UidsAlwaysName, PTL DEF SyncSpec, FlagsOnlyPriorRevision

-----------------------------------------------------------------------------
(* Copies                                                                    *)
(*                                                                           *)
(* NoDraftLost is broken by an EXPUNGE that finds every copy marked.  So a   *)
(* marked copy has to have one beside it that is not: the new revision, which *)
(* is there when the old one is marked and which no job has marked, because  *)
(* what is marked is never above the revision on record.                     *)

CopiesKept ==
    \A d \in DraftIds \ touched :
        /\ drafts[d].uid # 0 => CopiesOf(d) # {}
        /\ \A u \in CopiesOf(d) : box[u].deleted =>
              /\ box[u].rev <= drafts[d].revision
              /\ \E w \in CopiesOf(d) : ~box[w].deleted

\* The message a job is about to record is there.
JobCopies ==
    /\ job.op # UpdateOp /\ job.draft \in DraftIds \ touched
    /\ phase = "record" \/ At("summary", "tracking")
    => CopiesOf(job.draft) # {}

\* newUid names the message the job confirmed, unless the folder was renumbered since.
NewestAgrees ==
    /\ phase = "remove" \/ At("final", "select") \/ phase = "record" \/ At("summary", "tracking")
    /\ validity = sel /\ job.draft \in DraftIds \ touched
    => /\ newUid \in CopiesOf(job.draft)
       /\ job.op = UpdateOp => box[newUid].rev = job.rev

CopiesInv == CopiesKept /\ JobCopies /\ NewestAgrees

\* The messages of a draft nobody else has touched, after a step that neither
\* appends, marks, expunges nor renumbers.
LEMMA CopiesSame ==
    ASSUME FolderTypeOK, FolderAgrees, [SyncNext]_vars, ~AppendCreated, ~AppendUpdated, ~MarkDeleted,
           ~Expunge, ~ServerRenumbers, NEW d \in DraftIds \ touched'
    PROVE  /\ CopiesOf(d)' = CopiesOf(d) /\ d \notin touched /\ validity' = validity
           /\ \A u \in CopiesOf(d) : box'[u] = box[u]
<1>1. CASE UNCHANGED folderVars
  BY <1>1 DEF folderVars, CopiesOf, Live
<1>2. CASE OtherClient
  BY <1>2, ExternalTold DEF OtherClient, ExternalEffect
<1> QED
  BY <1>1, <1>2, FolderSteps

\* The messages of a draft after an APPEND.
LEMMA CopiesAppended ==
    ASSUME FolderTypeOK, FolderAgrees, GatewayOK, AppendCreated \/ AppendUpdated, NEW d \in DraftIds
    PROVE  /\ CopiesOf(d)' = CopiesOf(d) \cup (IF d = job.draft THEN {uidNext} ELSE {})
           /\ \A u \in CopiesOf(d) : box'[u] = box[u] /\ u # uidNext
           /\ box'[uidNext].rev = job.rev /\ box'[uidNext].hash = job.hash /\ box'[uidNext].deleted = FALSE
           /\ touched' = touched /\ validity' = validity
<1>1. /\ uidNext \in Uids /\ ~Live(uidNext)
      /\ box'[uidNext] = NewMessage
      /\ NewMessage.draft = job.draft /\ NewMessage.rev = job.rev
      /\ NewMessage.hash = job.hash /\ NewMessage.deleted = FALSE
      /\ NewMessage # NoMessage
      /\ \A w \in Uids \ {uidNext} : box'[w] = box[w]
      /\ UNCHANGED <<validity, touched>>
  BY AppendEffect
<1>2. \A u \in CopiesOf(d) : u \in Uids /\ Live(u)
  BY DEF CopiesOf
<1>3. \A u \in Uids : u \in CopiesOf(d)' <=> u \in CopiesOf(d) \/ (u = uidNext /\ d = job.draft)
  BY <1>1 DEF CopiesOf, Live
<1>4. CopiesOf(d)' \subseteq Uids /\ CopiesOf(d) \subseteq Uids
  BY DEF CopiesOf
<1>5. CopiesOf(d)' = CopiesOf(d) \cup (IF d = job.draft THEN {uidNext} ELSE {})
  BY <1>1, <1>3, <1>4
<1> QED
  BY <1>1, <1>2, <1>5

\* The messages of a draft after UID STORE.
LEMMA CopiesFlagged ==
    ASSUME FolderTypeOK, NEW u \in Uids, FlagDeleted(u), NEW d \in DraftIds
    PROVE  /\ CopiesOf(d)' = CopiesOf(d) /\ UNCHANGED <<touched, validity>>
           /\ \A w \in CopiesOf(d) :
                 /\ box'[w].rev = box[w].rev /\ box'[w].hash = box[w].hash
                 /\ box'[w].deleted <=> (box[w].deleted \/ w = u)
<1>1. /\ \A w \in Uids : SameMessage(w) /\ (Live(w)' <=> Live(w))
      /\ \A w \in Uids : box'[w].deleted <=> (box[w].deleted \/ (w = u /\ Live(u)))
      /\ UNCHANGED <<uidNext, validity, touched>>
  BY FlagEffect
<1> QED
  BY <1>1 DEF CopiesOf, SameMessage

\* The messages of a draft after EXPUNGE.
LEMMA CopiesExpunged ==
    ASSUME FolderTypeOK, ExpungeDeleted, NEW d \in DraftIds
    PROVE  /\ CopiesOf(d)' = {u \in CopiesOf(d) : ~box[u].deleted} /\ UNCHANGED <<touched, validity>>
           /\ \A u \in CopiesOf(d)' : box'[u] = box[u]
BY ExpungeEffect DEF CopiesOf

\* The messages of a draft after a new numbering.
LEMMA CopiesRenumbered ==
    ASSUME FolderTypeOK, NEW old, RenumberedBy(old), NEW d \in DraftIds
    PROVE  /\ \A u \in CopiesOf(d)' : old[u] \in CopiesOf(d) /\ box'[u] = box[old[u]]
           /\ \A w \in CopiesOf(d) : \E u \in CopiesOf(d)' : old[u] = w
           /\ \A u, w \in CopiesOf(d)' : old[u] = old[w] => u = w
BY DEF RenumberedBy, CopiesOf

\* The revision of a message and of a row are numbers.
LEMMA RevisionNumbers ==
    ASSUME StoreTypeOK, FolderTypeOK, NEW d \in DraftIds
    PROVE  /\ \A u \in CopiesOf(d) : u \in Uids /\ box[u] \in Message /\ box[u].rev \in Nat
           /\ drafts[d].revision \in Nat
<1>1. \A u \in CopiesOf(d) : u \in Uids /\ box[u] \in Message
  BY DEF CopiesOf, Live, FolderTypeOK
<1>2. \A u \in CopiesOf(d) : box[u].rev \in Nat
  BY <1>1, DataAssumption DEF Message
<1>3. drafts[d].revision \in Nat
  BY DataAssumption DEF StoreTypeOK, DraftRecord, NoDraft, Revisions
<1> QED
  BY <1>1, <1>2, <1>3

\* A draft without a row has no message.
LEMMA NoRowNoCopy ==
    ASSUME FolderAgrees, NEW d \in DraftIds, ~Present(d)
    PROVE  CopiesOf(d) = {}
BY DataAssumption DEF FolderAgrees, CopiesOf

\* A step that changes messages writes no row.
LEMMA MessagesOrRows ==
    ASSUME AppendCreated \/ AppendUpdated \/ MarkDeleted \/ Expunge \/ OtherClient \/ ServerRenumbers
    PROVE  drafts' = drafts /\ job' = job /\ idem' = idem
BY DEF AppendCreated, AppendUpdated, AppendRevision, MarkDeleted, Expunge, OtherClient, ServerRenumbers,
   storeVars, gatewayVars

\* A revision on record is never taken back, and a row gets a UID only through the
\* job that works on its draft.
LEMMA RowsGrow ==
    ASSUME StoreTypeOK, GatewayOK, JobInv, [SyncNext]_vars, NEW d \in DraftIds, Present(d)
    PROVE  /\ drafts'[d].revision >= drafts[d].revision
           /\ drafts'[d].uid # 0 => \/ drafts[d].uid # 0
                                    \/ (TrackCreated \/ SummaryTracking) /\ d = job.draft
<1>0. drafts[d].revision \in Nat
  BY RevisionsAreNumbers
<1>1. CASE StartsCreate
  <2>1. PICK k \in Keys, e \in DraftIds, h \in Hashes : BeginCreate(k, e, h)
    BY <1>1 DEF StartsCreate
  <2>2. ~Present(e) /\ \A x \in DraftIds \ {e} : drafts'[x] = drafts[x]
    BY <2>1, NewRow
  <2>3. drafts'[d] = drafts[d]
    BY <2>2
  <2> QED
    BY <1>0, <2>3
<1>2. CASE RecordUpdated
  <2>1. /\ job.op = UpdateOp /\ job.draft \in DraftIds
        /\ drafts'[job.draft] = [status |-> "synced_to_gmx", revision |-> job.rev, hash |-> job.hash,
                                 uid |-> newUid, uidvalidity |-> sel]
        /\ \A e \in DraftIds \ {job.draft} : drafts'[e] = drafts[e]
    BY <1>2, JobUpdateRow
  <2>2. Record.revision + 1 = job.rev /\ Record.status = "synced_to_gmx"
    BY <1>2, <2>1 DEF RecordUpdated, JobInv, JobAgrees, At, ConflictPhases
  <2>3. Record.uid # 0
    BY <2>1, <2>2 DEF JobInv, UidsAgree, Record
  <2> QED
    BY <1>0, <2>1, <2>2, <2>3 DEF Record
<1>3. CASE TrackCreated \/ SummaryTracking
  BY <1>0, <1>3, JobTrackingRows DEF SameContent, SameTracking
<1> QED
  BY <1>0, <1>1, <1>2, <1>3, OtherRows DEF SameContent, SameTracking

\* The message UID STORE is about to mark, the one that stays, and what was marked
\* before.
LEMMA Removal ==
    ASSUME StoreTypeOK, FolderTypeOK, GatewayOK, JobInv, UidInv, CopiesInv, phase = "remove",
           NEW d \in DraftIds \ touched, d = job.draft
    PROVE  /\ prevUid \in CopiesOf(d) /\ box[prevUid].rev = drafts[d].revision
           /\ newUid \in CopiesOf(d) /\ box[newUid].rev = drafts[d].revision + 1
           /\ ~box[newUid].deleted
<1>1. job.op = UpdateOp /\ job.rev = drafts[d].revision + 1
  BY JobPhases DEF GatewayOK, JobInv, JobAgrees, Record, ConflictPhases
<1>2. Names(prevUid, Prior)
  BY DEF UidInv, PreviousAgrees
<1>3. prevUid \in CopiesOf(d) /\ box[prevUid].rev = drafts[d].revision
  BY <1>2 DEF Names, Prior, Record, CopiesOf
<1>4. newUid \in CopiesOf(d) /\ box[newUid].rev = job.rev
  BY <1>1 DEF UidInv, LookupAgrees, CopiesInv, NewestAgrees
<1>5. ~box[newUid].deleted
  <2>1. drafts[d].revision \in Nat
    BY RevisionNumbers
  <2> QED
    BY <1>1, <1>4, <2>1 DEF CopiesInv, CopiesKept
<1> QED
  BY <1>1, <1>3, <1>4, <1>5

\* What is marked for deletion has a copy beside it that is not.
LEMMA CopiesKeptStep ==
    ASSUME StoreTypeOK, FolderTypeOK, GatewayOK, JobInv, UidInv, CopiesInv, [SyncNext]_vars
    PROVE  CopiesKept'
<1>0. FolderAgrees /\ CopiesKept
  BY DEF UidInv, CopiesInv
<1> SUFFICES ASSUME NEW d \in DraftIds \ touched'
             PROVE  /\ drafts'[d].uid # 0 => CopiesOf(d)' # {}
                    /\ \A u \in CopiesOf(d)' : box'[u].deleted =>
                          /\ box'[u].rev <= drafts'[d].revision
                          /\ \E w \in CopiesOf(d)' : ~box'[w].deleted
  BY DEF CopiesKept
<1>1. CASE AppendCreated \/ AppendUpdated
  <2>1. drafts' = drafts
    BY <1>1, MessagesOrRows
  <2>2. /\ CopiesOf(d)' = CopiesOf(d) \cup (IF d = job.draft THEN {uidNext} ELSE {})
        /\ \A u \in CopiesOf(d) : box'[u] = box[u] /\ u # uidNext
        /\ box'[uidNext].deleted = FALSE
        /\ touched' = touched
    BY <1>0, <1>1, CopiesAppended
  <2> QED
    BY <1>0, <2>1, <2>2 DEF CopiesKept
<1>2. CASE MarkDeleted
  <2>1. drafts' = drafts /\ phase = "remove"
    BY <1>2, MessagesOrRows DEF MarkDeleted, At
  <2>2. Names(prevUid, Prior)
    BY <2>1 DEF UidInv, PreviousAgrees
  <2>3. PICK u \in Uids : u = prevUid /\ FlagDeleted(u)
    BY <1>2, <2>2 DEF Names, MarkDeleted
  <2>4. /\ CopiesOf(d)' = CopiesOf(d) /\ touched' = touched
        /\ \A w \in CopiesOf(d) :
              /\ box'[w].rev = box[w].rev
              /\ box'[w].deleted <=> (box[w].deleted \/ w = u)
    BY <2>3, CopiesFlagged
  <2>5. CASE d = job.draft
    <3>1. /\ prevUid \in CopiesOf(d) /\ box[prevUid].rev = drafts[d].revision
          /\ newUid \in CopiesOf(d) /\ box[newUid].rev = drafts[d].revision + 1
          /\ ~box[newUid].deleted
      BY <2>1, <2>4, <2>5, Removal
    <3>2. drafts[d].revision \in Nat
      BY RevisionNumbers
    <3>3. newUid # u
      BY <2>3, <3>1, <3>2
    <3> QED
      BY <1>0, <2>1, <2>3, <2>4, <3>1, <3>2, <3>3 DEF CopiesKept
  <2>6. CASE d # job.draft
    <3>1. u \notin CopiesOf(d)
      BY <2>2, <2>3, <2>6 DEF Names, CopiesOf
    <3> QED
      BY <1>0, <2>1, <2>4, <3>1 DEF CopiesKept
  <2> QED
    BY <2>5, <2>6
<1>3. CASE Expunge
  <2>1. drafts' = drafts
    BY <1>3, MessagesOrRows
  <2>2. /\ CopiesOf(d)' = {u \in CopiesOf(d) : ~box[u].deleted} /\ touched' = touched
        /\ \A u \in CopiesOf(d)' : box'[u] = box[u]
    BY <1>3, CopiesExpunged DEF Expunge
  <2>3. \A u \in CopiesOf(d)' : ~box'[u].deleted
    BY <2>2
  <2>4. CopiesOf(d) # {} => CopiesOf(d)' # {}
    BY <1>0, <2>2 DEF CopiesKept
  <2> QED
    BY <1>0, <2>1, <2>2, <2>3, <2>4 DEF CopiesKept
<1>4. CASE ServerRenumbers
  <2>1. drafts' = drafts /\ Renumber
    BY <1>4, MessagesOrRows DEF ServerRenumbers
  <2>2. touched' = touched /\ \E old : RenumberedBy(old)
    BY <2>1, RenumberEffect
  <2>3. PICK old : RenumberedBy(old)
    BY <2>2
  <2>4. /\ \A u \in CopiesOf(d)' : old[u] \in CopiesOf(d) /\ box'[u] = box[old[u]]
        /\ \A w \in CopiesOf(d) : \E u \in CopiesOf(d)' : old[u] = w
    BY <2>3, CopiesRenumbered
  <2> QED
    BY <1>0, <2>1, <2>2, <2>4 DEF CopiesKept
<1>5. CASE ~AppendCreated /\ ~AppendUpdated /\ ~MarkDeleted /\ ~Expunge /\ ~ServerRenumbers
  <2>1. /\ CopiesOf(d)' = CopiesOf(d) /\ d \notin touched
        /\ \A u \in CopiesOf(d) : box'[u] = box[u]
    BY <1>0, <1>5, CopiesSame
  <2>2. CASE ~Present(d)
    <3>1. CopiesOf(d) = {}
      BY <1>0, <2>2, NoRowNoCopy
    <3>2. drafts'[d].uid = 0
      <4>1. drafts[d] = NoDraft /\ drafts[d].uid = 0
        BY <2>2 DEF Present, NoDraft
      <4>2. CASE StartsCreate
        <5>1. PICK k \in Keys, e \in DraftIds, h \in Hashes : BeginCreate(k, e, h)
          BY <4>2 DEF StartsCreate
        <5>2. /\ drafts'[e] = [status |-> "new", revision |-> 1, hash |-> h, uid |-> 0, uidvalidity |-> 0]
              /\ \A x \in DraftIds \ {e} : drafts'[x] = drafts[x]
          BY <5>1, NewRow
        <5> QED
          BY <4>1, <5>2
      <4>3. CASE RecordUpdated
        BY <2>2, <4>1, <4>3, JobUpdateRow DEF SameTracking
      <4>4. CASE TrackCreated \/ SummaryTracking
        BY <2>2, <4>1, <4>4, JobTrackingRows DEF SameTracking
      <4> QED
        BY <4>1, <4>2, <4>3, <4>4, OtherRows DEF SameTracking
    <3> QED
      BY <2>1, <3>1, <3>2
  <2>3. CASE Present(d)
    <3>1. /\ drafts'[d].revision >= drafts[d].revision
          /\ drafts'[d].uid # 0 => drafts[d].uid # 0 \/ ((TrackCreated \/ SummaryTracking) /\ d = job.draft)
      BY <2>3, RowsGrow
    <3>2. ASSUME (TrackCreated \/ SummaryTracking) /\ d = job.draft
          PROVE  CopiesOf(d) # {}
      <4>1. job.op # UpdateOp /\ (phase = "record" \/ At("summary", "tracking"))
        BY <3>2, JobPhases DEF TrackCreated, SummaryTracking, At, CreateOp, UpdateOp, SummaryOp
      <4>2. job.draft \in DraftIds \ touched
        BY <2>1, <3>2
      <4>3. CopiesOf(job.draft) # {}
        BY <4>1, <4>2 DEF CopiesInv, JobCopies
      <4> QED
        BY <2>1, <3>2, <4>3
    <3>3. drafts'[d].uid # 0 => CopiesOf(d) # {}
      BY <1>0, <2>1, <3>1, <3>2 DEF CopiesKept
    <3>4. drafts'[d].revision \in Nat /\ drafts[d].revision \in Nat
      <4>1. StoreTypeOK'
        BY StoreCalls, TypeStep
      <4> QED
        BY <4>1, RevisionNumbers, DataAssumption DEF StoreTypeOK, DraftRecord, NoDraft, Revisions
    <3>5. \A u \in CopiesOf(d) : box[u].rev \in Nat
      BY RevisionNumbers
    <3>6. \A u \in CopiesOf(d) : box[u].deleted => box[u].rev <= drafts'[d].revision
      BY <1>0, <2>1, <3>1, <3>4, <3>5 DEF CopiesKept
    <3> QED
      BY <1>0, <2>1, <3>3, <3>6 DEF CopiesKept
  <2> QED
    BY <2>2, <2>3
<1> QED
  BY <1>1, <1>2, <1>3, <1>4, <1>5

\* Only these steps lead to the use of the UID of the new message.
LEMMA NewestSteps ==
    ASSUME [SyncNext]_vars
    PROVE  \/ phase' \notin {"remove", "record"} /\ ~At("final", "select")' /\ ~At("summary", "tracking")'
           \/ ReplaceFound \/ MarkDeleted \/ Expunge \/ SelectFinal \/ FinalFound
           \/ ConfirmCreated \/ TrackCreated \/ SummaryStatus
           \/ UNCHANGED gatewayVars /\ (OtherClient \/ ServerRenumbers \/ UNCHANGED vars)
           \/ phase' = "boot"
<1> USE DEF GoTo, At, Seen
<1>1. CASE Request \/ Unusable \/ Fail \/ FailJob \/ Crash \/ BootStep
  BY <1>1 DEF Request, BeginCreate, BeginUpdate, BeginSummary, Unusable, Fail, FailJob, Finish, Crash, BootStep,
     Boot, BootFail, Serve, gatewayVars
<1>2. CASE CreateStep \/ SummaryStep
  BY <1>2 DEF CreateStep, Stage, LookClear, AppendCreated, AppendRevision, CreateConflict, RecordCreated,
     SummaryStep, SummaryRefused, SummaryTracking, Finish
<1>3. CASE UpdateStep
  BY <1>3 DEF UpdateStep, Conflict, InspectInSync, VerifyPrevious, AppendUpdated, AppendRevision,
     ReplaceConflict, FinalConflict, RecordUpdated, RecordConflict, ConflictPhase, BindConflict, Finish
<1>4. CASE Lookup
  BY <1>4 DEF Lookup, Select, Search, Fetch, Lookups
<1>5. CASE OtherClient \/ ServerRenumbers \/ UNCHANGED vars
  BY <1>5 DEF OtherClient, ServerRenumbers, vars
<1> QED
  BY <1>1, <1>2, <1>3, <1>4, <1>5 DEF SyncNext, JobStep

\* The UID of the new message names it until it is recorded.
LEMMA NewestAgreesStep ==
    ASSUME StoreTypeOK, FolderTypeOK, GatewayOK, JobInv, UidInv, CopiesInv, [SyncNext]_vars
    PROVE  NewestAgrees'
<1> USE DEF At, Seen, GoTo
<1>0. /\ FolderAgrees /\ LookupAgrees /\ NewestAgrees /\ StepsAgree'
      /\ sel <= validity /\ sel \in Nat /\ validity \in Nat
  BY StepsStep, DataAssumption
     DEF JobInv, UidInv, CopiesInv, FolderAgrees, FolderTypeOK, GatewayOK, GatewayTypeOK, Validities
<1>1. CASE phase' \notin {"remove", "record"} /\ ~At("final", "select")' /\ ~At("summary", "tracking")'
  BY <1>1 DEF NewestAgrees
<1>2. ASSUME NEW u \in Uids, newUid' = u, job' = job, NEW d \in DraftIds, d = job.draft,
             validity' = sel' /\ d \notin touched' =>
                u \in CopiesOf(d)' /\ (job.op = UpdateOp => box'[u].rev = job.rev)
      PROVE  NewestAgrees'
  BY <1>2 DEF NewestAgrees, CopiesOf, Live
<1>3. ASSUME NEW m \in found, step = "fetch", phase \in Lookups, newUid' = m.uid, job' = job, UNCHANGED folderVars,
             job.op = UpdateOp => m.rev = job.rev
      PROVE  NewestAgrees'
  <2>1. PICK d \in DraftIds : d = job.draft
    BY <1>3, LookupJob
  <2>2. Names(m.uid, m)
    BY <1>0, <1>3 DEF LookupAgrees
  <2>3. m.uid \in Uids
    BY <2>2 DEF Names
  <2>4. d \notin touched' =>
            m.uid \in CopiesOf(d)' /\ (job.op = UpdateOp => box'[m.uid].rev = job.rev)
    BY <1>3, <2>1, <2>2 DEF Names, CopiesOf, Live, folderVars
  <2> QED
    BY <1>2, <1>3, <2>1, <2>3, <2>4
<1>4. CASE ReplaceFound \/ FinalFound
  <2>1. PICK m \in found : newUid' = m.uid /\ NewRevision(m)
    BY <1>4 DEF ReplaceFound, FinalFound
  <2> QED
    BY <1>3, <1>4, <2>1 DEF ReplaceFound, FinalFound, NewRevision, Lookups
<1>5. CASE ConfirmCreated \/ SummaryStatus
  <2>1. PICK m \in found : newUid' = m.uid
    BY <1>5 DEF ConfirmCreated, SummaryStatus
  <2>2. job.op # UpdateOp
    BY <1>5, JobPhases DEF ConfirmCreated, SummaryStatus, CreateOp, UpdateOp, SummaryOp
  <2> QED
    BY <1>3, <1>5, <2>1, <2>2 DEF ConfirmCreated, SummaryStatus, Lookups
<1>6. CASE MarkDeleted \/ Expunge
  <2>1. PICK d \in DraftIds : d = job.draft
    BY <1>6, LookupJob DEF MarkDeleted, Expunge
  <2>2. phase = "remove" /\ UNCHANGED <<job, newUid, sel, drafts>>
    BY <1>6 DEF MarkDeleted, Expunge, lookupVars, storeVars
  <2>3. newUid \in Uids /\ job.op = UpdateOp /\ job.rev = drafts[d].revision + 1
    BY <2>1, <2>2, JobPhases DEF GatewayOK, JobInv, UidsAgree, JobAgrees, Record, ConflictPhases
  <2>4. ASSUME d \notin touched
        PROVE  newUid \in CopiesOf(d) /\ box[newUid].rev = job.rev /\ ~box[newUid].deleted
    BY <2>1, <2>2, <2>3, <2>4, Removal
  <2>5. CASE MarkDeleted
    <3>1. prevUid \in Uids
      BY <2>2 DEF UidInv, PreviousAgrees, Names
    <3>2. PICK w \in Uids : FlagDeleted(w)
      BY <2>5, <3>1 DEF MarkDeleted
    <3>3. CopiesOf(d)' = CopiesOf(d) /\ touched' = touched /\ \A u \in CopiesOf(d) : box'[u].rev = box[u].rev
      BY <3>2, CopiesFlagged
    <3> QED
      BY <1>2, <2>1, <2>2, <2>3, <2>4, <3>3
  <2>6. CASE Expunge
    <3>1. /\ CopiesOf(d)' = {u \in CopiesOf(d) : ~box[u].deleted} /\ touched' = touched
          /\ \A u \in CopiesOf(d)' : box'[u] = box[u]
      BY <2>6, CopiesExpunged DEF Expunge
    <3> QED
      BY <1>2, <2>1, <2>2, <2>3, <2>4, <3>1
  <2> QED
    BY <1>6, <2>5, <2>6
<1>7. CASE SelectFinal \/ TrackCreated
  <2>1. UNCHANGED <<job, newUid>> /\ UNCHANGED folderVars /\ (SelectFinal \/ sel' = sel)
    BY <1>7 DEF SelectFinal, TrackCreated, lookupVars
  <2>2. PICK d \in DraftIds : d = job.draft
    BY <1>7, JobPhases, JobKinds DEF GatewayOK, SelectFinal, TrackCreated, ConflictPhases
  <2>3. CASE SelectFinal /\ validity # sel
    BY <2>3 DEF SelectFinal, NewestAgrees
  <2>4. CASE (SelectFinal /\ validity = sel) \/ TrackCreated
    <3>1. newUid \in Uids
      BY <2>4 DEF SelectFinal, TrackCreated, JobInv, UidsAgree
    <3>2. validity = sel /\ d \notin touched =>
              newUid \in CopiesOf(d) /\ (job.op = UpdateOp => box[newUid].rev = job.rev)
      BY <1>0, <2>2, <2>4 DEF NewestAgrees, SelectFinal, TrackCreated
    <3>3. sel' = sel
      BY <2>1, <2>4 DEF SelectFinal, TrackCreated, lookupVars
    <3>4. CopiesOf(d)' = CopiesOf(d) /\ UNCHANGED <<box, touched, validity>>
      BY <2>1 DEF folderVars, CopiesOf, Live
    <3> QED
      BY <1>2, <2>1, <2>2, <3>1, <3>2, <3>3, <3>4
  <2> QED
    BY <1>7, <2>3, <2>4
<1>8. CASE UNCHANGED gatewayVars /\ (OtherClient \/ UNCHANGED vars)
  <2>1. UNCHANGED <<phase, step, job, newUid, sel>>
    BY <1>8 DEF gatewayVars
  <2>2. CASE (phase \in {"remove", "record"} \/ At("final", "select") \/ At("summary", "tracking"))
    <3>1. PICK d \in DraftIds : d = job.draft
      BY <2>2, JobPhases, JobKinds DEF GatewayOK, ConflictPhases
    <3>2. newUid \in Uids
      BY <2>2 DEF JobInv, UidsAgree
    <3>3. validity = sel /\ d \notin touched =>
              newUid \in CopiesOf(d) /\ (job.op = UpdateOp => box[newUid].rev = job.rev)
      BY <1>0, <2>2, <3>1 DEF NewestAgrees
    <3>4. d \notin touched' =>
              /\ CopiesOf(d)' = CopiesOf(d) /\ d \notin touched /\ validity' = validity
              /\ \A u \in CopiesOf(d) : box'[u] = box[u]
      <4>1. CASE OtherClient
        BY <1>0, <4>1, ExternalTold DEF OtherClient, ExternalEffect
      <4>2. CASE UNCHANGED vars
        BY <4>2 DEF vars, folderVars, CopiesOf, Live
      <4> QED
        BY <1>8, <4>1, <4>2
    <3> QED
      BY <1>2, <2>1, <3>1, <3>2, <3>3, <3>4
  <2>3. CASE ~(phase \in {"remove", "record"} \/ At("final", "select") \/ At("summary", "tracking"))
    BY <2>1, <2>3 DEF NewestAgrees
  <2> QED
    BY <2>2, <2>3
<1>9. CASE UNCHANGED gatewayVars /\ ServerRenumbers
  <2>1. sel' = sel /\ validity' = validity + 1
    BY <1>9, RenumberEffect DEF ServerRenumbers, gatewayVars
  <2>2. validity' # sel'
    BY <1>0, <2>1
  <2> QED
    BY <2>2 DEF NewestAgrees
<1>10. CASE phase' = "boot"
  BY <1>0, <1>10 DEF StepsAgree, NewestAgrees
<1> QED
  BY <1>1, <1>4, <1>5, <1>6, <1>7, <1>8, <1>9, <1>10, NewestSteps

\* The message a job is about to record stays.
LEMMA JobCopiesStep ==
    ASSUME StoreTypeOK, FolderTypeOK, GatewayOK, JobInv, UidInv, CopiesInv, [SyncNext]_vars
    PROVE  JobCopies'
<1> USE DEF At, Seen, GoTo
<1>0. FolderAgrees /\ LookupAgrees /\ JobCopies /\ StepsAgree'
  BY StepsStep DEF JobInv, UidInv, CopiesInv
<1>1. CASE phase' \notin {"remove", "record"} /\ ~At("final", "select")' /\ ~At("summary", "tracking")'
  BY <1>1 DEF JobCopies
<1>2. ASSUME job' = job, NEW d \in DraftIds, d = job.draft, d \notin touched' => CopiesOf(d)' # {}
      PROVE  JobCopies'
  BY <1>2 DEF JobCopies, CopiesOf, Live
<1>3. CASE ReplaceFound \/ FinalFound \/ MarkDeleted \/ Expunge \/ SelectFinal
  <2>1. job' = job /\ job.op = UpdateOp
    BY <1>3, JobPhases DEF GatewayOK, ReplaceFound, FinalFound, MarkDeleted, Expunge, SelectFinal, ConflictPhases
  <2> QED
    BY <2>1 DEF JobCopies
<1>4. CASE ConfirmCreated \/ SummaryStatus
  <2>1. /\ step = "fetch" /\ phase \in Lookups /\ job' = job /\ UNCHANGED folderVars
        /\ \E m \in found : newUid' = m.uid
    BY <1>4 DEF ConfirmCreated, SummaryStatus, Lookups
  <2>2. PICK m \in found : newUid' = m.uid
    BY <2>1
  <2>3. PICK d \in DraftIds : d = job.draft
    BY <2>1, LookupJob
  <2>4. Names(m.uid, m)
    BY <1>0, <2>1 DEF LookupAgrees
  <2>5. d \notin touched => m.uid \in CopiesOf(d)
    BY <2>3, <2>4 DEF Names, CopiesOf
  <2>6. CopiesOf(d)' = CopiesOf(d) /\ touched' = touched
    BY <2>1 DEF folderVars, CopiesOf, Live
  <2> QED
    BY <1>2, <2>1, <2>3, <2>5, <2>6
<1>5. ASSUME job' = job, UNCHANGED <<phase, step>> \/ TrackCreated, job.op # UpdateOp,
             phase = "record" \/ At("summary", "tracking"), NEW d \in DraftIds, d = job.draft,
             d \notin touched' => d \notin touched /\ (CopiesOf(d) # {} => CopiesOf(d)' # {})
      PROVE  JobCopies'
  <2>1. d \notin touched => CopiesOf(d) # {}
    BY <1>0, <1>5 DEF JobCopies
  <2> QED
    BY <1>2, <1>5, <2>1
<1>6. CASE TrackCreated
  <2>1. job' = job /\ phase = "record" /\ UNCHANGED folderVars /\ job.op # UpdateOp
    BY <1>6, JobPhases DEF TrackCreated, CreateOp, UpdateOp
  <2>2. PICK d \in DraftIds : d = job.draft
    BY <2>1, JobPhases, JobKinds DEF GatewayOK
  <2>3. CopiesOf(d)' = CopiesOf(d) /\ touched' = touched
    BY <2>1 DEF folderVars, CopiesOf, Live
  <2> QED
    BY <1>5, <1>6, <2>1, <2>2, <2>3
<1>7. CASE UNCHANGED gatewayVars /\ (OtherClient \/ ServerRenumbers \/ UNCHANGED vars)
  <2>1. UNCHANGED <<phase, step, job>>
    BY <1>7 DEF gatewayVars
  <2>2. CASE job.op # UpdateOp /\ (phase = "record" \/ At("summary", "tracking"))
    <3>1. PICK d \in DraftIds : d = job.draft
      BY <2>2, JobPhases, JobKinds DEF GatewayOK
    <3>2. d \notin touched' => d \notin touched /\ (CopiesOf(d) # {} => CopiesOf(d)' # {})
      <4>1. CASE OtherClient
        BY <1>0, <4>1, ExternalTold DEF OtherClient, ExternalEffect
      <4>2. CASE UNCHANGED vars
        BY <4>2 DEF vars, folderVars, CopiesOf, Live
      <4>3. CASE ServerRenumbers
        <5>1. touched' = touched /\ \E old : RenumberedBy(old)
          BY <4>3, RenumberEffect DEF ServerRenumbers
        <5>2. PICK old : RenumberedBy(old)
          BY <5>1
        <5>3. \A w \in CopiesOf(d) : \E u \in CopiesOf(d)' : old[u] = w
          BY <5>2, CopiesRenumbered
        <5> QED
          BY <5>1, <5>3
      <4> QED
        BY <1>7, <4>1, <4>2, <4>3
    <3> QED
      BY <1>5, <2>1, <2>2, <3>1, <3>2
  <2>3. CASE ~(job.op # UpdateOp /\ (phase = "record" \/ At("summary", "tracking")))
    BY <2>1, <2>3 DEF JobCopies
  <2> QED
    BY <2>2, <2>3
<1>8. CASE phase' = "boot"
  BY <1>0, <1>8 DEF StepsAgree, JobCopies
<1> QED
  BY <1>1, <1>3, <1>4, <1>6, <1>7, <1>8, NewestSteps

\* Beside a marked message of a draft is one that is not.
LEMMA CopiesAlwaysKept == SyncSpec => []CopiesInv
<1>1. SyncInit => CopiesInv
  BY DataAssumption DEF SyncInit, StoreInit, FolderInit, CopiesInv, CopiesKept, JobCopies, NewestAgrees,
     CopiesOf, Live, NoDraft, At
<1>2. SyncTypeInv /\ JobInv /\ UidInv /\ CopiesInv /\ [SyncNext]_vars => CopiesInv'
  BY CopiesKeptStep, JobCopiesStep, NewestAgreesStep DEF SyncTypeInv, SyncTypeOK, GatewayOK, CopiesInv
<1> QED
  BY <1>1, <1>2, SyncTypes, JobAlwaysAgrees, UidsAlwaysName, PTL DEF SyncSpec

\* A draft that was confirmed on the server once is still there in some revision, at
\* every point of an update, a failure or a crash.
THEOREM NoDraftEverLost == SyncSpec => []NoDraftLost
<1>1. CopiesInv => NoDraftLost
  BY DEF CopiesInv, CopiesKept, NoDraftLost
<1> QED
  BY <1>1, CopiesAlwaysKept, PTL

-----------------------------------------------------------------------------
(* Revisions                                                                 *)
(*                                                                           *)
(* Which revisions of a draft are there.  An update appends revision n + 1   *)
(* only where it has made sure that there is none: because every FETCH was   *)
(* answered, or because without a crash every update before it has removed   *)
(* what it replaced.  After a crash and a refused FETCH neither holds, and   *)
(* there is nothing to prove but what CopiesInv says.                        *)

\* A creation works on a draft that had no message before it.
FreshCopies ==
    job.op = CreateOp /\ job.draft \in DraftIds \ touched =>
        /\ phase \in {"stage", "look"} => CopiesOf(job.draft) = {}
        /\ phase = "confirm" => CopiesOf(job.draft) # {}
        /\ \A u \in CopiesOf(job.draft) : box[u].rev = 1 /\ ~box[u].deleted

\* What EXPUNGE is sent for is marked.
MarkedAgrees ==
    At("remove", "expunge") /\ job.draft \in DraftIds \ touched => box[prevUid].deleted

\* The revision on record and the next one, one message of each.
Tracked(d) ==
    /\ \A u \in CopiesOf(d) :
          /\ box[u].rev \in {drafts[d].revision, drafts[d].revision + 1}
          /\ box[u].rev = drafts[d].revision => box[u].hash = drafts[d].hash
    /\ \A u, w \in CopiesOf(d) : box[u].rev = box[w].rev => u = w

RevisionsAgree == Undisturbed => \A d \in DraftIds \ touched : Tracked(d)

\* This revision is on the server.
Shows(d, r) == \E u \in CopiesOf(d) : box[u].rev = r

\* The revisions that are there while an update replaces one by the next.
JobRevisions ==
    Undisturbed /\ job.op = UpdateOp /\ job.draft \in DraftIds \ touched =>
        /\ At("verify", "append") => ~Shows(job.draft, job.rev)
        /\ phase = "replace" => Shows(job.draft, Record.revision) /\ Shows(job.draft, job.rev)
        /\ phase \in {"final", "record"} => ~Shows(job.draft, Record.revision)
        /\ phase \in {"replace", "remove", "final", "record"} =>
              \A u \in CopiesOf(job.draft) : box[u].rev = job.rev => box[u].hash = job.hash

\* The update of a draft has started to write, and has not come to its end.
Handing(d) ==
    /\ job.op = UpdateOp /\ job.draft = d
    /\ phase \in {"replace", "remove", "final", "record", "failing"} \cup ConflictPhases

\* The messages are those of the stored revision, under the stored UID.
Exact(d) ==
    /\ \A u \in CopiesOf(d) : box[u].rev = drafts[d].revision /\ ~box[u].deleted
    /\ drafts[d].uidvalidity = validity => drafts[d].uid \in CopiesOf(d)

\* A synced draft is on the server as it is on record, save while it is replaced.
SyncedAgrees ==
    crashes = 0 =>
        \A d \in DraftIds \ touched :
            \/ drafts[d].status = "synced_to_gmx" /\ ~Handing(d)
            \/ At("record", "status") /\ job.draft = d
            => Exact(d)

RevisionsInv == FreshCopies /\ MarkedAgrees /\ RevisionsAgree /\ JobRevisions /\ SyncedAgrees

\* After a step that appends nothing, every message of a draft nobody else has
\* touched is one that was there before; only an EXPUNGE takes one away, and only
\* UID STORE marks one, for the job's draft.
Inherits(d) ==
    /\ d \notin touched
    /\ \E old :
          /\ \A u \in CopiesOf(d)' :
                /\ old[u] \in CopiesOf(d)
                /\ box'[u].rev = box[old[u]].rev /\ box'[u].hash = box[old[u]].hash
                /\ box'[u].deleted => box[old[u]].deleted \/ (MarkDeleted /\ d = job.draft)
          /\ \A u, w \in CopiesOf(d)' : old[u] = old[w] => u = w
          /\ ~Expunge => \A w \in CopiesOf(d) : \E u \in CopiesOf(d)' : old[u] = w
    /\ \/ validity' = validity /\ \A u \in CopiesOf(d) : ~box[u].deleted => u \in CopiesOf(d)'
       \/ validity' = validity + 1

\* Every step but the APPEND for the draft itself.
LEMMA CopiesInherited ==
    ASSUME FolderTypeOK, UidInv, [SyncNext]_vars, NEW d \in DraftIds \ touched',
           ~((AppendCreated \/ AppendUpdated) /\ d = job.draft), GatewayOK
    PROVE  Inherits(d)
<1> DEFINE same == [u \in Uids |-> u]
<1>0. FolderAgrees /\ CopiesOf(d) \subseteq Uids /\ CopiesOf(d)' \subseteq Uids
  BY DEF UidInv, CopiesOf
<1>1. ASSUME CopiesOf(d)' = CopiesOf(d), d \notin touched, validity' = validity,
             \A u \in CopiesOf(d) :
                /\ box'[u].rev = box[u].rev /\ box'[u].hash = box[u].hash
                /\ box'[u].deleted => box[u].deleted \/ (MarkDeleted /\ d = job.draft)
      PROVE  Inherits(d)
  <2>1. \A u \in CopiesOf(d) : same[u] = u
    BY <1>0
  <2> HIDE DEF same
  <2> QED
    BY <1>1, <2>1 DEF Inherits
<1>2. CASE AppendCreated \/ AppendUpdated
  <2>0. /\ CopiesOf(d)' = CopiesOf(d) \cup (IF d = job.draft THEN {uidNext} ELSE {})
        /\ \A u \in CopiesOf(d) : box'[u] = box[u]
        /\ touched' = touched /\ validity' = validity
    BY <1>0, <1>2, CopiesAppended
  <2>1. /\ CopiesOf(d)' = CopiesOf(d) /\ touched' = touched /\ validity' = validity
        /\ \A u \in CopiesOf(d) : box'[u] = box[u]
    BY <1>2, <2>0
  <2> QED
    BY <1>1, <2>1
<1>3. CASE MarkDeleted
  <2>1. Names(prevUid, Prior)
    BY <1>3 DEF MarkDeleted, At, UidInv, PreviousAgrees
  <2>2. PICK w \in Uids : FlagDeleted(w) /\ w = prevUid
    BY <1>3, <2>1 DEF MarkDeleted, Names
  <2>3. /\ CopiesOf(d)' = CopiesOf(d) /\ UNCHANGED <<touched, validity>>
        /\ \A u \in CopiesOf(d) :
              /\ box'[u].rev = box[u].rev /\ box'[u].hash = box[u].hash
              /\ box'[u].deleted <=> (box[u].deleted \/ u = w)
    BY <2>2, CopiesFlagged
  <2>4. w \in CopiesOf(d) => d = job.draft
    BY <2>1, <2>2 DEF Names, CopiesOf
  <2> QED
    BY <1>1, <1>3, <2>3, <2>4
<1>4. CASE Expunge
  <2>1. /\ CopiesOf(d)' = {u \in CopiesOf(d) : ~box[u].deleted} /\ UNCHANGED <<touched, validity>>
        /\ \A u \in CopiesOf(d)' : box'[u] = box[u]
    BY <1>4, CopiesExpunged DEF Expunge
  <2>2. \A u \in CopiesOf(d)' : same[u] = u /\ u \in CopiesOf(d)
    BY <1>0, <2>1
  <2> HIDE DEF same
  <2> QED
    BY <1>4, <2>1, <2>2 DEF Inherits
<1>5. CASE ServerRenumbers
  <2>1. touched' = touched /\ validity' = validity + 1 /\ \E old : RenumberedBy(old)
    BY <1>5, RenumberEffect DEF ServerRenumbers
  <2>2. PICK old : RenumberedBy(old)
    BY <2>1
  <2>3. /\ \A u \in CopiesOf(d)' : old[u] \in CopiesOf(d) /\ box'[u] = box[old[u]]
        /\ \A w \in CopiesOf(d) : \E u \in CopiesOf(d)' : old[u] = w
        /\ \A u, w \in CopiesOf(d)' : old[u] = old[w] => u = w
    BY <2>2, CopiesRenumbered
  <2> QED
    BY <2>1, <2>3 DEF Inherits
<1>6. CASE ~AppendCreated /\ ~AppendUpdated /\ ~MarkDeleted /\ ~Expunge /\ ~ServerRenumbers
  <2>1. /\ CopiesOf(d)' = CopiesOf(d) /\ d \notin touched /\ validity' = validity
        /\ \A u \in CopiesOf(d) : box'[u] = box[u]
    BY <1>0, <1>6, CopiesSame
  <2> QED
    BY <1>1, <2>1
<1> QED
  BY <1>2, <1>3, <1>4, <1>5, <1>6

\* A revision that is there stays unless it is expunged, and none appears.
LEMMA ShowsInherited ==
    ASSUME NEW d \in DraftIds, Inherits(d), NEW r
    PROVE  /\ Shows(d, r)' => Shows(d, r)
           /\ ~Expunge /\ Shows(d, r) => Shows(d, r)'
           /\ ~Expunge /\ CopiesOf(d) # {} => CopiesOf(d)' # {}
BY DEF Inherits, Shows

\* Nobody has crashed or been refused less than before.
LEMMA DisturbanceLasts ==
    ASSUME HistoryTypeOK, [SyncNext]_vars
    PROVE  /\ crashes' = 0 => crashes = 0 /\ ~Crash
           /\ refused' = 0 => refused = 0
           /\ Undisturbed' => Undisturbed
<1>0. crashes \in Nat /\ refused \in Nat
  BY SyncAssumption DEF HistoryTypeOK
<1>1. crashes' \in {crashes, crashes + 1} /\ (Crash => crashes' = crashes + 1)
  <2>1. CASE Crash
    BY <2>1 DEF Crash
  <2>2. CASE Request \/ Lookup \/ CreateStep \/ UpdateStep
    BY <2>2 DEF Request, BeginCreate, BeginUpdate, BeginSummary, Lookup, Select, Search, Fetch, historyVars,
       CreateStep, Stage, LookClear, AppendCreated, AppendRevision, CreateConflict, ConfirmCreated, TrackCreated,
       RecordCreated, UpdateStep, Conflict, InspectInSync, VerifyPrevious, AppendUpdated, ReplaceFound,
       ReplaceConflict, MarkDeleted, Expunge, SelectFinal, FinalFound, FinalConflict, RecordUpdated,
       RecordConflict, BindConflict, Crash
  <2>3. CASE SummaryStep \/ Unusable \/ Fail \/ FailJob \/ BootStep \/ OtherClient \/ ServerRenumbers \/ UNCHANGED vars
    BY <2>3 DEF SummaryStep, SummaryRefused, SummaryStatus, SummaryTracking, Unusable, Fail, FailJob, BootStep,
       Boot, BootFail, Serve, OtherClient, ServerRenumbers, vars, historyVars, Crash
  <2> QED
    BY <2>1, <2>2, <2>3 DEF SyncNext, JobStep
<1>2. refused' \in {refused, refused + 1}
  <2>1. CASE Lookup
    BY <2>1 DEF Lookup, Select, Search, Fetch, historyVars
  <2>2. CASE Request \/ CreateStep \/ UpdateStep
    BY <2>2 DEF Request, BeginCreate, BeginUpdate, BeginSummary, historyVars,
       CreateStep, Stage, LookClear, AppendCreated, AppendRevision, CreateConflict, ConfirmCreated, TrackCreated,
       RecordCreated, UpdateStep, Conflict, InspectInSync, VerifyPrevious, AppendUpdated, ReplaceFound,
       ReplaceConflict, MarkDeleted, Expunge, SelectFinal, FinalFound, FinalConflict, RecordUpdated,
       RecordConflict, BindConflict
  <2>3. CASE SummaryStep \/ Unusable \/ Fail \/ FailJob \/ Crash \/ BootStep \/ OtherClient \/ ServerRenumbers \/ UNCHANGED vars
    BY <2>3 DEF SummaryStep, SummaryRefused, SummaryStatus, SummaryTracking, Unusable, Fail, FailJob, BootStep,
       Boot, BootFail, Serve, OtherClient, ServerRenumbers, vars, historyVars, Crash
  <2> QED
    BY <2>1, <2>2, <2>3 DEF SyncNext, JobStep
<1> QED
  BY <1>0, <1>1, <1>2 DEF Undisturbed

\* What a step does to a creation.
LEMMA CreationSteps ==
    ASSUME GatewayOK, [SyncNext]_vars, job'.op = CreateOp
    PROVE  \/ StartsCreate
           \/ /\ job' = job /\ ~MarkDeleted /\ ~Expunge /\ ~AppendUpdated
              /\ phase' \in {"stage", "look"} => phase \in {"stage", "look"} /\ ~AppendCreated
              /\ phase' = "confirm" => phase = "confirm" \/ AppendCreated
<1> USE DEF GoTo, At, Seen, CreateOp, UpdateOp, SummaryOp, NoJob
<1>0. job.op = UpdateOp => ~AppendCreated /\ phase \notin {"stage", "look", "confirm"}
  BY JobPhases DEF AppendCreated
<1>1. CASE Request
  BY <1>1 DEF Request, BeginCreate, BeginUpdate, BeginSummary, StartsCreate
<1>2. CASE Lookup
  BY <1>2 DEF Lookup, Select, Search, Fetch, MarkDeleted, Expunge, AppendUpdated, AppendCreated
<1>3. CASE CreateStep
  BY <1>3 DEF CreateStep, Stage, LookClear, AppendCreated, AppendRevision, CreateConflict, ConfirmCreated,
     TrackCreated, RecordCreated, Finish, MarkDeleted, Expunge, AppendUpdated
<1>4. CASE UpdateStep
  <2>1. job.op = UpdateOp
    BY <1>4, JobPhases DEF UpdateStep, Conflict, InspectInSync, InSync, VerifyPrevious, AppendUpdated, ReplaceFound,
       ReplaceConflict, MarkDeleted, Expunge, SelectFinal, FinalFound, FinalConflict, RecordUpdated,
       RecordConflict, BindConflict, ConflictPhase, ConflictPhases
  <2>2. job' = job \/ job' = NoJob
    BY <1>4 DEF UpdateStep, Conflict, InspectInSync, VerifyPrevious, AppendUpdated, AppendRevision, ReplaceFound,
       ReplaceConflict, MarkDeleted, Expunge, SelectFinal, FinalFound, FinalConflict, RecordUpdated,
       RecordConflict, BindConflict, Finish, lookupVars
  <2> QED
    BY <2>1, <2>2
<1>5. CASE SummaryStep
  BY <1>5 DEF SummaryStep, SummaryRefused, SummaryStatus, SummaryTracking, Finish, MarkDeleted, Expunge,
     AppendUpdated, AppendCreated
<1>6. CASE Unusable \/ Fail \/ FailJob \/ Crash
  <2>1. phase' \in {"failing", "idle", "down"} /\ ~MarkDeleted /\ ~Expunge /\ ~AppendUpdated
        /\ (job' = job \/ job' = NoJob)
    <3>1. CASE Fail
      <4>1. phase' = "failing" /\ job' = job
        BY <3>1 DEF Fail
      <4>2. CASE phase \notin {"remove", "verify"}
        BY <4>1, <4>2 DEF MarkDeleted, Expunge, AppendUpdated
      <4>3. CASE phase \in {"remove", "verify"}
        <5>1. job.op = UpdateOp
          BY <4>3, JobPhases
        <5> QED
          BY <4>1, <5>1
      <4> QED
        BY <4>2, <4>3
    <3>2. CASE Unusable \/ FailJob \/ Crash
      BY <3>2 DEF Unusable, FailJob, Crash, Finish, MarkDeleted, Expunge, AppendUpdated, AppendRevision
    <3> QED
      BY <1>6, <3>1, <3>2
  <2> QED
    BY <2>1
<1>7. CASE BootStep
  BY <1>7 DEF BootStep, Boot, BootFail, Serve, gatewayVars, MarkDeleted, Expunge, AppendUpdated, AppendCreated
<1>8. CASE OtherClient \/ ServerRenumbers \/ UNCHANGED vars
  BY <1>0, <1>8, JobPhases DEF OtherClient, ServerRenumbers, vars, gatewayVars, MarkDeleted, Expunge, AppendUpdated,
     AppendCreated, AppendRevision
<1> QED
  BY <1>1, <1>2, <1>3, <1>4, <1>5, <1>6, <1>7, <1>8 DEF SyncNext, JobStep

\* A creation works on a draft without a message, and appends one.
LEMMA FreshCopiesStep ==
    ASSUME StoreTypeOK, FolderTypeOK, GatewayOK, JobInv, UidInv, FreshCopies, [SyncNext]_vars
    PROVE  FreshCopies'
<1> SUFFICES ASSUME job'.op = CreateOp, NEW d \in DraftIds \ touched', d = job'.draft
             PROVE  /\ phase' \in {"stage", "look"} => CopiesOf(d)' = {}
                    /\ phase' = "confirm" => CopiesOf(d)' # {}
                    /\ \A u \in CopiesOf(d)' : box'[u].rev = 1 /\ ~box'[u].deleted
  BY DEF FreshCopies, CopiesOf, Live
<1>0. FolderAgrees
  BY DEF UidInv
<1>1. CASE StartsCreate
  <2>1. PICK k \in Keys, e \in DraftIds, h \in Hashes : BeginCreate(k, e, h)
    BY <1>1 DEF StartsCreate
  <2>2. ~Present(e) /\ d = e /\ phase' = "stage" /\ UNCHANGED folderVars
    <3>1. ~Present(e)
      BY <2>1, NewRow
    <3>2. d = e /\ phase' = "stage" /\ UNCHANGED folderVars
      BY <2>1 DEF BeginCreate, GoTo
    <3> QED
      BY <3>1, <3>2
  <2>3. CopiesOf(d) = {}
    BY <1>0, <2>2, NoRowNoCopy
  <2>4. CopiesOf(d)' = {}
    BY <2>2, <2>3 DEF CopiesOf, Live, folderVars
  <2> QED
    BY <2>2, <2>4
<1>2. CASE /\ job' = job /\ ~MarkDeleted /\ ~Expunge /\ ~AppendUpdated
           /\ phase' \in {"stage", "look"} => phase \in {"stage", "look"} /\ ~AppendCreated
           /\ phase' = "confirm" => phase = "confirm" \/ AppendCreated
  <2>1. job.op = CreateOp /\ d = job.draft
    BY <1>2
  <2>2. ASSUME d \notin touched
        PROVE  /\ phase \in {"stage", "look"} => CopiesOf(d) = {}
               /\ phase = "confirm" => CopiesOf(d) # {}
               /\ \A u \in CopiesOf(d) : box[u].rev = 1 /\ ~box[u].deleted
    BY <2>1, <2>2 DEF FreshCopies
  <2>3. CASE AppendCreated
    <3>1. /\ CopiesOf(d)' = CopiesOf(d) \cup {uidNext}
          /\ \A u \in CopiesOf(d) : box'[u] = box[u]
          /\ box'[uidNext].rev = job.rev /\ box'[uidNext].deleted = FALSE
          /\ touched' = touched
      BY <1>0, <2>1, <2>3, CopiesAppended
    <3>2. job.rev = 1
      BY <2>1, JobKinds DEF GatewayOK
    <3>3. phase' \notin {"stage", "look"}
      BY <1>2, <2>3
    <3> QED
      BY <2>2, <3>1, <3>2, <3>3
  <2>4. CASE ~AppendCreated
    <3>1. Inherits(d)
      BY <1>2, <2>4, CopiesInherited
    <3>2. d \notin touched /\ (CopiesOf(d) # {} => CopiesOf(d)' # {})
      BY <1>2, <3>1, ShowsInherited DEF Inherits
    <3>3. \A u \in CopiesOf(d)' : \E w \in CopiesOf(d) :
              box'[u].rev = box[w].rev /\ (box'[u].deleted => box[w].deleted)
      BY <1>2, <3>1 DEF Inherits
    <3> QED
      BY <1>2, <2>2, <2>4, <3>2, <3>3
  <2> QED
    BY <2>3, <2>4
<1> QED
  BY <1>1, <1>2, CreationSteps

\* EXPUNGE is sent when the prior revision has been marked.
LEMMA MarkedAgreesStep ==
    ASSUME StoreTypeOK, FolderTypeOK, GatewayOK, JobInv, UidInv, CopiesInv, MarkedAgrees, [SyncNext]_vars
    PROVE  MarkedAgrees'
<1> USE DEF At, GoTo, Seen
<1>0. FolderAgrees /\ StepsAgree'
  BY StepsStep DEF UidInv, JobInv
<1>1. CASE ~At("remove", "expunge")'
  BY <1>1 DEF MarkedAgrees
<1>2. CASE MarkDeleted
  <2>1. Names(prevUid, Prior) /\ prevUid' = prevUid /\ job' = job
    BY <1>2 DEF MarkDeleted, UidInv, PreviousAgrees, lookupVars
  <2>2. PICK w \in Uids : FlagDeleted(w) /\ w = prevUid
    BY <1>2, <2>1 DEF MarkDeleted, Names
  <2>3. touched' = touched /\ (box'[w].deleted <=> (box[w].deleted \/ Live(w)))
    BY <2>2, FlagEffect
  <2> QED
    BY <2>1, <2>2, <2>3 DEF MarkedAgrees, Names
<1>3. CASE UNCHANGED gatewayVars /\ (OtherClient \/ ServerRenumbers \/ UNCHANGED vars) /\ At("remove", "expunge")'
  <2>1. At("remove", "expunge") /\ UNCHANGED <<job, prevUid>>
    BY <1>3 DEF gatewayVars
  <2>2. PICK d \in DraftIds : d = job.draft
    BY <2>1, LookupJob
  <2>3. CASE d \in touched'
    BY <2>1, <2>2, <2>3 DEF MarkedAgrees
  <2>4. CASE d \notin touched'
    <3>1. ~ServerRenumbers /\ ~MarkDeleted /\ ~Expunge /\ ~AppendCreated /\ ~AppendUpdated
      BY <1>3, <2>1 DEF ServerRenumbers, MarkDeleted, Expunge, AppendCreated, AppendUpdated, gatewayVars
    <3>2. d \notin touched /\ \A u \in CopiesOf(d) : box'[u] = box[u]
      BY <1>0, <2>4, <3>1, CopiesSame
    <3>3. prevUid \in CopiesOf(d)
      BY <2>1, <2>2, <3>2, Removal
    <3> QED
      BY <2>1, <2>2, <3>2, <3>3 DEF MarkedAgrees
  <2> QED
    BY <2>3, <2>4
<1>4. CASE Expunge \/ ReplaceFound \/ SelectFinal \/ FinalFound \/ ConfirmCreated \/ TrackCreated \/ SummaryStatus
  BY <1>1, <1>4 DEF Expunge, ReplaceFound, SelectFinal, FinalFound, ConfirmCreated, TrackCreated, SummaryStatus
<1> QED
  BY <1>0, <1>1, <1>2, <1>3, <1>4, NewestSteps DEF StepsAgree

\* How the control of an update moves through the replacement of a message.
LEMMA HandoverSteps ==
    ASSUME GatewayOK, [SyncNext]_vars, job'.op = UpdateOp
    PROVE  \/ phase' \notin {"replace", "remove", "final", "record"} /\ ~At("verify", "append")'
           \/ VerifyPrevious \/ AppendUpdated
           \/ /\ job' = job /\ drafts' = drafts /\ ~AppendCreated /\ ~AppendUpdated
              /\ phase' = "replace" => phase = "replace" /\ ~Expunge
              /\ phase' \in {"final", "record"} => phase \in {"final", "record"} \/ Expunge
              /\ phase' \in {"replace", "remove", "final", "record"} =>
                    phase \in {"replace", "remove", "final", "record"}
              /\ At("verify", "append")' => At("verify", "append")
<1> USE DEF GoTo, At, Seen
<1>1. CASE Request \/ Unusable \/ Fail \/ FailJob \/ Crash
  BY <1>1 DEF Request, BeginCreate, BeginUpdate, BeginSummary, Unusable, Fail, FailJob, Finish, Crash
<1>2. CASE BootStep
  BY <1>2, JobPhases, JobKinds DEF BootStep, Boot, BootFail, Serve, gatewayVars
<1>3. CASE CreateStep
  <2>1. job.op = CreateOp
    BY <1>3, JobPhases DEF CreateStep, Stage, LookClear, AppendCreated, CreateConflict, ConfirmCreated,
       TrackCreated, RecordCreated
  <2>2. job' = job \/ job' = NoJob
    BY <1>3 DEF CreateStep, Stage, LookClear, AppendCreated, AppendRevision, CreateConflict, ConfirmCreated,
       TrackCreated, RecordCreated, Finish, lookupVars
  <2> QED
    BY <2>1, <2>2 DEF NoJob, CreateOp, UpdateOp
<1>4. CASE SummaryStep
  BY <1>4 DEF SummaryStep, SummaryRefused, SummaryStatus, SummaryTracking, Finish
<1>5. CASE UpdateStep
  BY <1>5 DEF UpdateStep, Conflict, InspectInSync, AppendCreated, AppendUpdated, AppendRevision,
     ReplaceFound, ReplaceConflict, MarkDeleted, Expunge, SelectFinal, FinalFound, FinalConflict, RecordUpdated,
     RecordConflict, ConflictPhase, BindConflict, Finish, storeVars
<1>6. CASE Lookup
  BY <1>6 DEF Lookup, Select, Search, Fetch, Lookups, AppendCreated, AppendUpdated, Expunge, storeVars
<1>7. CASE OtherClient \/ ServerRenumbers \/ UNCHANGED vars
  BY <1>7 DEF OtherClient, ServerRenumbers, vars, gatewayVars, storeVars, AppendCreated, AppendUpdated,
     AppendRevision, Expunge
<1> QED
  BY <1>1, <1>2, <1>3, <1>4, <1>5, <1>6, <1>7 DEF SyncNext, JobStep

\* An update that finds the prior revision alone has no message of the next one: a
\* lookup with every answer is complete, and without a crash there is nothing but
\* the stored revision.
LEMMA NothingNewer ==
    ASSUME StoreTypeOK, GatewayOK, JobInv, UidInv, SyncedAgrees, Undisturbed, VerifyPrevious,
           NEW d \in DraftIds \ touched, d = job.draft
    PROVE  ~Shows(d, job.rev)
<1>1. /\ phase = "verify" /\ step = "fetch" /\ hits = {}
      /\ \E m \in found : found = {m} /\ m.rev + 1 = job.rev
  BY DEF VerifyPrevious, Seen, At
<1>2. PICK m \in found : found = {m} /\ m.rev + 1 = job.rev
  BY <1>1
<1>3. m.rev \in Nat /\ drafts[d].revision \in Nat
  BY DataAssumption DEF GatewayOK, GatewayTypeOK, ServerDraft, StoreTypeOK, DraftRecord, NoDraft, Revisions
<1>4. job.op = UpdateOp /\ drafts[d].revision + 1 = job.rev /\ drafts[d].status = "synced_to_gmx"
  BY <1>1, JobPhases DEF JobInv, JobAgrees, Record, ConflictPhases
<1>5. CASE refused = 0
  <2>1. Names(m.uid, m) /\ \A u \in CopiesOf(d) : u = m.uid
    BY <1>1, <1>2, <1>5 DEF UidInv, LookupAgrees
  <2>2. \A u \in CopiesOf(d) : box[u].rev = m.rev
    BY <2>1 DEF Names, CopiesOf
  <2> QED
    BY <1>2, <1>3, <2>2 DEF Shows
<1>6. CASE crashes = 0
  <2>1. ~Handing(d)
    BY <1>1 DEF Handing, ConflictPhases
  <2>2. Exact(d)
    BY <1>4, <1>6, <2>1 DEF SyncedAgrees
  <2> QED
    BY <1>3, <1>4, <2>2 DEF Exact, Shows
<1> QED
  BY <1>5, <1>6 DEF Undisturbed

\* What is there while an update replaces a message.
LEMMA JobRevisionsStep ==
    ASSUME StoreTypeOK, FolderTypeOK, GatewayOK, HistoryTypeOK, JobInv, UidInv, CopiesInv, RevisionsInv,
           [SyncNext]_vars
    PROVE  JobRevisions'
<1> USE DEF At, GoTo, Seen
<1> SUFFICES ASSUME Undisturbed', job'.op = UpdateOp, NEW d \in DraftIds \ touched', d = job'.draft,
                    NEW r, r = job'.rev, NEW n, n = drafts'[d].revision
             PROVE  /\ At("verify", "append")' => ~Shows(d, r)'
                    /\ phase' = "replace" => Shows(d, n)' /\ Shows(d, r)'
                    /\ phase' \in {"final", "record"} => ~Shows(d, n)'
                    /\ phase' \in {"replace", "remove", "final", "record"} =>
                          \A u \in CopiesOf(d)' : box'[u].rev = job'.rev => box'[u].hash = job'.hash
  BY DEF JobRevisions, Record, Shows, CopiesOf, Live
<1>0. Undisturbed /\ FolderAgrees /\ StepsAgree'
  BY DisturbanceLasts, StepsStep DEF UidInv, JobInv
<1>1. CASE phase' \notin {"replace", "remove", "final", "record"} /\ ~At("verify", "append")'
  BY <1>1
<1>2. CASE VerifyPrevious
  <2>1. phase' = "verify" /\ job' = job /\ UNCHANGED folderVars
    BY <1>2 DEF VerifyPrevious
  <2>2. ~Shows(d, job.rev)
    BY <1>0, <1>2, <2>1, NothingNewer DEF RevisionsInv, folderVars
  <2>3. ~Shows(d, r)'
    BY <2>1, <2>2 DEF Shows, CopiesOf, Live, folderVars
  <2> QED
    BY <2>1, <2>3
<1>3. CASE AppendUpdated
  <2>1. /\ phase = "verify" /\ step = "append" /\ phase' \in {"replace", "failing"} /\ job' = job /\ drafts' = drafts
    BY <1>3 DEF AppendUpdated, AppendRevision, storeVars
  <2>2. /\ CopiesOf(d)' = CopiesOf(d) \cup {uidNext}
        /\ \A u \in CopiesOf(d) : box'[u] = box[u]
        /\ box'[uidNext].rev = job.rev /\ box'[uidNext].hash = job.hash
        /\ touched' = touched
    BY <1>0, <1>3, <2>1, CopiesAppended
  <2>3. job.op = UpdateOp /\ drafts[d].revision + 1 = job.rev /\ drafts[d].status = "synced_to_gmx"
    BY <2>1, JobPhases DEF JobInv, JobAgrees, Record, ConflictPhases
  <2>4. ~Shows(d, job.rev) /\ Tracked(d)
    BY <1>0, <2>1, <2>2, <2>3 DEF RevisionsInv, RevisionsAgree, JobRevisions
  <2>5. CopiesOf(d) # {}
    BY <2>2, <2>3 DEF CopiesInv, CopiesKept, JobInv, UidsAgree
  <2>6. \E u \in CopiesOf(d) : box[u].rev = drafts[d].revision
    BY <2>3, <2>4, <2>5 DEF Tracked, Shows
  <2>7. \A u \in CopiesOf(d)' : box'[u].rev = job.rev => box'[u].hash = job.hash
    BY <2>2, <2>4 DEF Shows
  <2>8. \E u \in CopiesOf(d)' : box'[u].rev = drafts[d].revision
    BY <2>2, <2>6
  <2>9. \E u \in CopiesOf(d)' : box'[u].rev = job.rev
    BY <2>2
  <2> QED
    BY <2>1, <2>7, <2>8, <2>9 DEF Shows
<1>4. CASE /\ job' = job /\ drafts' = drafts /\ ~AppendCreated /\ ~AppendUpdated
           /\ phase' = "replace" => phase = "replace" /\ ~Expunge
           /\ phase' \in {"final", "record"} => phase \in {"final", "record"} \/ Expunge
           /\ phase' \in {"replace", "remove", "final", "record"} =>
                 phase \in {"replace", "remove", "final", "record"}
           /\ At("verify", "append")' => At("verify", "append")
  <2>1. Inherits(d) /\ d = job.draft /\ job.op = UpdateOp
    BY <1>4, CopiesInherited
  <2>2. d \in DraftIds \ touched
    BY <2>1 DEF Inherits
  <2>3. /\ At("verify", "append") => ~Shows(d, job.rev)
        /\ phase = "replace" => Shows(d, drafts[d].revision) /\ Shows(d, job.rev)
        /\ phase \in {"final", "record"} => ~Shows(d, drafts[d].revision)
        /\ phase \in {"replace", "remove", "final", "record"} =>
              \A u \in CopiesOf(d) : box[u].rev = job.rev => box[u].hash = job.hash
    BY <1>0, <2>1, <2>2 DEF RevisionsInv, JobRevisions, Record
  <2>4. r = job.rev /\ n = drafts[d].revision
    BY <1>4
  <2>5. /\ Shows(d, r)' => Shows(d, r)
        /\ Shows(d, n)' => Shows(d, n)
        /\ ~Expunge /\ Shows(d, r) => Shows(d, r)'
        /\ ~Expunge /\ Shows(d, n) => Shows(d, n)'
    BY <2>1, ShowsInherited
  <2>6. \A u \in CopiesOf(d)' : \E w \in CopiesOf(d) : box'[u].rev = box[w].rev /\ box'[u].hash = box[w].hash
    BY <2>1 DEF Inherits
  <2>7. Expunge => ~Shows(d, n)'
    <3> SUFFICES ASSUME Expunge PROVE ~Shows(d, n)'
      OBVIOUS
    <3>1. /\ CopiesOf(d)' = {u \in CopiesOf(d) : ~box[u].deleted}
          /\ \A u \in CopiesOf(d)' : box'[u] = box[u]
      BY CopiesExpunged DEF Expunge
    <3>2. prevUid \in CopiesOf(d) /\ box[prevUid].rev = n
      BY <2>1, <2>2, <2>4, Removal DEF Expunge
    <3>3. box[prevUid].deleted
      BY <2>1, <2>2 DEF Expunge, RevisionsInv, MarkedAgrees
    <3>4. Tracked(d)
      BY <1>0, <2>2 DEF RevisionsInv, RevisionsAgree
    <3>5. \A u \in CopiesOf(d) : box[u].rev = n => u = prevUid
      BY <3>2, <3>4 DEF Tracked
    <3> QED
      BY <3>1, <3>3, <3>5 DEF Shows
  <2> QED
    BY <1>4, <2>3, <2>4, <2>5, <2>6, <2>7
<1> QED
  BY <1>1, <1>2, <1>3, <1>4, HandoverSteps

\* Of a draft only the gateway writes, only the stored revision and the next one are
\* there, one message of each.
LEMMA RevisionsAgreeStep ==
    ASSUME StoreTypeOK, FolderTypeOK, GatewayOK, HistoryTypeOK, JobInv, UidInv, CopiesInv, RevisionsInv,
           [SyncNext]_vars
    PROVE  RevisionsAgree'
<1> SUFFICES ASSUME Undisturbed', NEW d \in DraftIds \ touched'
             PROVE  /\ \A u \in CopiesOf(d)' :
                          /\ box'[u].rev \in {drafts'[d].revision, drafts'[d].revision + 1}
                          /\ box'[u].rev = drafts'[d].revision => box'[u].hash = drafts'[d].hash
                    /\ \A u, w \in CopiesOf(d)' : box'[u].rev = box'[w].rev => u = w
  BY DEF RevisionsAgree, Tracked
<1>0. Undisturbed /\ FolderAgrees
  BY DisturbanceLasts DEF UidInv
<1>1. d \notin touched => Tracked(d)
  BY <1>0 DEF RevisionsInv, RevisionsAgree
<1>2. drafts[d].revision \in Nat
  BY DataAssumption DEF StoreTypeOK, DraftRecord, NoDraft, Revisions
<1>3. CASE (AppendCreated \/ AppendUpdated) /\ d = job.draft
  <2>1. /\ CopiesOf(d)' = CopiesOf(d) \cup {uidNext}
        /\ \A u \in CopiesOf(d) : box'[u] = box[u]
        /\ box'[uidNext].rev = job.rev /\ box'[uidNext].hash = job.hash
        /\ touched' = touched
    BY <1>0, <1>3, CopiesAppended
  <2>2. drafts' = drafts
    BY <1>3, MessagesOrRows
  <2>3. CASE AppendCreated
    <3>1. phase = "look" /\ job.op = CreateOp
      BY <2>3, JobPhases DEF AppendCreated, At
    <3>2. CopiesOf(d) = {}
      BY <1>3, <2>1, <3>1 DEF RevisionsInv, FreshCopies
    <3>3. job.rev = drafts[d].revision /\ job.hash = drafts[d].hash
      BY <1>3, <3>1, JobKinds DEF GatewayOK, JobInv, JobAgrees, Record
    <3> QED
      BY <2>1, <2>2, <3>2, <3>3
  <2>4. CASE AppendUpdated
    <3>1. At("verify", "append") /\ job.op = UpdateOp
      BY <2>4, JobPhases DEF AppendUpdated, At
    <3>2. job.rev = drafts[d].revision + 1
      BY <1>3, <3>1 DEF JobInv, JobAgrees, Record
    <3>3. \A u \in CopiesOf(d) : box[u].rev # job.rev
      BY <1>0, <1>3, <2>1, <3>1 DEF RevisionsInv, JobRevisions, Shows
    <3>4. Tracked(d)
      BY <1>1, <2>1
    <3> QED
      BY <1>2, <2>1, <2>2, <3>2, <3>3, <3>4 DEF Tracked
  <2> QED
    BY <1>3, <2>3, <2>4
<1>4. CASE ~((AppendCreated \/ AppendUpdated) /\ d = job.draft)
  <2>1. Inherits(d)
    BY <1>4, CopiesInherited
  <2>2. d \notin touched /\ Tracked(d)
    BY <1>1, <2>1 DEF Inherits
  <2>3. \A u \in CopiesOf(d)' : \E w \in CopiesOf(d) : box'[u].rev = box[w].rev /\ box'[u].hash = box[w].hash
    BY <2>1 DEF Inherits
  <2>4. \A u, w \in CopiesOf(d)' : box'[u].rev = box'[w].rev => u = w
    BY <2>1, <2>2 DEF Inherits, Tracked
  <2>5. CASE RecordUpdated /\ d = job.draft
    <3>1. phase = "record" /\ job.op = UpdateOp /\ drafts'[d].revision = job.rev /\ drafts'[d].hash = job.hash
      BY <2>5, JobUpdateRow DEF RecordUpdated, At
    <3>2. job.rev = drafts[d].revision + 1
      BY <2>5, <3>1 DEF JobInv, JobAgrees, Record, ConflictPhases
    <3>3. /\ \A u \in CopiesOf(d) : box[u].rev # drafts[d].revision
          /\ \A u \in CopiesOf(d) : box[u].rev = job.rev => box[u].hash = job.hash
      BY <1>0, <2>2, <2>5, <3>1 DEF RevisionsInv, JobRevisions, Shows, Record
    <3> QED
      BY <2>2, <2>3, <2>4, <3>1, <3>2, <3>3 DEF Tracked
  <2>6. CASE ~(RecordUpdated /\ d = job.draft)
    <3>1. CASE ~Present(d)
      <4>1. CopiesOf(d) = {}
        BY <1>0, <3>1, NoRowNoCopy
      <4> QED
        BY <2>3, <4>1
    <3>2. CASE Present(d)
      <4>1. drafts'[d].revision = drafts[d].revision /\ drafts'[d].hash = drafts[d].hash
        <5>1. CASE StartsCreate
          <6>1. PICK k \in Keys, e \in DraftIds, h \in Hashes : BeginCreate(k, e, h)
            BY <5>1 DEF StartsCreate
          <6>2. ~Present(e) /\ \A x \in DraftIds \ {e} : drafts'[x] = drafts[x]
            BY <6>1, NewRow
          <6> QED
            BY <3>2, <6>2
        <5>2. CASE RecordUpdated
          BY <2>6, <5>2, JobUpdateRow
        <5>3. CASE TrackCreated \/ SummaryTracking
          BY <5>3, JobTrackingRows DEF SameContent
        <5> QED
          BY <5>1, <5>2, <5>3, OtherRows DEF SameContent
      <4> QED
        BY <2>2, <2>3, <2>4, <4>1 DEF Tracked
    <3> QED
      BY <3>1, <3>2
  <2> QED
    BY <2>5, <2>6
<1> QED
  BY <1>3, <1>4

\* What a synced row was before.
LEMMA SyncedBefore ==
    ASSUME StoreTypeOK, GatewayOK, [SyncNext]_vars, NEW d \in DraftIds, drafts'[d].status = "synced_to_gmx"
    PROVE  \/ (RecordCreated \/ RecordUpdated) /\ d = job.draft
           \/ drafts[d].status = "synced_to_gmx"
<1>1. CASE StartsCreate
  <2>1. PICK k \in Keys, e \in DraftIds, h \in Hashes : BeginCreate(k, e, h)
    BY <1>1 DEF StartsCreate
  <2>2. /\ drafts'[e] = [status |-> "new", revision |-> 1, hash |-> h, uid |-> 0, uidvalidity |-> 0]
        /\ \A x \in DraftIds \ {e} : drafts'[x] = drafts[x]
    BY <2>1, NewRow
  <2> QED
    BY <2>2
<1>2. CASE RecordUpdated
  BY <1>2, JobUpdateRow
<1>3. CASE TrackCreated \/ SummaryTracking
  BY <1>3, JobTrackingRows
<1>4. CASE Stage \/ CreateConflict \/ RecordCreated \/ RecordConflict \/ SummaryRefused \/ SummaryStatus \/ FailJob
  <2>1. \A e \in DraftIds \ {job.draft} : drafts'[e] = drafts[e]
    BY <1>4, JobStatusRows
  <2>2. CASE d = job.draft
    <3>1. \/ UNCHANGED storeVars
          \/ RecordCreated
          \/ \E t \in {"staged", "invalidated", "modified", "failed"} : TransitionStatus(d, t)
      BY <1>4, <2>2 DEF Stage, CreateConflict, RecordConflict, SummaryRefused, SummaryStatus, FailJob
    <3>2. ASSUME NEW t \in {"staged", "invalidated", "modified", "failed"}, TransitionStatus(d, t)
          PROVE  FALSE
      <4>1. drafts'[d].status = t
        BY <3>2, StatusEffect
      <4> QED
        BY <3>2, <4>1
    <3> QED
      BY <2>2, <3>1, <3>2 DEF storeVars
  <2> QED
    BY <2>1, <2>2
<1>5. CASE \E e \in DraftIds : BootFail(e)
  <2>1. PICK e \in DraftIds : FailListed(e)
    BY <1>5 DEF BootFail
  <2>2. drafts'[d] = drafts[d] \/ drafts'[d].status = "failed"
    BY <2>1, FailedRow
  <2> QED
    BY <2>2
<1>6. CASE UNCHANGED drafts
  BY <1>6
<1>7. CASE Request /\ ~StartsCreate
  BY <1>6, <1>7 DEF Request, StartsCreate, BeginUpdate, BeginSummary, storeVars
<1>8. CASE Lookup \/ LookClear \/ AppendCreated \/ ConfirmCreated
  BY <1>6, <1>8 DEF Lookup, Select, Search, Fetch, LookClear, AppendCreated, AppendRevision, ConfirmCreated, storeVars
<1>9. CASE UpdateStep /\ ~RecordUpdated /\ ~RecordConflict
  BY <1>6, <1>9 DEF UpdateStep, Conflict, InspectInSync, VerifyPrevious, AppendUpdated, AppendRevision,
     ReplaceFound, ReplaceConflict, MarkDeleted, Expunge, SelectFinal, FinalFound, FinalConflict, BindConflict,
     BindIdempotency, storeVars
<1>10. CASE Unusable \/ Fail \/ Crash \/ Boot \/ Serve \/ OtherClient \/ ServerRenumbers \/ UNCHANGED vars
  BY <1>6, <1>10 DEF Unusable, Fail, Crash, AbandonSweep, Boot, ListIncomplete, Serve, OtherClient,
     ServerRenumbers, vars, storeVars
<1> QED
  BY <1>1, <1>2, <1>3, <1>4, <1>5, <1>7, <1>8, <1>9, <1>10
     DEF SyncNext, JobStep, CreateStep, SummaryStep, BootStep

\* An update that has started to write goes on as long as the draft is called synced.
LEMMA HandingLasts ==
    ASSUME StoreTypeOK, GatewayOK, JobInv, [SyncNext]_vars, NEW d \in DraftIds, Handing(d),
           ~Crash, ~RecordUpdated, drafts'[d].status = "synced_to_gmx"
    PROVE  Handing(d)'
<1> USE DEF GoTo, At, Seen
<1>0. /\ job.op = UpdateOp /\ job.draft = d
      /\ phase \in {"replace", "remove", "final", "record", "failing", "conflict_modified", "conflict_duplicate"}
  BY DEF Handing, ConflictPhases
<1>1. ~RecordCreated /\ ~CreateStep /\ ~SummaryStep /\ ~BootStep /\ ~Request
  BY <1>0, JobPhases DEF CreateStep, Stage, LookClear, AppendCreated, CreateConflict, ConfirmCreated, TrackCreated,
     RecordCreated, SummaryStep, SummaryRefused, SummaryStatus, SummaryTracking, BootStep, Boot, BootFail, Serve,
     Request, BeginCreate, BeginUpdate, BeginSummary, CreateOp, UpdateOp, SummaryOp
<1>2. drafts[d].status = "synced_to_gmx"
  BY <1>1, SyncedBefore
<1>3. ASSUME job' = job, phase' \in {"replace", "remove", "final", "record", "failing",
                                     "conflict_modified", "conflict_duplicate"}
      PROVE  Handing(d)'
  BY <1>0, <1>3 DEF Handing, ConflictPhases
<1>4. CASE UpdateStep
  <2>1. ~BindConflict
    BY <1>0, <1>2 DEF BindConflict, ConflictPhase, ConflictPhases, JobInv, JobAgrees, Record
  <2> QED
    BY <1>0, <1>3, <1>4, <2>1 DEF UpdateStep, Conflict, InspectInSync, InSync, VerifyPrevious, AppendUpdated,
       ReplaceFound, ReplaceConflict, MarkDeleted, Expunge, SelectFinal, FinalFound, FinalConflict,
       RecordConflict, ConflictPhase
<1>5. CASE Lookup
  BY <1>0, <1>3, <1>5 DEF Lookup, Select, Search, Fetch
<1>6. CASE FailJob
  <2>1. TransitionStatus(d, "failed")
    BY <1>0, <1>2, <1>6 DEF FailJob, Record
  <2>2. drafts'[d].status = "failed"
    BY <2>1, StatusEffect
  <2> QED
    BY <2>2
<1>7. CASE Unusable \/ Fail
  BY <1>3, <1>7 DEF Unusable, Fail
<1>8. CASE OtherClient \/ ServerRenumbers \/ UNCHANGED vars
  BY <1>0, <1>3, <1>8 DEF OtherClient, ServerRenumbers, vars, gatewayVars
<1> QED
  BY <1>1, <1>4, <1>5, <1>6, <1>7, <1>8 DEF SyncNext, JobStep

\* A row that is there keeps revision, content and UID in any step but those of its
\* job that write them.
LEMMA RowKept ==
    ASSUME StoreTypeOK, GatewayOK, [SyncNext]_vars, NEW d \in DraftIds, Present(d),
           ~((RecordUpdated \/ TrackCreated \/ SummaryTracking) /\ d = job.draft)
    PROVE  /\ drafts'[d].revision = drafts[d].revision /\ drafts'[d].hash = drafts[d].hash
           /\ SameTracking(d)
<1>1. CASE StartsCreate
  <2>1. PICK k \in Keys, e \in DraftIds, h \in Hashes : BeginCreate(k, e, h)
    BY <1>1 DEF StartsCreate
  <2>2. ~Present(e) /\ \A x \in DraftIds \ {e} : drafts'[x] = drafts[x]
    BY <2>1, NewRow
  <2>3. drafts'[d] = drafts[d]
    BY <2>2
  <2> QED
    BY <2>3 DEF SameTracking
<1>2. CASE RecordUpdated
  <2>1. drafts'[d] = drafts[d]
    BY <1>2, JobUpdateRow
  <2> QED
    BY <2>1 DEF SameTracking
<1>3. CASE TrackCreated \/ SummaryTracking
  <2>1. drafts'[d] = drafts[d]
    BY <1>3, JobTrackingRows
  <2> QED
    BY <2>1 DEF SameTracking
<1> QED
  BY <1>1, <1>2, <1>3, OtherRows DEF SameContent

\* Without a crash, a synced draft is on the server as it is on record.
LEMMA SyncedAgreesStep ==
    ASSUME StoreTypeOK, FolderTypeOK, GatewayOK, HistoryTypeOK, JobInv, UidInv, CopiesInv, RevisionsInv,
           [SyncNext]_vars
    PROVE  SyncedAgrees'
<1> SUFFICES ASSUME crashes' = 0, NEW d \in DraftIds \ touched',
                    \/ drafts'[d].status = "synced_to_gmx" /\ ~Handing(d)'
                    \/ At("record", "status")' /\ job'.draft = d
             PROVE  /\ \A u \in CopiesOf(d)' : box'[u].rev = drafts'[d].revision /\ ~box'[u].deleted
                    /\ drafts'[d].uidvalidity = validity' => drafts'[d].uid \in CopiesOf(d)'
  BY DEF SyncedAgrees, Exact
<1>0. /\ crashes = 0 /\ ~Crash /\ Undisturbed /\ FolderAgrees
      /\ SyncedAgrees /\ RevisionsAgree /\ JobRevisions /\ FreshCopies
  BY DisturbanceLasts DEF UidInv, RevisionsInv, Undisturbed
<1>1. /\ validity \in Nat /\ drafts[d].uidvalidity \in Nat /\ drafts[d].uidvalidity <= validity
      /\ drafts[d].revision \in Nat
  BY <1>0, DataAssumption
     DEF FolderAgrees, FolderTypeOK, Validities, StoreTypeOK, DraftRecord, NoDraft, Revisions
<1>2. ASSUME Inherits(d), ~(MarkDeleted /\ d = job.draft), Exact(d),
             drafts'[d].revision = drafts[d].revision, SameTracking(d)
      PROVE  /\ \A u \in CopiesOf(d)' : box'[u].rev = drafts'[d].revision /\ ~box'[u].deleted
             /\ drafts'[d].uidvalidity = validity' => drafts'[d].uid \in CopiesOf(d)'
  <2>1. \A u \in CopiesOf(d)' : \E w \in CopiesOf(d) :
            box'[u].rev = box[w].rev /\ (box'[u].deleted => box[w].deleted)
    BY <1>2 DEF Inherits
  <2>2. \/ validity' = validity /\ \A u \in CopiesOf(d) : u \in CopiesOf(d)'
        \/ validity' = validity + 1
    BY <1>2 DEF Inherits, Exact
  <2>3. drafts'[d].uidvalidity = validity' => validity' = validity
    BY <1>1, <1>2, <2>2 DEF SameTracking
  <2>4. drafts'[d].uidvalidity = validity' => drafts'[d].uid \in CopiesOf(d)'
    BY <1>1, <1>2, <2>2, <2>3 DEF SameTracking, Exact
  <2> QED
    BY <1>2, <2>1, <2>4 DEF Exact
<1>3. ASSUME UNCHANGED folderVars
      PROVE  CopiesOf(d)' = CopiesOf(d) /\ box' = box /\ validity' = validity /\ d \notin touched
  BY <1>3 DEF folderVars, CopiesOf, Live
<1>4. CASE RecordUpdated /\ d = job.draft
  <2>1. /\ phase = "record" /\ job.op = UpdateOp /\ UNCHANGED folderVars
        /\ drafts'[d] = [status |-> "synced_to_gmx", revision |-> job.rev, hash |-> job.hash,
                         uid |-> newUid, uidvalidity |-> sel]
    BY <1>4, JobUpdateRow DEF RecordUpdated, At
  <2>2. job.rev = drafts[d].revision + 1
    BY <1>4, <2>1 DEF JobInv, JobAgrees, Record
  <2>3. \A u \in CopiesOf(d) : box[u].rev # drafts[d].revision
    BY <1>0, <1>3, <1>4, <2>1 DEF JobRevisions, Shows, Record
  <2>4. \A u \in CopiesOf(d) : box[u].rev = job.rev
    BY <1>0, <1>3, <2>1, <2>2, <2>3 DEF RevisionsAgree, Tracked
  <2>5. \A u \in CopiesOf(d) : ~box[u].deleted
    BY <1>1, <1>3, <2>1, <2>2, <2>4 DEF CopiesInv, CopiesKept
  <2>6. validity = sel => newUid \in CopiesOf(d)
    BY <1>3, <1>4, <2>1 DEF CopiesInv, NewestAgrees
  <2> QED
    BY <1>3, <2>1, <2>4, <2>5, <2>6
<1>5. CASE TrackCreated /\ d = job.draft
  <2>1. /\ phase = "record" /\ step = "tracking" /\ job.op = CreateOp /\ UNCHANGED folderVars
        /\ drafts'[d].uid = newUid /\ drafts'[d].uidvalidity = sel
        /\ drafts'[d].revision = drafts[d].revision
    BY <1>5, JobTrackingRows, JobPhases DEF TrackCreated, At, SameContent
  <2>2. drafts[d].revision = 1
    BY <1>5, <2>1 DEF JobInv, JobAgrees, Record
  <2>3. \A u \in CopiesOf(d) : box[u].rev = 1 /\ ~box[u].deleted
    BY <1>0, <1>3, <1>5, <2>1 DEF FreshCopies
  <2>4. validity = sel => newUid \in CopiesOf(d)
    BY <1>3, <1>5, <2>1 DEF CopiesInv, NewestAgrees
  <2> QED
    BY <1>3, <2>1, <2>2, <2>3, <2>4
<1>6. CASE SummaryTracking /\ d = job.draft
  <2>1. /\ phase = "summary" /\ step = "tracking" /\ job.op = SummaryOp /\ UNCHANGED folderVars /\ phase' = "idle"
        /\ drafts'[d].uid = newUid /\ drafts'[d].uidvalidity = sel
        /\ drafts'[d].revision = drafts[d].revision /\ drafts'[d].status = drafts[d].status
    BY <1>6, JobTrackingRows, JobPhases DEF SummaryTracking, At, SameContent, Finish, GoTo
  <2>2. drafts[d].status = "synced_to_gmx" /\ ~Handing(d)
    BY <2>1 DEF Handing, At, SummaryOp, UpdateOp
  <2>3. \A u \in CopiesOf(d) : box[u].rev = drafts[d].revision /\ ~box[u].deleted
    BY <1>0, <1>3, <2>1, <2>2 DEF SyncedAgrees, Exact
  <2>4. validity = sel => newUid \in CopiesOf(d)
    BY <1>3, <1>6, <2>1 DEF CopiesInv, NewestAgrees, At
  <2> QED
    BY <1>3, <2>1, <2>3, <2>4
<1>7. CASE RecordCreated /\ d = job.draft
  <2>1. At("record", "status") /\ UNCHANGED folderVars
    BY <1>7 DEF RecordCreated
  <2>2. drafts'[d].revision = drafts[d].revision /\ drafts'[d].uid = drafts[d].uid
        /\ drafts'[d].uidvalidity = drafts[d].uidvalidity
    BY <1>7, JobStatusRows DEF SameContent, SameTracking
  <2>3. Exact(d)
    BY <1>0, <1>3, <1>7, <2>1 DEF SyncedAgrees
  <2> QED
    BY <1>3, <2>1, <2>2, <2>3 DEF Exact
<1>8. CASE ~((RecordUpdated \/ TrackCreated \/ SummaryTracking \/ RecordCreated) /\ d = job.draft)
  <2>1. CASE drafts'[d].status = "synced_to_gmx" /\ ~Handing(d)'
    <3>1. drafts[d].status = "synced_to_gmx" /\ Present(d)
      BY <1>8, <2>1, SyncedBefore DEF Present, NoDraft
    <3>2. ~Handing(d)
      <4>1. RecordUpdated => d # job.draft
        BY <1>8
      <4>2. CASE RecordUpdated
        BY <4>1, <4>2 DEF Handing
      <4>3. CASE ~RecordUpdated
        BY <1>0, <2>1, <4>3, HandingLasts
      <4> QED
        BY <4>2, <4>3
    <3>3. ~(AppendCreated /\ d = job.draft)
      BY <3>1, JobPhases DEF AppendCreated, At, JobInv, JobAgrees, Record
    <3>4. ~(AppendUpdated /\ d = job.draft)
      <4> SUFFICES ASSUME AppendUpdated, d = job.draft PROVE FALSE
        OBVIOUS
      <4>1. job.op = UpdateOp
        BY JobPhases DEF AppendUpdated, At
      <4>2. job' = job /\ phase' \in {"replace", "failing"}
        BY DEF AppendUpdated, AppendRevision, GoTo
      <4> QED
        BY <2>1, <4>1, <4>2 DEF Handing
    <3>5. ~(MarkDeleted /\ d = job.draft)
      BY <3>2, JobPhases DEF MarkDeleted, At, Handing
    <3>6. Inherits(d)
      BY <3>3, <3>4, CopiesInherited
    <3>7. Exact(d)
      BY <1>0, <3>1, <3>2, <3>6 DEF SyncedAgrees, Inherits
    <3>8. drafts'[d].revision = drafts[d].revision /\ SameTracking(d)
      BY <1>8, <3>1, RowKept
    <3> QED
      BY <1>2, <3>5, <3>6, <3>7, <3>8
  <2>2. CASE At("record", "status")' /\ job'.draft = d
    <3>1. UNCHANGED gatewayVars /\ (OtherClient \/ ServerRenumbers \/ UNCHANGED vars) /\ phase = "record" /\ step = "status"
      <4>1. ~TrackCreated
        BY <1>8, <2>2 DEF TrackCreated, lookupVars
      <4> QED
        BY <2>2, <4>1, NewestSteps DEF ReplaceFound, MarkDeleted, Expunge, SelectFinal, FinalFound,
           ConfirmCreated, SummaryStatus, GoTo, At, Seen, gatewayVars
    <3>2. job.draft = d /\ drafts' = drafts /\ ~AppendCreated /\ ~AppendUpdated /\ ~MarkDeleted
      BY <2>2, <3>1 DEF gatewayVars, OtherClient, ServerRenumbers, vars, storeVars, AppendCreated, AppendUpdated,
         MarkDeleted, At
    <3>3. Inherits(d)
      BY <3>2, CopiesInherited
    <3>4. Exact(d)
      BY <1>0, <3>1, <3>2, <3>3 DEF SyncedAgrees, Inherits, At
    <3> QED
      BY <1>2, <3>2, <3>3, <3>4 DEF SameTracking
  <2> QED
    BY <2>1, <2>2
<1> QED
  BY <1>4, <1>5, <1>6, <1>7, <1>8

\* The revisions that are on the server agree with the store throughout.
LEMMA RevisionsAlwaysAgree == SyncSpec => []RevisionsInv
<1>1. SyncInit => RevisionsInv
  BY DataAssumption DEF SyncInit, StoreInit, FolderInit, RevisionsInv, FreshCopies, MarkedAgrees, RevisionsAgree,
     Tracked, JobRevisions, SyncedAgrees, CopiesOf, Live, NoDraft, NoJob, At, CreateOp, UpdateOp
<1>2. SyncTypeInv /\ JobInv /\ UidInv /\ CopiesInv /\ RevisionsInv /\ [SyncNext]_vars => RevisionsInv'
  BY FreshCopiesStep, MarkedAgreesStep, RevisionsAgreeStep, JobRevisionsStep, SyncedAgreesStep
     DEF SyncTypeInv, SyncTypeOK, GatewayOK, RevisionsInv
<1> QED
  BY <1>1, <1>2, SyncTypes, JobAlwaysAgrees, UidsAlwaysName, CopiesAlwaysKept, PTL DEF SyncSpec

\* Of a draft only the gateway writes: whatever is on the server is in the store; it
\* is messages of the stored revision, with the stored hash, and of the next one
\* only, one of each; and there is one as long as the store calls the draft synced.
THEOREM ServerAlwaysTracked == SyncSpec => []ServerTracksStore
<1>1. ASSUME JobInv, UidInv, CopiesInv, RevisionsInv
      PROVE  ServerTracksStore
  <2> SUFFICES ASSUME NEW d \in DraftIds \ touched
               PROVE  /\ \A u \in CopiesOf(d) : Present(d)
                      /\ Undisturbed => Tracked(d)
                      /\ drafts[d].status = "synced_to_gmx" => CopiesOf(d) # {}
    BY DEF ServerTracksStore, Tracked
  <2>1. \A u \in CopiesOf(d) : Present(d)
    BY <1>1, NoRowNoCopy DEF UidInv
  <2>2. Undisturbed => Tracked(d)
    BY <1>1 DEF RevisionsInv, RevisionsAgree
  <2>3. drafts[d].status = "synced_to_gmx" => CopiesOf(d) # {}
    BY <1>1 DEF JobInv, UidsAgree, CopiesInv, CopiesKept
  <2> QED
    BY <2>1, <2>2, <2>3
<1> QED
  BY <1>1, JobAlwaysAgrees, UidsAlwaysName, CopiesAlwaysKept, RevisionsAlwaysAgree, PTL

\* Between jobs, without a crash, a synced draft is exactly one message: the stored
\* revision and hash, not marked for deletion, under the stored UID unless the server
\* renumbered since.
THEOREM SyncedAlwaysExact == SyncSpec => []SyncedIsExact
<1>1. ASSUME FolderTypeOK, JobInv, CopiesInv, RevisionsInv
      PROVE  SyncedIsExact
  <2> SUFFICES ASSUME NEW d \in DraftIds \ touched,
                      phase = "idle", crashes = 0, drafts[d].status = "synced_to_gmx"
               PROVE  \E u \in Uids :
                          /\ CopiesOf(d) = {u}
                          /\ box[u] = [draft |-> d, rev |-> drafts[d].revision,
                                       hash |-> drafts[d].hash, deleted |-> FALSE]
                          /\ drafts[d].uidvalidity = validity => drafts[d].uid = u
    BY DEF SyncedIsExact
  <2>1. Tracked(d)
    BY <1>1 DEF RevisionsInv, RevisionsAgree, Undisturbed
  <2>2. Exact(d)
    BY <1>1 DEF RevisionsInv, SyncedAgrees, Handing, ConflictPhases
  <2>3. PICK u \in Uids : u \in CopiesOf(d)
    BY <1>1 DEF JobInv, UidsAgree, CopiesInv, CopiesKept, CopiesOf
  <2>4. CopiesOf(d) = {u}
    BY <2>1, <2>2, <2>3 DEF Tracked, Exact
  <2>5. box[u].draft = d /\ box[u].rev = drafts[d].revision /\ box[u].hash = drafts[d].hash
        /\ ~box[u].deleted /\ box[u] \in Message
    BY <1>1, <2>1, <2>2, <2>3 DEF Tracked, Exact, CopiesOf, Live, FolderTypeOK
  <2>6. box[u] = [draft |-> d, rev |-> drafts[d].revision, hash |-> drafts[d].hash, deleted |-> FALSE]
    BY <2>5 DEF Message
  <2> QED
    BY <2>2, <2>4, <2>6 DEF Exact
<1>2. SyncTypeInv => FolderTypeOK
  BY DEF SyncTypeInv, SyncTypeOK
<1> QED
  BY <1>1, <1>2, SyncTypes, JobAlwaysAgrees, CopiesAlwaysKept, RevisionsAlwaysAgree, PTL

-----------------------------------------------------------------------------
(* Conflicts                                                                 *)
(*                                                                           *)
(* Every lookup of the gateway is followed by a test of what it has found.   *)
(* Without a crash and with every FETCH answered, what it has found is all   *)
(* that is there, and of a draft nobody else has touched that is what the    *)
(* test asks for.                                                            *)

ConflictsAgree ==
    crashes = 0 /\ refused = 0 =>
        /\ \A d \in DraftIds : drafts[d].status \in {"modified", "invalidated"} => d \in touched
        /\ phase \in ConflictPhases => job.draft \in touched

\* A synced draft is one message.
LEMMA OneCopy ==
    ASSUME JobInv, CopiesInv, RevisionsInv, crashes = 0,
           NEW d \in DraftIds \ touched, drafts[d].status = "synced_to_gmx", ~Handing(d)
    PROVE  \E u \in Uids : /\ CopiesOf(d) = {u}
                           /\ box[u].rev = drafts[d].revision /\ box[u].hash = drafts[d].hash
                           /\ ~box[u].deleted
<1>1. Tracked(d) /\ Exact(d)
  BY DEF RevisionsInv, RevisionsAgree, SyncedAgrees, Undisturbed
<1>2. PICK u \in Uids : u \in CopiesOf(d)
  BY DEF JobInv, UidsAgree, CopiesInv, CopiesKept, CopiesOf
<1>3. CopiesOf(d) = {u}
  BY <1>1, <1>2 DEF Tracked, Exact
<1> QED
  BY <1>1, <1>2, <1>3 DEF Tracked, Exact

\* A lookup whose FETCHes were all answered has found the messages that are there.
LEMMA FoundAll ==
    ASSUME UidInv, step = "fetch", hits = {}, refused = 0, NEW d \in DraftIds \ touched, d = job.draft
    PROVE  /\ \A m \in found : /\ m.uid \in CopiesOf(d)
                               /\ m.rev = box[m.uid].rev /\ m.hash = box[m.uid].hash
           /\ \A u \in CopiesOf(d) : \E m \in found : m.uid = u
<1>1. \A m \in found : Names(m.uid, m)
  BY DEF UidInv, LookupAgrees
<1>2. \A u \in CopiesOf(d) : \E m \in found : m.uid = u
  BY DEF UidInv, LookupAgrees
<1> QED
  BY <1>1, <1>2 DEF Names, CopiesOf

\* Where there is one message, one has been found.
LEMMA FoundOne ==
    ASSUME GatewayOK, UidInv, step = "fetch", hits = {}, refused = 0, NEW d \in DraftIds \ touched, d = job.draft,
           NEW u, CopiesOf(d) = {u}
    PROVE  \E m \in found : found = {m} /\ m.rev = box[u].rev /\ m.hash = box[u].hash
<1>1. PICK m \in found : m.uid = u
  BY FoundAll
<1>2. \A x \in found : x.uid = u /\ x.rev = box[u].rev /\ x.hash = box[u].hash
  BY FoundAll
<1>3. \A x \in found : x = m
  BY <1>1, <1>2 DEF GatewayOK, GatewayTypeOK, ServerDraft
<1> QED
  BY <1>1, <1>2, <1>3

\* The conflict of an update with a synced draft.
LEMMA NoSyncedConflict ==
    ASSUME GatewayOK, JobInv, UidInv, CopiesInv, RevisionsInv, crashes = 0, refused = 0, step = "fetch", hits = {},
           NEW d \in DraftIds \ touched, d = job.draft, drafts[d].status = "synced_to_gmx", ~Handing(d)
    PROVE  \E m \in found : found = {m} /\ m.hash = Record.hash /\ ~Duplicates
<1>1. PICK u \in Uids : CopiesOf(d) = {u} /\ box[u].hash = drafts[d].hash
  BY OneCopy
<1>2. PICK m \in found : found = {m} /\ m.hash = box[u].hash
  BY <1>1, FoundOne
<1>3. ~Duplicates
  BY <1>2 DEF Duplicates
<1> QED
  BY <1>1, <1>2, <1>3 DEF Record

\* A creation's own message is the one that is found.
LEMMA NoCreateConflict ==
    ASSUME GatewayOK, UidInv, RevisionsInv, crashes = 0, refused = 0, CreateConflict, NEW d \in DraftIds, d = job.draft
    PROVE  d \in touched
<1> SUFFICES ASSUME d \notin touched PROVE FALSE
  OBVIOUS
<1>1. step = "fetch" /\ hits = {} /\ phase \in {"look", "confirm"} /\ job.op = CreateOp
  BY JobPhases DEF CreateConflict, Seen, At
<1>2. /\ phase = "look" => CopiesOf(d) = {}
      /\ phase = "confirm" => CopiesOf(d) # {}
      /\ \A u \in CopiesOf(d) : box[u].rev = 1
      /\ Tracked(d)
  BY <1>1 DEF RevisionsInv, FreshCopies, RevisionsAgree, Undisturbed
<1>3. CASE phase = "look"
  <2>1. found # {}
    BY <1>3 DEF CreateConflict, Seen, At
  <2> QED
    BY <1>1, <1>2, <1>3, <2>1, FoundAll
<1>4. CASE phase = "confirm"
  <2>1. PICK u \in CopiesOf(d) : CopiesOf(d) = {u}
    BY <1>2, <1>4 DEF Tracked
  <2>2. PICK m \in found : found = {m} /\ m.rev = box[u].rev
    BY <1>1, <2>1, FoundOne
  <2>3. m.rev = job.rev
    BY <1>1, <1>2, <2>1, <2>2, JobKinds DEF GatewayOK
  <2> QED
    BY <1>4, <2>2, <2>3 DEF CreateConflict, Seen, At
<1> QED
  BY <1>1, <1>3, <1>4

\* While an update replaces a message, the lookups find the two, and then the new one.
LEMMA NoReplaceConflict ==
    ASSUME StoreTypeOK, GatewayOK, JobInv, UidInv, CopiesInv, RevisionsInv, crashes = 0, refused = 0,
           ReplaceConflict \/ FinalConflict, NEW d \in DraftIds, d = job.draft
    PROVE  d \in touched
<1> SUFFICES ASSUME d \notin touched PROVE FALSE
  OBVIOUS
<1>1. step = "fetch" /\ hits = {} /\ phase \in {"replace", "final"} /\ job.op = UpdateOp
  BY JobPhases DEF ReplaceConflict, FinalConflict, Seen, At
<1>2. job.rev = drafts[d].revision + 1 /\ drafts[d].revision \in Nat /\ drafts[d].status = "synced_to_gmx"
  <2>1. drafts[d].revision \in Nat
    BY DataAssumption DEF StoreTypeOK, DraftRecord, NoDraft, Revisions
  <2> QED
    BY <1>1, <2>1 DEF JobInv, JobAgrees, Record, ConflictPhases
<1>3. Tracked(d) /\ CopiesOf(d) # {}
  BY <1>2 DEF RevisionsInv, RevisionsAgree, Undisturbed, JobInv, UidsAgree, CopiesInv, CopiesKept
<1>4. /\ phase = "replace" => Shows(d, drafts[d].revision) /\ Shows(d, job.rev)
      /\ phase = "final" => ~Shows(d, drafts[d].revision)
      /\ \A u \in CopiesOf(d) : box[u].rev = job.rev => box[u].hash = job.hash
  BY <1>1 DEF RevisionsInv, JobRevisions, Undisturbed, Record
<1>5. CASE phase = "final"
  <2>1. \A u \in CopiesOf(d) : box[u].rev = job.rev
    BY <1>2, <1>3, <1>4, <1>5 DEF Tracked, Shows
  <2>2. PICK u \in CopiesOf(d) : CopiesOf(d) = {u}
    BY <1>3, <2>1 DEF Tracked
  <2>3. PICK m \in found : found = {m} /\ m.rev = box[u].rev /\ m.hash = box[u].hash
    BY <1>1, <2>2, FoundOne
  <2>4. NewRevision(m)
    BY <1>4, <2>1, <2>2, <2>3 DEF NewRevision
  <2> QED
    BY <1>5, <2>3, <2>4 DEF ReplaceConflict, FinalConflict, Seen, At
<1>6. CASE phase = "replace"
  <2>1. PICK u \in CopiesOf(d), w \in CopiesOf(d) : box[u].rev = drafts[d].revision /\ box[w].rev = job.rev
    BY <1>4, <1>6 DEF Shows
  <2>2. \A x \in CopiesOf(d) : x \in {u, w}
    BY <1>2, <1>3, <2>1 DEF Tracked
  <2>3. /\ \A m \in found : /\ m.uid \in CopiesOf(d)
                            /\ m.rev = box[m.uid].rev /\ m.hash = box[m.uid].hash
        /\ \A x \in CopiesOf(d) : \E m \in found : m.uid = x
    BY <1>1, FoundAll
  <2>4. PICK m \in found, n \in found : m.uid = u /\ n.uid = w
    BY <2>1, <2>3
  <2>5. \A x \in found : x.uid = u => x = m
    BY <2>3, <2>4 DEF GatewayOK, GatewayTypeOK, ServerDraft
  <2>6. \A x \in found : x.uid = w => x = n
    BY <2>3, <2>4 DEF GatewayOK, GatewayTypeOK, ServerDraft
  <2>7. found = {m, n}
    BY <2>2, <2>3, <2>4, <2>5, <2>6
  <2>8. OldRevision(m)
    <3>1. box[u].hash = drafts[d].hash
      BY <1>3, <2>1 DEF Tracked
    <3> QED
      BY <1>2, <2>1, <2>3, <2>4, <3>1 DEF OldRevision, Record
  <2>9. NewRevision(n)
    BY <1>4, <2>1, <2>3, <2>4 DEF NewRevision
  <2> QED
    BY <1>6, <2>7, <2>8, <2>9 DEF ReplaceConflict, FinalConflict, Seen, At
<1> QED
  BY <1>1, <1>5, <1>6

\* How a draft comes to be modified or invalidated.
LEMMA ConflictBefore ==
    ASSUME StoreTypeOK, GatewayOK, [SyncNext]_vars, NEW d \in DraftIds,
           drafts'[d].status \in {"modified", "invalidated"}
    PROVE  \/ drafts[d].status \in {"modified", "invalidated"}
           \/ CreateConflict /\ d = job.draft
           \/ RecordConflict /\ d = job.draft
           \/ /\ SummaryRefused \/ SummaryStatus
              /\ d = job.draft /\ drafts[d].status = "synced_to_gmx"
              /\ Duplicates \/ \E m \in found : found = {m} /\ m.hash # Record.hash
<1>1. CASE StartsCreate
  <2>1. PICK k \in Keys, e \in DraftIds, h \in Hashes : BeginCreate(k, e, h)
    BY <1>1 DEF StartsCreate
  <2>2. /\ drafts'[e] = [status |-> "new", revision |-> 1, hash |-> h, uid |-> 0, uidvalidity |-> 0]
        /\ \A x \in DraftIds \ {e} : drafts'[x] = drafts[x]
    BY <2>1, NewRow
  <2> QED
    BY <2>2
<1>2. CASE RecordUpdated
  BY <1>2, JobUpdateRow
<1>3. CASE TrackCreated \/ SummaryTracking
  BY <1>3, JobTrackingRows
<1>4. CASE Stage \/ RecordCreated \/ FailJob \/ SummaryRefused \/ SummaryStatus
  <2>1. \A e \in DraftIds \ {job.draft} : drafts'[e] = drafts[e]
    BY <1>4, JobStatusRows
  <2>2. CASE d = job.draft /\ ~UNCHANGED storeVars
    <3>1. CASE SummaryRefused \/ SummaryStatus
      BY <2>2, <3>1 DEF SummaryRefused, SummaryStatus, Record
    <3>2. CASE Stage \/ RecordCreated \/ FailJob
      <4>1. PICK t \in {"staged", "synced_to_gmx", "failed"} : TransitionStatus(d, t)
        BY <2>2, <3>2 DEF Stage, RecordCreated, FailJob
      <4>2. drafts'[d].status = t
        BY <4>1, StatusEffect
      <4> QED
        BY <4>2
    <3> QED
      BY <1>4, <3>1, <3>2
  <2> QED
    BY <2>1, <2>2 DEF storeVars
<1>5. CASE CreateConflict \/ RecordConflict
  BY <1>5, JobStatusRows
<1>6. CASE \E e \in DraftIds : BootFail(e)
  <2>1. PICK e \in DraftIds : FailListed(e)
    BY <1>6 DEF BootFail
  <2>2. drafts'[d] = drafts[d] \/ drafts'[d].status = "failed"
    BY <2>1, FailedRow
  <2> QED
    BY <2>2
<1>7. CASE Request /\ ~StartsCreate
  BY <1>7 DEF Request, StartsCreate, BeginUpdate, BeginSummary, storeVars
<1>8. CASE Lookup \/ LookClear \/ AppendCreated \/ ConfirmCreated
  BY <1>8 DEF Lookup, Select, Search, Fetch, LookClear, AppendCreated, AppendRevision, ConfirmCreated, storeVars
<1>9. CASE UpdateStep /\ ~RecordUpdated /\ ~RecordConflict
  BY <1>9 DEF UpdateStep, Conflict, InspectInSync, VerifyPrevious, AppendUpdated, AppendRevision,
     ReplaceFound, ReplaceConflict, MarkDeleted, Expunge, SelectFinal, FinalFound, FinalConflict, BindConflict,
     BindIdempotency, storeVars
<1>10. CASE Unusable \/ Fail \/ Crash \/ Boot \/ Serve \/ OtherClient \/ ServerRenumbers \/ UNCHANGED vars
  BY <1>10 DEF Unusable, Fail, Crash, AbandonSweep, Boot, ListIncomplete, Serve, OtherClient,
     ServerRenumbers, vars, storeVars
<1> QED
  BY <1>1, <1>2, <1>3, <1>4, <1>5, <1>6, <1>7, <1>8, <1>9, <1>10
     DEF SyncNext, JobStep, CreateStep, SummaryStep, BootStep

\* How an update comes to end in a conflict.
LEMMA ConflictSteps ==
    ASSUME [SyncNext]_vars, StepsAgree, phase' \in ConflictPhases
    PROVE  job' = job /\ (phase \in ConflictPhases \/ Conflict \/ ReplaceConflict \/ FinalConflict)
<1> USE DEF GoTo, At, Seen, ConflictPhases
<1>1. CASE Request \/ Unusable \/ Fail \/ FailJob \/ Crash \/ BootStep
  BY <1>1 DEF Request, BeginCreate, BeginUpdate, BeginSummary, Unusable, Fail, FailJob, Finish, Crash, BootStep,
     Boot, BootFail, Serve, gatewayVars
<1>2. CASE CreateStep \/ SummaryStep
  BY <1>2 DEF CreateStep, Stage, LookClear, AppendCreated, AppendRevision, CreateConflict, ConfirmCreated,
     TrackCreated, RecordCreated, SummaryStep, SummaryRefused, SummaryStatus, SummaryTracking, Finish
<1>3. CASE UpdateStep
  BY <1>3 DEF UpdateStep, Conflict, InspectInSync, VerifyPrevious, AppendUpdated, AppendRevision, ReplaceFound,
     ReplaceConflict, MarkDeleted, Expunge, SelectFinal, FinalFound, FinalConflict, RecordUpdated,
     RecordConflict, ConflictPhase, BindConflict, Finish
<1>4. CASE Lookup
  BY <1>4 DEF Lookup, Select, Search, Fetch, Lookups
<1>5. CASE OtherClient \/ ServerRenumbers \/ UNCHANGED vars
  BY <1>5 DEF OtherClient, ServerRenumbers, vars, gatewayVars
<1> QED
  BY <1>1, <1>2, <1>3, <1>4, <1>5 DEF SyncNext, JobStep

\* What the other client has touched it has touched for good.
LEMMA TouchedGrows ==
    ASSUME FolderTypeOK, GatewayOK, UidInv, [SyncNext]_vars
    PROVE  touched \subseteq touched'
<1>1. FolderAgrees /\ touched \subseteq DraftIds
  BY DEF UidInv, FolderTypeOK
<1>2. \A d \in DraftIds \ touched' : d \notin touched
  <2> SUFFICES ASSUME NEW d \in DraftIds \ touched' PROVE d \notin touched
    OBVIOUS
  <2>1. CASE AppendCreated \/ AppendUpdated
    BY <1>1, <2>1, CopiesAppended
  <2>2. CASE ~(AppendCreated \/ AppendUpdated)
    BY <2>2, CopiesInherited DEF Inherits
  <2> QED
    BY <2>1, <2>2
<1> QED
  BY <1>1, <1>2

\* Without a crash and with every FETCH answered, a conflict is not the gateway's own.
LEMMA ConflictsAgreeStep ==
    ASSUME StoreTypeOK, FolderTypeOK, GatewayOK, HistoryTypeOK, JobInv, UidInv, CopiesInv, RevisionsInv,
           ConflictsAgree, [SyncNext]_vars
    PROVE  ConflictsAgree'
<1> SUFFICES ASSUME crashes' = 0, refused' = 0
             PROVE  /\ \A d \in DraftIds : drafts'[d].status \in {"modified", "invalidated"} => d \in touched'
                    /\ phase' \in ConflictPhases => job'.draft \in touched'
  BY DEF ConflictsAgree
<1>0. crashes = 0 /\ refused = 0 /\ touched \subseteq touched' /\ StepsAgree
  BY DisturbanceLasts, TouchedGrows DEF JobInv
<1>1. /\ \A d \in DraftIds : drafts[d].status \in {"modified", "invalidated"} => d \in touched
      /\ phase \in ConflictPhases => job.draft \in touched
  BY <1>0 DEF ConflictsAgree
<1>2. ASSUME NEW d \in DraftIds, drafts'[d].status \in {"modified", "invalidated"}
      PROVE  d \in touched
  <2>1. CASE drafts[d].status \in {"modified", "invalidated"}
    BY <1>1, <2>1
  <2>2. CASE CreateConflict /\ d = job.draft
    BY <1>0, <2>2, NoCreateConflict
  <2>3. CASE RecordConflict /\ d = job.draft
    BY <1>1, <2>3 DEF RecordConflict, ConflictPhase, ConflictPhases
  <2>4. CASE /\ SummaryRefused \/ SummaryStatus
             /\ d = job.draft /\ drafts[d].status = "synced_to_gmx"
             /\ Duplicates \/ \E m \in found : found = {m} /\ m.hash # Record.hash
    <3>1. step = "fetch" /\ hits = {} /\ job.op = SummaryOp
      BY <2>4, JobPhases DEF SummaryRefused, SummaryStatus, Seen, At
    <3>2. ~Handing(d)
      BY <3>1 DEF Handing, SummaryOp, UpdateOp
    <3> QED
      BY <1>0, <2>4, <3>1, <3>2, NoSyncedConflict
  <2> QED
    BY <1>2, <2>1, <2>2, <2>3, <2>4, ConflictBefore
<1>3. ASSUME phase' \in ConflictPhases
      PROVE  job.draft \in touched
  <2>1. CASE phase \in ConflictPhases
    BY <1>1, <2>1
  <2>2. CASE Conflict
    <3>1. /\ step = "fetch" /\ hits = {} /\ phase \in {"inspect", "verify"} /\ job.op = UpdateOp
      BY <2>2, JobPhases DEF Conflict, Seen, At
    <3>2. PICK d \in DraftIds : d = job.draft
      BY <3>1, LookupJob DEF Lookups
    <3>3. drafts[d].status = "synced_to_gmx" /\ ~Handing(d)
      BY <3>1, <3>2 DEF JobInv, JobAgrees, Record, ConflictPhases, Handing
    <3> QED
      BY <1>0, <2>2, <3>1, <3>2, <3>3, NoSyncedConflict DEF Conflict
  <2>3. CASE ReplaceConflict \/ FinalConflict
    <3>1. PICK d \in DraftIds : d = job.draft
      BY <2>3, LookupJob DEF Lookups, ReplaceConflict, FinalConflict, Seen, At
    <3> QED
      BY <1>0, <2>3, <3>1, NoReplaceConflict
  <2> QED
    BY <1>0, <1>3, <2>1, <2>2, <2>3, ConflictSteps
<1> QED
  BY <1>0, <1>2, <1>3, ConflictSteps

\* Without a crash and with every FETCH answered, a draft ends up modified or
\* invalidated only because someone else changed its messages, never through the
\* gateway's own replacement.
THEOREM ConflictsAlwaysExternal == SyncSpec => []ConflictsAreExternal
<1>1. SyncInit => ConflictsAgree
  BY DataAssumption DEF SyncInit, StoreInit, ConflictsAgree, NoDraft, ConflictPhases
<1>2. SyncTypeInv /\ JobInv /\ UidInv /\ CopiesInv /\ RevisionsInv /\ ConflictsAgree /\ [SyncNext]_vars
      => ConflictsAgree'
  BY ConflictsAgreeStep DEF SyncTypeInv, SyncTypeOK, GatewayOK
<1>3. ConflictsAgree => ConflictsAreExternal
  BY DEF ConflictsAgree, ConflictsAreExternal
<1> QED
  BY <1>1, <1>2, <1>3, SyncTypes, JobAlwaysAgrees, UidsAlwaysName, CopiesAlwaysKept, RevisionsAlwaysAgree, PTL
     DEF SyncSpec

-----------------------------------------------------------------------------
(* Revisions handed over                                                     *)
(*                                                                           *)
(* DraftSync implements RevisionHandover, seen through ShownRevisions,       *)
(* RecordedRevision and HandoverState.  Undisturbed is what the refinement   *)
(* rests on: only then is there nothing but the recorded revision where an   *)
(* update publishes the next one (NothingNewer).                             *)

\* A draft looks as before.
SameView(d) ==
    /\ ShownRevisions(d)' = ShownRevisions(d)
    /\ RecordedRevision(d)' = RecordedRevision(d)
    /\ HandoverState(d)' = HandoverState(d)

\* The other drafts look as before.
OthersAsBefore(d) == \A e \in DraftIds \ {d} : SameView(e)

\* A step none of the drafts sees.
LEMMA HandoverStutters ==
    ASSUME \A d \in DraftIds : SameView(d)
    PROVE  UNCHANGED Handover!handoverVars
BY DEF SameView, Handover!handoverVars

\* The steps of RevisionHandover, told by what they change in the view of one draft.
LEMMA HandoverRegister ==
    ASSUME NEW d \in DraftIds, OthersAsBefore(d),
           HandoverState(d) = "none", HandoverState(d)' = "open",
           RecordedRevision(d)' = 1, ShownRevisions(d)' = ShownRevisions(d)
    PROVE  Handover!Next
<1>1. Handover!Register(d)
  BY DEF Handover!Register, OthersAsBefore, SameView
<1> QED
  BY <1>1 DEF Handover!Next

\* The first revision shows up.
LEMMA HandoverPublishFirst ==
    ASSUME NEW d \in DraftIds, OthersAsBefore(d),
           HandoverState(d) = "open", HandoverState(d)' = HandoverState(d),
           RecordedRevision(d) = 1, RecordedRevision(d)' = RecordedRevision(d),
           ShownRevisions(d) = {}, ShownRevisions(d)' = {1}
    PROVE  Handover!Next
<1>1. Handover!PublishFirst(d)
  BY DEF Handover!PublishFirst, OthersAsBefore, SameView
<1> QED
  BY <1>1 DEF Handover!Next

\* The next revision shows up beside the recorded one.
LEMMA HandoverPublishNext ==
    ASSUME NEW d \in DraftIds, OthersAsBefore(d),
           HandoverState(d) = "open", HandoverState(d)' = HandoverState(d),
           RecordedRevision(d)' = RecordedRevision(d),
           ShownRevisions(d) = {RecordedRevision(d)},
           ShownRevisions(d)' = {RecordedRevision(d), RecordedRevision(d) + 1}
    PROVE  Handover!Next
<1>1. Handover!PublishNext(d)
  BY DEF Handover!PublishNext, OthersAsBefore, SameView
<1> QED
  BY <1>1 DEF Handover!Next

\* The revision that is left is recorded.
LEMMA HandoverRecordNext ==
    ASSUME NEW d \in DraftIds, OthersAsBefore(d),
           HandoverState(d) = "open", HandoverState(d)' = HandoverState(d),
           RecordedRevision(d)' = RecordedRevision(d) + 1,
           ShownRevisions(d) = {RecordedRevision(d) + 1},
           ShownRevisions(d)' = ShownRevisions(d)
    PROVE  Handover!Next
<1>1. Handover!RecordNext(d)
  BY DEF Handover!RecordNext, OthersAsBefore, SameView
<1> QED
  BY <1>1 DEF Handover!Next

\* A draft is closed.
LEMMA HandoverClose ==
    ASSUME NEW d \in DraftIds, OthersAsBefore(d),
           HandoverState(d) = "open", HandoverState(d)' = "closed",
           RecordedRevision(d)' = RecordedRevision(d),
           ShownRevisions(d)' = ShownRevisions(d)
    PROVE  Handover!Next
<1>1. Handover!Close(d)
  BY DEF Handover!Close, OthersAsBefore, SameView
<1> QED
  BY <1>1 DEF Handover!Next

\* Someone else takes a draft over.
LEMMA HandoverLose ==
    ASSUME NEW d \in DraftIds, OthersAsBefore(d),
           HandoverState(d) \in {"open", "closed"}, HandoverState(d)' = "lost",
           RecordedRevision(d)' = 0, ShownRevisions(d)' = {}
    PROVE  Handover!Next
<1>1. Handover!Lose(d)
  BY DEF Handover!Lose, OthersAsBefore, SameView
<1> QED
  BY <1>1 DEF Handover!Next

\* EXPUNGE is the one step that several drafts may see.
LEMMA HandoverRetire ==
    ASSUME NEW gone \in SUBSET DraftIds,
           \A d \in DraftIds : /\ HandoverState(d)' = HandoverState(d)
                               /\ RecordedRevision(d)' = RecordedRevision(d),
           \A d \in DraftIds \ gone : ShownRevisions(d)' = ShownRevisions(d),
           \A d \in gone : /\ HandoverState(d) \in {"open", "closed"}
                           /\ ShownRevisions(d) = {RecordedRevision(d), RecordedRevision(d) + 1}
                           /\ ShownRevisions(d)' = {RecordedRevision(d) + 1}
    PROVE  Handover!Next
<1>1. Handover!Retire(gone)
  BY DEF Handover!Retire
<1> QED
  BY <1>1 DEF Handover!Next

\* A draft someone else has touched is lost for good, whatever becomes of it.
LEMMA LostStays ==
    ASSUME NEW d \in DraftIds, d \in touched, d \in touched'
    PROVE  SameView(d)
BY DEF SameView, ShownRevisions, RecordedRevision, HandoverState

\* The revisions shown are those of the messages that are there.
LEMMA ShownSame ==
    ASSUME NEW d \in DraftIds \ touched', Inherits(d), ~Expunge
    PROVE  ShownRevisions(d)' = ShownRevisions(d)
<1>1. d \notin touched
  BY DEF Inherits
<1>2. \A u \in CopiesOf(d)' : \E w \in CopiesOf(d) : box'[u].rev = box[w].rev
  BY DEF Inherits
<1>3. \A w \in CopiesOf(d) : \E u \in CopiesOf(d)' : box'[u].rev = box[w].rev
  BY DEF Inherits
<1>4. {box'[u].rev : u \in CopiesOf(d)'} = {box[u].rev : u \in CopiesOf(d)}
  BY <1>2, <1>3
<1> QED
  BY <1>1, <1>4 DEF ShownRevisions

\* A row of the same revision, closed or open as before, looks the same.
LEMMA RowSame ==
    ASSUME NEW d \in DraftIds \ touched', d \notin touched,
           drafts'[d].revision = drafts[d].revision, Present(d) <=> Present(d)',
           drafts'[d].status \in Terminal <=> drafts[d].status \in Terminal
    PROVE  RecordedRevision(d)' = RecordedRevision(d) /\ HandoverState(d)' = HandoverState(d)
BY DEF RecordedRevision, HandoverState

\* A draft whose messages and whose row a step leaves as they are.
LEMMA ViewSame ==
    ASSUME FolderTypeOK, GatewayOK, UidInv, [SyncNext]_vars, NEW d \in DraftIds,
           drafts'[d] = drafts[d], ~Expunge, d \in touched' => d \in touched,
           ~((AppendCreated \/ AppendUpdated) /\ d = job.draft)
    PROVE  SameView(d)
<1>1. CASE d \in touched'
  BY <1>1, LostStays
<1>2. CASE d \notin touched'
  <2>1. Inherits(d)
    BY <1>2, CopiesInherited
  <2>2. d \notin touched
    BY <2>1 DEF Inherits
  <2>3. Present(d) <=> Present(d)'
    BY DEF Present
  <2> QED
    BY <1>2, <2>1, <2>2, <2>3, ShownSame, RowSame DEF SameView
<1> QED
  BY <1>1, <1>2

\* What is shown after an APPEND of the draft's job.
LEMMA ShownAppended ==
    ASSUME FolderTypeOK, UidInv, GatewayOK, AppendCreated \/ AppendUpdated, NEW d \in DraftIds \ touched, d = job.draft
    PROVE  /\ ShownRevisions(d)' = ShownRevisions(d) \cup {job.rev}
           /\ RecordedRevision(d)' = RecordedRevision(d) /\ HandoverState(d)' = HandoverState(d)
<1>1. /\ CopiesOf(d)' = CopiesOf(d) \cup {uidNext}
      /\ \A u \in CopiesOf(d) : box'[u] = box[u]
      /\ box'[uidNext].rev = job.rev /\ touched' = touched
  BY CopiesAppended DEF UidInv
<1>2. drafts' = drafts
  BY MessagesOrRows
<1>3. {box'[u].rev : u \in CopiesOf(d)'} = {box[u].rev : u \in CopiesOf(d)} \cup {job.rev}
  BY <1>1
<1>4. Present(d) <=> Present(d)'
  BY <1>2 DEF Present
<1> QED
  BY <1>1, <1>2, <1>3, <1>4, RowSame DEF ShownRevisions

\* No other draft sees an APPEND.
LEMMA OthersAtAppend ==
    ASSUME FolderTypeOK, GatewayOK, UidInv, [SyncNext]_vars, AppendCreated \/ AppendUpdated, NEW d, d = job.draft
    PROVE  OthersAsBefore(d)
<1>1. drafts' = drafts /\ touched' = touched
  BY MessagesOrRows DEF AppendCreated, AppendUpdated, AppendRevision, AppendMessage
<1>2. ~Expunge
  BY DEF AppendCreated, AppendUpdated, Expunge, At
<1> SUFFICES ASSUME NEW e \in DraftIds \ {d} PROVE SameView(e)
  BY DEF OthersAsBefore
<1> QED
  BY <1>1, <1>2, ViewSame

\* The first message of a draft is put where there is none.
LEMMA AppendCreatedHands ==
    ASSUME StoreTypeOK, FolderTypeOK, GatewayOK, JobInv, UidInv, RevisionsInv, [SyncNext]_vars, AppendCreated
    PROVE  [Handover!Next]_(Handover!handoverVars)
<1>1. phase = "look" /\ job.op = CreateOp
  BY JobPhases DEF AppendCreated, At
<1>2. PICK d \in DraftIds : d = job.draft
  BY <1>1, JobKinds DEF GatewayOK
<1>3. OthersAsBefore(d)
  BY <1>2, OthersAtAppend
<1>4. CASE d \in touched
  <2>1. SameView(d)
    BY <1>4, LostStays, TouchedGrows
  <2> QED
    BY <1>3, <2>1, HandoverStutters DEF OthersAsBefore
<1>5. CASE d \notin touched
  <2>1. CopiesOf(d) = {}
    BY <1>1, <1>2, <1>5 DEF RevisionsInv, FreshCopies
  <2>2. job.rev = 1 /\ drafts[d].revision = 1 /\ drafts[d].status = "staged"
    BY <1>1, <1>2, JobKinds DEF GatewayOK, JobInv, JobAgrees, Record
  <2>3. Present(d)
    BY <2>2 DEF Present, NoDraft
  <2>4. HandoverState(d) = "open" /\ RecordedRevision(d) = 1 /\ ShownRevisions(d) = {}
    BY <1>5, <2>1, <2>2, <2>3 DEF HandoverState, RecordedRevision, ShownRevisions, Terminal
  <2>5. /\ ShownRevisions(d)' = {1}
        /\ RecordedRevision(d)' = RecordedRevision(d) /\ HandoverState(d)' = HandoverState(d)
    BY <1>2, <1>5, <2>2, <2>4, ShownAppended
  <2> QED
    BY <1>3, <2>4, <2>5, HandoverPublishFirst
<1> QED
  BY <1>4, <1>5

\* The next revision is put beside the recorded one, and beside nothing else.
LEMMA AppendUpdatedHands ==
    ASSUME StoreTypeOK, FolderTypeOK, GatewayOK, JobInv, UidInv, CopiesInv, RevisionsInv, Undisturbed,
           [SyncNext]_vars, AppendUpdated
    PROVE  [Handover!Next]_(Handover!handoverVars)
<1>1. At("verify", "append") /\ job.op = UpdateOp
  BY JobPhases DEF AppendUpdated, At
<1>2. PICK d \in DraftIds : d = job.draft
  BY <1>1, JobKinds DEF GatewayOK
<1>3. OthersAsBefore(d)
  BY <1>2, OthersAtAppend
<1>4. CASE d \in touched
  <2>1. SameView(d)
    BY <1>4, LostStays, TouchedGrows
  <2> QED
    BY <1>3, <2>1, HandoverStutters DEF OthersAsBefore
<1>5. CASE d \notin touched
  <2>1. job.rev = drafts[d].revision + 1 /\ drafts[d].status = "synced_to_gmx"
    BY <1>1, <1>2 DEF JobInv, JobAgrees, Record, At, ConflictPhases
  <2>2. Present(d)
    BY <2>1 DEF Present, NoDraft
  <2>3. \A u \in CopiesOf(d) : box[u].rev # job.rev
    BY <1>1, <1>2, <1>5 DEF RevisionsInv, JobRevisions, Shows
  <2>4. \A u \in CopiesOf(d) : box[u].rev = drafts[d].revision
    BY <1>5, <2>1, <2>3 DEF RevisionsInv, RevisionsAgree, Tracked
  <2>5. CopiesOf(d) # {}
    BY <1>5, <2>1 DEF JobInv, UidsAgree, CopiesInv, CopiesKept
  <2>6. {box[u].rev : u \in CopiesOf(d)} = {drafts[d].revision}
    BY <2>4, <2>5
  <2>7. /\ HandoverState(d) = "open" /\ RecordedRevision(d) = drafts[d].revision
        /\ ShownRevisions(d) = {drafts[d].revision}
    BY <1>5, <2>1, <2>2, <2>6 DEF HandoverState, RecordedRevision, ShownRevisions, Terminal
  <2>8. /\ ShownRevisions(d)' = {RecordedRevision(d), RecordedRevision(d) + 1}
        /\ RecordedRevision(d)' = RecordedRevision(d) /\ HandoverState(d)' = HandoverState(d)
    BY <1>2, <1>5, <2>1, <2>7, ShownAppended
  <2> QED
    BY <1>3, <2>7, <2>8, HandoverPublishNext
<1> QED
  BY <1>4, <1>5

\* EXPUNGE takes the recorded revision of the drafts whose handover has come so far,
\* and leaves the next one.
LEMMA ExpungeHands ==
    ASSUME StoreTypeOK, FolderTypeOK, GatewayOK, UidInv, CopiesInv, RevisionsInv, Undisturbed, Expunge
    PROVE  Handover!Next
<1> DEFINE gone == {d \in DraftIds \ touched : \E u \in CopiesOf(d) : box[u].deleted}
<1>1. ExpungeDeleted /\ drafts' = drafts /\ touched' = touched
  BY MessagesOrRows DEF Expunge, ExpungeDeleted
<1>2. ASSUME NEW d \in DraftIds
      PROVE  /\ d \in touched => SameView(d)
             /\ CopiesOf(d)' = {u \in CopiesOf(d) : ~box[u].deleted}
             /\ \A u \in CopiesOf(d)' : box'[u] = box[u]
  BY <1>1, CopiesExpunged, LostStays
<1>3. ASSUME NEW d \in DraftIds
      PROVE  HandoverState(d)' = HandoverState(d) /\ RecordedRevision(d)' = RecordedRevision(d)
  <2>1. Present(d) <=> Present(d)'
    BY <1>1 DEF Present
  <2> QED
    BY <1>1, <1>2, <2>1, RowSame DEF SameView
<1>4. ASSUME NEW d \in DraftIds \ gone
      PROVE  ShownRevisions(d)' = ShownRevisions(d)
  <2>1. CASE d \in touched
    BY <1>2, <2>1 DEF SameView
  <2>2. CASE d \notin touched
    <3>1. CopiesOf(d)' = CopiesOf(d) /\ \A u \in CopiesOf(d)' : box'[u] = box[u]
      BY <1>2, <2>2
    <3>2. {box'[u].rev : u \in CopiesOf(d)'} = {box[u].rev : u \in CopiesOf(d)}
      BY <3>1
    <3> QED
      BY <1>1, <2>2, <3>2 DEF ShownRevisions
  <2> QED
    BY <2>1, <2>2
<1>5. ASSUME NEW d \in gone
      PROVE  /\ HandoverState(d) \in {"open", "closed"}
             /\ ShownRevisions(d) = {RecordedRevision(d), RecordedRevision(d) + 1}
             /\ ShownRevisions(d)' = {RecordedRevision(d) + 1}
  <2>0. d \in DraftIds \ touched
    OBVIOUS
  <2>1. PICK u \in CopiesOf(d) : box[u].deleted
    OBVIOUS
  <2>2. PICK w \in CopiesOf(d) : ~box[w].deleted
    BY <2>0, <2>1 DEF CopiesInv, CopiesKept
  <2>3. Tracked(d)
    BY <2>0 DEF RevisionsInv, RevisionsAgree
  <2>4. box[u].rev \in Nat /\ drafts[d].revision \in Nat
    BY <2>0, RevisionNumbers
  <2>5. box[u].rev = drafts[d].revision
    BY <2>0, <2>1, <2>3, <2>4 DEF CopiesInv, CopiesKept, Tracked
  <2>6. box[w].rev = drafts[d].revision + 1
    BY <2>1, <2>2, <2>3, <2>5 DEF Tracked
  <2>7. \A x \in CopiesOf(d) : x \in {u, w}
    BY <2>3, <2>5, <2>6 DEF Tracked
  <2>8. CopiesOf(d)' = {w} /\ box'[w] = box[w]
    BY <1>2, <2>0, <2>1, <2>2, <2>7
  <2>9. {box[x].rev : x \in CopiesOf(d)} = {drafts[d].revision, drafts[d].revision + 1}
    BY <2>5, <2>6, <2>7
  <2>10. {box'[x].rev : x \in CopiesOf(d)'} = {drafts[d].revision + 1}
    BY <2>6, <2>8
  <2>11. Present(d)
    BY <2>0, <2>1, NoRowNoCopy DEF UidInv
  <2> QED
    BY <1>1, <2>0, <2>9, <2>10, <2>11 DEF ShownRevisions, RecordedRevision, HandoverState
<1>6. gone \in SUBSET DraftIds
  OBVIOUS
<1> QED
  BY <1>3, <1>4, <1>5, <1>6, HandoverRetire

\* Steps of the store take nothing out of the folder and put nothing into it.
LEMMA ShownAtRows ==
    ASSUME FolderTypeOK, GatewayOK, UidInv, [SyncNext]_vars, UNCHANGED folderVars, NEW d \in DraftIds \ touched
    PROVE  ShownRevisions(d)' = ShownRevisions(d)
BY DEF folderVars, ShownRevisions, CopiesOf, Live

\* A draft whose row a step of the store leaves as it is.
LEMMA ViewAtRows ==
    ASSUME UNCHANGED folderVars, NEW d \in DraftIds, drafts'[d] = drafts[d]
    PROVE  SameView(d)
BY DEF folderVars, SameView, ShownRevisions, RecordedRevision, HandoverState, CopiesOf, Live, Present

\* The new revision is recorded when it is the only one left.
LEMMA RecordUpdatedHands ==
    ASSUME StoreTypeOK, FolderTypeOK, GatewayOK, JobInv, UidInv, CopiesInv, RevisionsInv, Undisturbed,
           [SyncNext]_vars, RecordUpdated
    PROVE  [Handover!Next]_(Handover!handoverVars)
<1>1. At("record", "update") /\ UNCHANGED folderVars
  BY DEF RecordUpdated
<1>2. /\ job.op = UpdateOp /\ job.draft \in DraftIds
      /\ drafts'[job.draft] = [status |-> "synced_to_gmx", revision |-> job.rev, hash |-> job.hash,
                               uid |-> newUid, uidvalidity |-> sel]
      /\ \A e \in DraftIds \ {job.draft} : drafts'[e] = drafts[e]
      /\ \A d \in DraftIds : d = job.draft => Present(d) /\ Present(d)'
  BY JobUpdateRow
<1>3. PICK d \in DraftIds : d = job.draft
  BY <1>2
<1>4. OthersAsBefore(d)
  BY <1>1, <1>2, <1>3, ViewAtRows DEF OthersAsBefore
<1>5. CASE d \in touched
  <2>1. SameView(d)
    BY <1>5, LostStays, TouchedGrows
  <2> QED
    BY <1>4, <2>1, HandoverStutters DEF OthersAsBefore
<1>6. CASE d \notin touched
  <2>1. job.rev = drafts[d].revision + 1 /\ drafts[d].status = "synced_to_gmx"
    BY <1>1, <1>2, <1>3 DEF JobInv, JobAgrees, Record, At, ConflictPhases
  <2>2. \A u \in CopiesOf(d) : box[u].rev # drafts[d].revision
    BY <1>1, <1>2, <1>3, <1>6 DEF RevisionsInv, JobRevisions, Shows, Record, At
  <2>3. \A u \in CopiesOf(d) : box[u].rev = drafts[d].revision + 1
    BY <1>6, <2>2 DEF RevisionsInv, RevisionsAgree, Tracked
  <2>4. CopiesOf(d) # {}
    BY <1>6, <2>1 DEF JobInv, UidsAgree, CopiesInv, CopiesKept
  <2>5. {box[u].rev : u \in CopiesOf(d)} = {drafts[d].revision + 1}
    BY <2>3, <2>4
  <2>6. touched' = touched /\ ShownRevisions(d)' = ShownRevisions(d)
    BY <1>1, <1>6, ShownAtRows DEF folderVars
  <2>7. /\ HandoverState(d) = "open" /\ RecordedRevision(d) = drafts[d].revision
        /\ ShownRevisions(d) = {drafts[d].revision + 1}
    BY <1>2, <1>3, <1>6, <2>1, <2>5 DEF HandoverState, RecordedRevision, ShownRevisions, Terminal
  <2>8. HandoverState(d)' = "open" /\ RecordedRevision(d)' = drafts[d].revision + 1
    BY <1>2, <1>3, <1>6, <2>1, <2>6 DEF HandoverState, RecordedRevision, Terminal
  <2> QED
    BY <1>4, <2>6, <2>7, <2>8, HandoverRecordNext
<1> QED
  BY <1>5, <1>6

\* A creation registers a draft there was nothing of.
LEMMA CreateHands ==
    ASSUME StoreTypeOK, FolderTypeOK, GatewayOK, UidInv, [SyncNext]_vars, StartsCreate
    PROVE  Handover!Next
<1>1. PICK k \in Keys, d \in DraftIds, h \in Hashes : BeginCreate(k, d, h)
  BY DEF StartsCreate
<1>2. UNCHANGED folderVars
  BY <1>1 DEF BeginCreate
<1>3. /\ drafts'[d] = [status |-> "new", revision |-> 1, hash |-> h, uid |-> 0, uidvalidity |-> 0]
      /\ \A e \in DraftIds \ {d} : drafts'[e] = drafts[e]
      /\ ~Present(d) /\ Present(d)'
  BY <1>1, NewRow
<1>4. OthersAsBefore(d)
  BY <1>2, <1>3, ViewAtRows DEF OthersAsBefore
<1>5. d \notin touched /\ touched' = touched
  BY <1>2, <1>3 DEF UidInv, FolderAgrees, folderVars
<1>6. ShownRevisions(d)' = ShownRevisions(d)
  BY <1>2, <1>5, ShownAtRows
<1>7. HandoverState(d) = "none" /\ HandoverState(d)' = "open" /\ RecordedRevision(d)' = 1
  <2>1. HandoverState(d) = "none"
    BY <1>3, <1>5 DEF HandoverState, Present, NoDraft, Terminal
  <2>2. drafts'[d].status \notin Terminal /\ drafts'[d].revision = 1
    BY <1>3 DEF Terminal
  <2> QED
    BY <1>3, <1>5, <2>1, <2>2 DEF HandoverState, RecordedRevision
<1> QED
  BY <1>4, <1>6, <1>7, HandoverRegister

\* A row that keeps its revision stays as it is, or closes for good.
LEMMA ClosingHands ==
    ASSUME StoreTypeOK, FolderTypeOK, GatewayOK, UidInv, [SyncNext]_vars, UNCHANGED folderVars,
           NEW d \in DraftIds, \A e \in DraftIds \ {d} : drafts'[e] = drafts[e],
           drafts'[d].revision = drafts[d].revision, Present(d) <=> Present(d)',
           \/ drafts'[d].status = drafts[d].status
           \/ CanTransition(drafts[d].status, drafts'[d].status)
    PROVE  [Handover!Next]_(Handover!handoverVars)
<1>1. OthersAsBefore(d)
  BY ViewAtRows DEF OthersAsBefore
<1>2. touched' = touched
  BY DEF folderVars
<1>3. CASE d \in touched
  <2>1. SameView(d)
    BY <1>2, <1>3, LostStays
  <2> QED
    BY <1>1, <2>1, HandoverStutters DEF OthersAsBefore
<1>4. CASE d \notin touched /\ (drafts'[d].status \in Terminal <=> drafts[d].status \in Terminal)
  <2>1. SameView(d)
    BY <1>2, <1>4, ShownAtRows, RowSame DEF SameView
  <2> QED
    BY <1>1, <2>1, HandoverStutters DEF OthersAsBefore
<1>5. CASE d \notin touched /\ ~(drafts'[d].status \in Terminal <=> drafts[d].status \in Terminal)
  <2>1. CanTransition(drafts[d].status, drafts'[d].status)
    BY <1>5
  <2>2. drafts[d].status \notin Terminal /\ drafts'[d].status \in Terminal
    BY <1>5, <2>1 DEF CanTransition, Terminal
  <2>3. Present(d)
    BY <2>1 DEF CanTransition, Present, NoDraft
  <2>4. HandoverState(d) = "open" /\ HandoverState(d)' = "closed" /\ RecordedRevision(d)' = RecordedRevision(d)
    BY <1>2, <1>5, <2>2, <2>3 DEF HandoverState, RecordedRevision
  <2>5. ShownRevisions(d)' = ShownRevisions(d)
    BY <1>5, ShownAtRows
  <2> QED
    BY <1>1, <2>4, <2>5, HandoverClose
<1> QED
  BY <1>3, <1>4, <1>5

\* A step of the store that is neither a new draft nor a new revision touches at most
\* one row, and of that the status, along the automaton, and where the message is.
LEMMA OneRow ==
    ASSUME StoreTypeOK, GatewayOK, [SyncNext]_vars, ~StartsCreate, ~RecordUpdated
    PROVE  \/ \A e \in DraftIds : drafts'[e] = drafts[e]
           \/ \E d \in DraftIds : SameContent(d) /\ \A e \in DraftIds \ {d} : drafts'[e] = drafts[e]
<1>1. CASE Stage \/ CreateConflict \/ RecordCreated \/ RecordConflict \/ SummaryRefused \/ SummaryStatus \/ FailJob
  BY <1>1, JobStatusRows
<1>2. CASE TrackCreated \/ SummaryTracking
  BY <1>2, JobTrackingRows
<1>3. CASE \E d \in DraftIds : BootFail(d)
  <2>1. PICK d \in DraftIds : FailListed(d)
    BY <1>3 DEF BootFail
  <2>2. \A e \in DraftIds \ {d} : drafts'[e] = drafts[e]
    BY <2>1, FailedRow
  <2>3. ~TrackCreated /\ ~SummaryTracking
    BY <1>3 DEF BootFail, TrackCreated, SummaryTracking, At
  <2>4. SameContent(d)
    BY <2>3, OtherRows
  <2> QED
    BY <2>2, <2>4
<1>4. CASE Request \/ Lookup
  BY <1>4 DEF StartsCreate, Request, BeginUpdate, BeginSummary, Lookup, Select, Search, Fetch, storeVars
<1>5. CASE LookClear \/ AppendCreated \/ ConfirmCreated \/ Unusable \/ Fail
  BY <1>5 DEF LookClear, AppendCreated, AppendRevision, ConfirmCreated, Unusable, Fail, storeVars
<1>6. CASE UpdateStep /\ ~RecordConflict
  BY <1>6 DEF UpdateStep, Conflict, InspectInSync, VerifyPrevious, AppendUpdated, AppendRevision,
     ReplaceFound, ReplaceConflict, MarkDeleted, Expunge, SelectFinal, FinalFound, FinalConflict,
     BindConflict, BindIdempotency, storeVars
<1>7. CASE Crash \/ Boot \/ Serve \/ OtherClient \/ ServerRenumbers \/ UNCHANGED vars
  BY <1>7 DEF Crash, AbandonSweep, Boot, ListIncomplete, Serve, OtherClient, ServerRenumbers, vars, storeVars
<1> QED
  BY <1>1, <1>2, <1>3, <1>4, <1>5, <1>6, <1>7 DEF SyncNext, JobStep, CreateStep, SummaryStep, BootStep

\* The other client touches one draft at a time.
LEMMA TouchesOne ==
    ASSUME ExternalStep
    PROVE  \E x : touched' = touched \cup ({x} \ {None})
<1>1. CASE ExternalDraft
  BY <1>1 DEF ExternalDraft
<1>2. CASE ~ExternalDraft
  <2>1. PICK u \in Uids : Touch(u)
    BY <1>2 DEF ExternalStep, ExternalEdit, ExternalCopy, ExternalFlag, ExternalRemove
  <2> QED
    BY <2>1 DEF Touch
<1> QED
  BY <1>1, <1>2

\* A draft someone else touches for the first time is lost; the others do not see it.
LEMMA OtherClientHands ==
    ASSUME FolderTypeOK, FolderTypeOK', GatewayOK, UidInv, [SyncNext]_vars, OtherClient
    PROVE  [Handover!Next]_(Handover!handoverVars)
<1>1. drafts' = drafts /\ touched \subseteq touched'
  BY MessagesOrRows, TouchedGrows
<1>2. ~Expunge /\ ~AppendCreated /\ ~AppendUpdated
  BY DEF OtherClient, gatewayVars, Expunge, AppendCreated, AppendUpdated, AppendRevision, At, GoTo
<1>3. PICK x : touched' = touched \cup ({x} \ {None})
  BY TouchesOne DEF OtherClient
<1>4. ASSUME NEW e \in DraftIds, e \in touched' => e \in touched
      PROVE  SameView(e)
  BY <1>1, <1>2, <1>4, ViewSame
<1>5. CASE touched' = touched
  BY <1>4, <1>5, HandoverStutters
<1>6. CASE touched' # touched
  <2>1. x \in touched' /\ x \notin touched
    BY <1>3, <1>6
  <2>2. x \in DraftIds
    BY <2>1 DEF FolderTypeOK
  <2>3. OthersAsBefore(x)
    BY <1>3, <1>4 DEF OthersAsBefore
  <2>4. ~Present(x) => CopiesOf(x) = {}
    BY <2>2, NoRowNoCopy DEF UidInv
  <2>5. Present(x)
    BY <2>1, <2>2, <2>4, ExternalTold DEF UidInv, OtherClient, ExternalEffect, CopiesOf
  <2>6. HandoverState(x) \in {"open", "closed"}
    BY <2>1, <2>5 DEF HandoverState
  <2>7. HandoverState(x)' = "lost" /\ RecordedRevision(x)' = 0 /\ ShownRevisions(x)' = {}
    BY <2>1 DEF HandoverState, RecordedRevision, ShownRevisions
  <2> QED
    BY <2>2, <2>3, <2>6, <2>7, HandoverLose
<1> QED
  BY <1>5, <1>6

\* Neither the mark on the old revision nor a new numbering changes what is shown.
LEMMA QuietHands ==
    ASSUME FolderTypeOK, GatewayOK, UidInv, [SyncNext]_vars, MarkDeleted \/ ServerRenumbers
    PROVE  UNCHANGED Handover!handoverVars
<1>1. drafts' = drafts /\ touched' = touched
  BY MessagesOrRows DEF MarkDeleted, FlagDeleted, ServerRenumbers, Renumber
<1>2. ~Expunge /\ ~AppendCreated /\ ~AppendUpdated
  BY DEF MarkDeleted, ServerRenumbers, gatewayVars, Expunge, AppendCreated, AppendUpdated, AppendRevision, At, GoTo
<1>3. \A d \in DraftIds : SameView(d)
  BY <1>1, <1>2, ViewSame
<1> QED
  BY <1>3, HandoverStutters

\* Every step is one of RevisionHandover, or none of its business.
LEMMA HandoverStep ==
    ASSUME StoreTypeOK, FolderTypeOK, FolderTypeOK', GatewayOK, JobInv, UidInv, CopiesInv, RevisionsInv,
           Undisturbed, [SyncNext]_vars
    PROVE  [Handover!Next]_(Handover!handoverVars)
<1>1. CASE UNCHANGED folderVars /\ ~StartsCreate /\ ~RecordUpdated
  <2>1. CASE \A e \in DraftIds : drafts'[e] = drafts[e]
    BY <1>1, <2>1, ViewAtRows, HandoverStutters
  <2>2. ASSUME NEW d \in DraftIds, SameContent(d), \A e \in DraftIds \ {d} : drafts'[e] = drafts[e]
        PROVE  [Handover!Next]_(Handover!handoverVars)
    BY <1>1, <2>2, ClosingHands DEF SameContent
  <2> QED
    BY <1>1, <2>1, <2>2, OneRow
<1>2. CASE StartsCreate
  BY <1>2, CreateHands
<1>3. CASE RecordUpdated
  BY <1>3, RecordUpdatedHands
<1>4. CASE AppendCreated \/ AppendUpdated
  BY <1>4, AppendCreatedHands, AppendUpdatedHands
<1>5. CASE Expunge
  BY <1>5, ExpungeHands
<1>6. CASE OtherClient
  BY <1>6, OtherClientHands
<1>7. CASE MarkDeleted \/ ServerRenumbers
  BY <1>7, QuietHands
<1> QED
  BY <1>1, <1>2, <1>3, <1>4, <1>5, <1>6, <1>7, FolderSteps

\* As long as no crash and no refused FETCH come together, the gateway hands every
\* draft over from one revision to the next as RevisionHandover asks for.
THEOREM SyncHandsOver == SyncSpec /\ []Undisturbed => HandoverSpec
<1>1. SyncInit => Handover!Init
  <2> SUFFICES ASSUME SyncInit, NEW d \in DraftIds
               PROVE  ShownRevisions(d) = {} /\ RecordedRevision(d) = 0 /\ HandoverState(d) = "none"
    BY DEF Handover!Init
  <2>1. drafts[d] = NoDraft /\ touched = {} /\ CopiesOf(d) = {}
    BY DEF SyncInit, StoreInit, FolderInit, CopiesOf, Live
  <2> QED
    BY <2>1 DEF ShownRevisions, RecordedRevision, HandoverState, Present, NoDraft, Terminal
<1>2. /\ SyncTypeInv /\ SyncTypeInv' /\ JobInv /\ UidInv /\ CopiesInv /\ RevisionsInv /\ Undisturbed
      /\ [SyncNext]_vars
      => [Handover!Next]_(Handover!handoverVars)
  BY HandoverStep DEF SyncTypeInv, SyncTypeOK, GatewayOK
<1> QED
  BY <1>1, <1>2, SyncTypes, JobAlwaysAgrees, UidsAlwaysName, CopiesAlwaysKept, RevisionsAlwaysAgree, PTL
     DEF SyncSpec, HandoverSpec, Handover!Spec

\* So it does wherever one of the two cannot happen, as in the run progress.
THEOREM SyncHandsOverFaultless ==
    ASSUME MaxCrash = 0 \/ MaxRefused = 0
    PROVE  SyncSpec => HandoverSpec
<1>1. SyncTypeInv => Undisturbed
  BY SyncAssumption DEF SyncTypeInv, SyncTypeOK, HistoryTypeOK, Undisturbed
<1> QED
  BY <1>1, SyncTypes, SyncHandsOver, PTL
=============================================================================
