--------------------------- MODULE DraftSyncProofs ---------------------------
(***************************************************************************)
(* Proofs about DraftSync, for any number of drafts, keys, revisions, UIDs *)
(* and numberings, crashes, refused answers and steps of the other client: *)
(* the types, that the store is only ever changed by its own operations    *)
(* (so that every theorem of DraftStoreProofs holds of the whole gateway), *)
(* that no request is served beside a draft that is still new or staged,   *)
(* and that a key never sends a second message.                            *)
(***************************************************************************)
EXTENDS DraftSync, DraftStoreProofs, FiniteSetTheorems

-----------------------------------------------------------------------------
(* Control *)

\* Which jobs a phase works on.
ControlOK ==
    /\ phase \in {"stage", "look", "confirm"} => job \in CreateJob
    /\ phase \in {"inspect", "verify", "replace", "remove", "final",
                  "conflict_modified", "conflict_duplicate"} => job \in UpdateJob
    /\ phase = "summary" => job \in SummaryJob
    /\ phase = "record" =>
          \/ step \in {"tracking", "status"} /\ job \in CreateJob
          \/ step = "update" /\ job \in UpdateJob
    /\ phase = "failing" => job \in Job

\* The job, the phase and the results of the lookup stay in their sets, and a
\* phase is entered only with a job it is made for.
GatewayOK == GatewayTypeOK /\ ControlOK

\* A request starts its job in the phase made for it.
LEMMA RequestControl ==
    ASSUME StoreTypeOK, GatewayOK, Request
    PROVE  GatewayOK'
<1> USE DEF GatewayOK, GatewayTypeOK, ControlOK, GoTo, lookupVars, Phases, Lookups, Steps
<1>1. CASE \E k \in Keys, d \in DraftIds, h \in Hashes : BeginCreate(k, d, h)
  <2>1. PICK k \in Keys, d \in DraftIds, h \in Hashes : BeginCreate(k, d, h)
    BY <1>1
  <2>2. job' \in CreateJob
    BY <2>1 DEF BeginCreate, CreateJob
  <2> QED
    BY <2>1, <2>2 DEF BeginCreate, Job
<1>2. CASE \E k \in Keys, d \in DraftIds, h \in Hashes : BeginUpdate(k, d, h)
  <2>1. PICK k \in Keys, d \in DraftIds, h \in Hashes : BeginUpdate(k, d, h)
    BY <1>2
  <2>2. drafts[d] \in DraftRecord
    BY <2>1 DEF BeginUpdate, StoreTypeOK, NoDraft
  <2>3. drafts[d].revision + 1 \in Revisions
    BY <2>1, <2>2, DataAssumption DEF BeginUpdate, DraftRecord, Revisions
  <2>4. job' \in UpdateJob
    BY <2>1, <2>3 DEF BeginUpdate, UpdateJob
  <2> QED
    BY <2>1, <2>4 DEF BeginUpdate, Job
<1>3. CASE \E d \in DraftIds : BeginSummary(d)
  <2>1. PICK d \in DraftIds : BeginSummary(d)
    BY <1>3
  <2>2. job' \in SummaryJob
    BY <2>1 DEF BeginSummary, SummaryJob
  <2> QED
    BY <2>1, <2>2 DEF BeginSummary, Job
<1> QED
  BY <1>1, <1>2, <1>3 DEF Request

\* The commands of a lookup keep the phase and the job.
LEMMA LookupControl ==
    ASSUME FolderTypeOK, GatewayOK, Lookup
    PROVE  GatewayOK'
<1> USE DEF GatewayOK, GatewayTypeOK, ControlOK, Phases, Lookups, Steps
<1>1. CASE Select
  BY <1>1 DEF Select, FolderTypeOK
<1>2. CASE Search
  BY <1>2 DEF Search, CopiesOf
<1>3. CASE \E u \in Uids : Fetch(u)
  <2>1. PICK u \in Uids : Fetch(u)
    BY <1>3
  <2>2. Live(u) => [uid |-> u, rev |-> box[u].rev, hash |-> box[u].hash] \in ServerDraft
    BY DEF Live, FolderTypeOK, Message, ServerDraft
  <2>3. found' \in SUBSET ServerDraft
    BY <2>1, <2>2 DEF Fetch
  <2> QED
    BY <2>1, <2>3 DEF Fetch
<1> QED
  BY <1>1, <1>2, <1>3 DEF Lookup

\* A job that is over leaves nothing behind.
LEMMA FinishControl ==
    ASSUME Finish
    PROVE  GatewayOK'
BY DEF Finish, GoTo, GatewayOK, GatewayTypeOK, ControlOK, Phases, Lookups, Steps

\* The steps of a creation.
LEMMA CreateControl ==
    ASSUME GatewayOK, CreateStep
    PROVE  GatewayOK'
<1> USE DEF GatewayOK, GatewayTypeOK, ControlOK, GoTo, At, Seen, lookupVars, Phases, Lookups, Steps, Job
<1>1. CASE Stage
  BY <1>1 DEF Stage
<1>2. CASE LookClear
  BY <1>2 DEF LookClear
<1>3. CASE AppendCreated
  BY <1>3 DEF AppendCreated, AppendRevision
<1>4. CASE CreateConflict
  BY <1>4, FinishControl DEF CreateConflict
<1>5. CASE ConfirmCreated
  BY <1>5 DEF ConfirmCreated, ServerDraft
<1>6. CASE TrackCreated
  <2>1. job \in CreateJob
    BY <1>6 DEF TrackCreated
  <2> QED
    BY <1>6, <2>1 DEF TrackCreated
<1>7. CASE RecordCreated
  BY <1>7, FinishControl DEF RecordCreated
<1> QED
  BY <1>1, <1>2, <1>3, <1>4, <1>5, <1>6, <1>7 DEF CreateStep

\* The steps of an update.
LEMMA UpdateControl ==
    ASSUME FolderTypeOK, GatewayOK, UpdateStep
    PROVE  GatewayOK'
<1> USE DEF GatewayOK, GatewayTypeOK, ControlOK, GoTo, At, Seen, lookupVars, Phases, Lookups, Steps, Job
<1>1. CASE Conflict
  BY <1>1 DEF Conflict
<1>2. CASE InspectInSync
  BY <1>2 DEF InspectInSync, InSync
<1>3. CASE VerifyPrevious
  BY <1>3 DEF VerifyPrevious, ServerDraft
<1>4. CASE AppendUpdated
  BY <1>4 DEF AppendUpdated, AppendRevision
<1>5. CASE ReplaceFound
  BY <1>5 DEF ReplaceFound, ServerDraft
<1>6. CASE ReplaceConflict
  BY <1>6 DEF ReplaceConflict
<1>7. CASE MarkDeleted
  BY <1>7 DEF MarkDeleted
<1>8. CASE Expunge
  BY <1>8 DEF Expunge
<1>9. CASE SelectFinal
  BY <1>9 DEF SelectFinal, FolderTypeOK
<1>10. CASE FinalFound
  BY <1>10 DEF FinalFound, ServerDraft
<1>11. CASE FinalConflict
  BY <1>11 DEF FinalConflict
<1>12. CASE RecordUpdated
  BY <1>12, FinishControl DEF RecordUpdated
<1>13. CASE RecordConflict
  BY <1>13 DEF RecordConflict, ConflictPhase
<1>14. CASE BindConflict
  BY <1>14, FinishControl DEF BindConflict
<1> QED
  BY <1>1, <1>2, <1>3, <1>4, <1>5, <1>6, <1>7, <1>8, <1>9, <1>10, <1>11, <1>12, <1>13, <1>14
     DEF UpdateStep

\* Summaries, failures, crashes, the start, and the steps outside the gateway.
LEMMA OtherControl ==
    ASSUME GatewayOK,
           \/ SummaryStep \/ Unusable \/ Fail \/ FailJob \/ Crash \/ BootStep
           \/ UNCHANGED gatewayVars
    PROVE  GatewayOK'
<1> USE DEF GatewayOK, GatewayTypeOK, ControlOK, GoTo, At, Seen, lookupVars, gatewayVars, Phases, Lookups, Steps, Job
<1>1. CASE SummaryRefused
  BY <1>1, FinishControl DEF SummaryRefused
<1>2. CASE SummaryStatus
  BY <1>2 DEF SummaryStatus, ServerDraft
<1>3. CASE SummaryTracking
  BY <1>3, FinishControl DEF SummaryTracking
<1>4. CASE Unusable
  BY <1>4 DEF Unusable
<1>5. CASE Fail
  BY <1>5 DEF Fail, InSync
<1>6. CASE FailJob
  BY <1>6, FinishControl DEF FailJob
<1>7. CASE Crash
  BY <1>7 DEF Crash
<1>8. CASE Boot
  BY <1>8 DEF Boot
<1>9. CASE \E d \in DraftIds : BootFail(d)
  BY <1>9 DEF BootFail
<1>10. CASE Serve
  BY <1>10 DEF Serve
<1>11. CASE UNCHANGED gatewayVars
  BY <1>11
<1> QED
  BY <1>1, <1>2, <1>3, <1>4, <1>5, <1>6, <1>7, <1>8, <1>9, <1>10, <1>11 DEF SummaryStep, BootStep

\* Together: every step keeps the control state in its sets.
LEMMA GatewayStep ==
    ASSUME StoreTypeOK, FolderTypeOK, GatewayOK, [SyncNext]_vars
    PROVE  GatewayOK'
BY RequestControl, LookupControl, CreateControl, UpdateControl, OtherControl
   DEF SyncNext, JobStep, OtherClient, ServerRenumbers, vars

-----------------------------------------------------------------------------
(* The folder *)

\* The message a job appends is a message.
LEMMA NewMessageIsMessage ==
    ASSUME job \in CreateJob \cup UpdateJob
    PROVE  NewMessage \in Message
BY DataAssumption DEF NewMessage, Message, CreateJob, UpdateJob, Revisions

\* The folder after an APPEND.
LEMMA AppendFolder ==
    ASSUME FolderTypeOK, NEW m \in Message, AppendMessage(m)
    PROVE  FolderTypeOK'
BY DataAssumption DEF FolderTypeOK, AppendMessage, Uids

\* The folder after UID STORE; the UID is that of a message or was one.
LEMMA FlagFolder ==
    ASSUME FolderTypeOK, NEW u, FlagDeleted(u)
    PROVE  FolderTypeOK'
<1>1. CASE u \in Uids /\ Live(u)
  <2>1. [box[u] EXCEPT !.deleted = TRUE] \in Message
    BY <1>1 DEF FolderTypeOK, Live, Message
  <2>2. box' = [box EXCEPT ![u] = [box[u] EXCEPT !.deleted = TRUE]]
    BY <1>1 DEF FlagDeleted, FolderTypeOK
  <2> QED
    BY <2>1, <2>2 DEF FolderTypeOK, FlagDeleted
<1>2. CASE u \in Uids /\ ~Live(u)
  <2>1. [NoMessage EXCEPT !.deleted = FALSE] = NoMessage
    <3>1. NoMessage \in [draft : {None}, rev : {0}, hash : {None}, deleted : {FALSE}]
      BY DEF NoMessage
    <3> QED
      BY <3>1
  <2>2. box[u] = NoMessage /\ Live(u) = FALSE
    BY <1>2 DEF Live
  <2>3. box'[u] = NoMessage /\ \A w \in Uids \ {u} : box'[w] = box[w]
    BY <1>2, <2>1, <2>2 DEF FlagDeleted, FolderTypeOK
  <2>4. box' \in [Uids -> Message \cup {NoMessage}]
    BY <2>3 DEF FolderTypeOK, FlagDeleted
  <2> QED
    BY <2>4 DEF FolderTypeOK, FlagDeleted
<1>3. CASE u \notin Uids
  BY <1>3 DEF FolderTypeOK, FlagDeleted
<1> QED
  BY <1>1, <1>2, <1>3

\* The folder after EXPUNGE.
LEMMA ExpungeFolder ==
    ASSUME FolderTypeOK, ExpungeDeleted
    PROVE  FolderTypeOK'
BY DEF FolderTypeOK, ExpungeDeleted

\* The folder after a step of the other client.
LEMMA ExternalFolder ==
    ASSUME FolderTypeOK, ExternalStep
    PROVE  FolderTypeOK'
<1> USE FolderAssumption, DataAssumption DEF FolderTypeOK, External, Live, Uids
<1>0. ASSUME NEW u \in Uids, Live(u)
      PROVE  box[u] \in Message /\ {box[u].draft} \ {None} \in SUBSET DraftIds
  BY <1>0 DEF Message
<1>1. CASE \E u \in Uids : ExternalEdit(u)
  <2>1. PICK u \in Uids : ExternalEdit(u)
    BY <1>1
  <2>2. [box[u] EXCEPT !.hash = Tampered, !.deleted = FALSE] \in Message
    BY <2>1, <1>0 DEF ExternalEdit, Message
  <2>3. touched' \in SUBSET DraftIds
    BY <2>1, <1>0 DEF ExternalEdit, Touch
  <2>4. box' \in [Uids -> Message \cup {NoMessage}]
    BY <2>1, <2>2 DEF ExternalEdit
  <2> QED
    BY <2>1, <2>3, <2>4 DEF ExternalEdit
<1>2. CASE \E u \in Uids : ExternalCopy(u)
  <2>1. PICK u \in Uids : ExternalCopy(u)
    BY <1>2
  <2>2. [box[u] EXCEPT !.deleted = FALSE] \in Message
    BY <2>1, <1>0 DEF ExternalCopy, Message
  <2>3. touched' \in SUBSET DraftIds
    BY <2>1, <1>0 DEF ExternalCopy, Touch
  <2>4. box' \in [Uids -> Message \cup {NoMessage}]
    BY <2>1, <2>2 DEF ExternalCopy
  <2> QED
    BY <2>1, <2>3, <2>4 DEF ExternalCopy
<1>3. CASE \E u \in Uids : ExternalFlag(u)
  <2>1. PICK u \in Uids : ExternalFlag(u)
    BY <1>3
  <2>2. [box[u] EXCEPT !.deleted = TRUE] \in Message
    BY <2>1, <1>0 DEF ExternalFlag, Message
  <2>3. touched' \in SUBSET DraftIds
    BY <2>1, <1>0 DEF ExternalFlag, Touch
  <2>4. box' \in [Uids -> Message \cup {NoMessage}]
    BY <2>1, <2>2 DEF ExternalFlag
  <2> QED
    BY <2>1, <2>3, <2>4 DEF ExternalFlag
<1>4. CASE \E u \in Uids : ExternalRemove(u)
  <2>1. PICK u \in Uids : ExternalRemove(u)
    BY <1>4
  <2>2. touched' \in SUBSET DraftIds
    BY <2>1, <1>0 DEF ExternalRemove, Touch
  <2> QED
    BY <2>1, <2>2 DEF ExternalRemove
<1>5. CASE ExternalDraft
  <2>1. Foreign \in Message
    BY DEF Foreign, Message
  <2> QED
    BY <1>5, <2>1 DEF ExternalDraft
<1> QED
  BY <1>1, <1>2, <1>3, <1>4, <1>5 DEF ExternalStep

\* The messages of a folder are finitely many, so a new numbering has room.
LEMMA RenumberFolder ==
    ASSUME FolderTypeOK, Renumber
    PROVE  FolderTypeOK'
<1> DEFINE occupied == {u \in Uids : Live(u)}
           n == Cardinality(occupied)
<1>1. n \in Nat /\ n <= MaxUid
  <2>1. IsFiniteSet(Uids) /\ Cardinality(Uids) = MaxUid
    BY FS_Interval, DataAssumption DEF Uids
  <2> QED
    BY <2>1, FS_Subset, FS_CardinalityType
<1>2. PICK old \in [1..n -> occupied] :
           box' = [u \in Uids |-> IF u <= n THEN box[old[u]] ELSE NoMessage]
  BY DEF Renumber
<1>3. \A u \in Uids : u <= n => old[u] \in Uids
  BY <1>1 DEF Uids
<1>4. box' \in [Uids -> Message \cup {NoMessage}]
  BY <1>2, <1>3 DEF FolderTypeOK
<1>5. uidNext' = n + 1 /\ validity' \in Validities /\ UNCHANGED <<touched, externals>>
  BY DataAssumption DEF Renumber, FolderTypeOK, Validities
<1>6. uidNext' \in 1..(MaxUid + 1)
  BY <1>1, <1>5, DataAssumption
<1> HIDE DEF n, occupied
<1> QED
  BY <1>4, <1>5, <1>6 DEF FolderTypeOK

\* Together: every step keeps the folder in its sets.
LEMMA FolderStep ==
    ASSUME FolderTypeOK, GatewayOK, [SyncNext]_vars
    PROVE  FolderTypeOK'
<1>0. ASSUME UNCHANGED folderVars
      PROVE  FolderTypeOK'
  BY <1>0 DEF folderVars, FolderTypeOK
<1>1. CASE Request
  BY <1>0, <1>1 DEF Request, BeginCreate, BeginUpdate, BeginSummary
<1>2. CASE Lookup
  BY <1>0, <1>2 DEF Lookup, Select, Search, Fetch
<1>3. CASE AppendCreated \/ AppendUpdated
  <2>1. job \in CreateJob \cup UpdateJob
    BY <1>3 DEF AppendCreated, AppendUpdated, At, GatewayOK, ControlOK
  <2>2. AppendMessage(NewMessage)
    BY <1>3 DEF AppendCreated, AppendUpdated, AppendRevision
  <2> QED
    BY <2>1, <2>2, NewMessageIsMessage, AppendFolder
<1>4. CASE MarkDeleted
  BY <1>4, FlagFolder DEF MarkDeleted
<1>5. CASE Expunge
  BY <1>5, ExpungeFolder DEF Expunge
<1>6. CASE CreateStep /\ ~AppendCreated
  BY <1>0, <1>6 DEF CreateStep, Stage, LookClear, CreateConflict, ConfirmCreated, TrackCreated, RecordCreated
<1>7. CASE UpdateStep /\ ~AppendUpdated /\ ~MarkDeleted /\ ~Expunge
  BY <1>0, <1>7 DEF UpdateStep, Conflict, InspectInSync, VerifyPrevious, ReplaceFound, ReplaceConflict,
        SelectFinal, FinalFound, FinalConflict, RecordUpdated, RecordConflict, BindConflict
<1>8. CASE SummaryStep \/ Unusable \/ Fail \/ FailJob \/ Crash \/ BootStep
  BY <1>0, <1>8 DEF SummaryStep, SummaryRefused, SummaryStatus, SummaryTracking, Unusable, Fail,
        FailJob, Crash, BootStep, Boot, BootFail, Serve
<1>9. CASE OtherClient
  BY <1>9, ExternalFolder DEF OtherClient
<1>10. CASE ServerRenumbers
  BY <1>10, RenumberFolder DEF ServerRenumbers
<1>11. CASE UNCHANGED vars
  BY <1>0, <1>11 DEF vars
<1> QED
  BY <1>1, <1>2, <1>3, <1>4, <1>5, <1>6, <1>7, <1>8, <1>9, <1>10, <1>11 DEF SyncNext, JobStep

-----------------------------------------------------------------------------
(* The store *)

\* Whatever the gateway, the server, the other client or a crash does, the store
\* sees one of its own operations, or nothing.
LEMMA StoreCalls ==
    ASSUME StoreTypeOK, GatewayOK, [SyncNext]_vars
    PROVE  [StoreNext]_storeVars
<1> USE DEF GatewayOK, GatewayTypeOK, ControlOK, At, Seen
<1>0. 1 \in Revisions /\ 0 \in Uids \cup {0} /\ {"new", "staged", "synced_to_gmx", "modified",
        "invalidated", "failed"} = Statuses
  BY DataAssumption DEF Revisions, Statuses
<1>1. CASE Request
  <2>1. CASE \E k \in Keys, d \in DraftIds, h \in Hashes : BeginCreate(k, d, h)
    BY <1>0, <2>1 DEF BeginCreate, StoreNext
  <2>2. CASE \E k \in Keys, d \in DraftIds, h \in Hashes : BeginUpdate(k, d, h)
    BY <2>2 DEF BeginUpdate
  <2>3. CASE \E d \in DraftIds : BeginSummary(d)
    BY <2>3 DEF BeginSummary
  <2> QED
    BY <1>1, <2>1, <2>2, <2>3 DEF Request
<1>2. CASE Lookup
  BY <1>2 DEF Lookup, Select, Search, Fetch
<1>3. ASSUME NEW t, job.draft \in DraftIds, TransitionStatus(job.draft, t)
      PROVE  StoreNext
  BY <1>3, TransitionsStayInStatuses DEF TransitionStatus, StoreNext
<1>4. CASE CreateStep
  <2>1. CASE LookClear \/ AppendCreated \/ ConfirmCreated
    BY <2>1 DEF LookClear, AppendCreated, AppendRevision, ConfirmCreated
  <2>2. CASE Stage \/ CreateConflict \/ RecordCreated
    <3>1. job \in CreateJob
      BY <2>2 DEF Stage, CreateConflict, RecordCreated
    <3>2. job.draft \in DraftIds
      BY <3>1 DEF CreateJob
    <3> QED
      BY <2>2, <3>2, <1>3 DEF Stage, CreateConflict, RecordCreated
  <2>3. CASE TrackCreated
    <3>1. job \in CreateJob
      BY <2>3 DEF TrackCreated
    <3>2. job.draft \in DraftIds /\ job.rev \in Revisions /\ job.hash \in Hashes
      BY <1>0, <3>1 DEF CreateJob
    <3> QED
      BY <2>3, <3>2 DEF TrackCreated, StoreNext
  <2> QED
    BY <1>4, <2>1, <2>2, <2>3 DEF CreateStep
<1>5. CASE UpdateStep
  <2>1. CASE RecordConflict \/ BindConflict \/ RecordUpdated
    <3>1. job \in UpdateJob
      BY <2>1 DEF RecordConflict, ConflictPhase, BindConflict, RecordUpdated
    <3>2. /\ job.draft \in DraftIds /\ job.key \in Keys
          /\ job.rev \in Revisions /\ job.hash \in Hashes
      BY <3>1 DEF UpdateJob
    <3>3. CASE RecordConflict
      BY <3>2, <3>3, <1>3 DEF RecordConflict
    <3>4. CASE BindConflict
      BY <3>2, <3>4 DEF BindConflict, StoreNext
    <3>5. CASE RecordUpdated
      BY <3>2, <3>5, <1>0 DEF RecordUpdated, StoreNext
    <3> QED
      BY <2>1, <3>3, <3>4, <3>5
  <2>2. CASE ~RecordConflict /\ ~BindConflict /\ ~RecordUpdated
    BY <1>5, <2>2 DEF UpdateStep, Conflict, InspectInSync, VerifyPrevious, AppendUpdated,
          AppendRevision, ReplaceFound, ReplaceConflict, MarkDeleted, Expunge, SelectFinal,
          FinalFound, FinalConflict
  <2> QED
    BY <2>1, <2>2
<1>6. CASE SummaryStep
  <2>1. job \in SummaryJob
    BY <1>6 DEF SummaryStep, SummaryRefused, SummaryStatus, SummaryTracking
  <2>2. job.draft \in DraftIds
    BY <2>1 DEF SummaryJob
  <2>3. CASE SummaryRefused
    BY <2>2, <2>3, <1>3 DEF SummaryRefused
  <2>4. CASE SummaryStatus
    BY <2>2, <2>4, <1>3 DEF SummaryStatus
  <2>5. CASE SummaryTracking
    <3>1. Record \in DraftRecord
      BY <2>2, <2>5, PresentIsRecord DEF SummaryTracking, SetTracking, Record
    <3>2. Record.revision \in Revisions /\ Record.hash \in Hashes
      BY <3>1 DEF DraftRecord
    <3> QED
      BY <2>2, <2>5, <3>2 DEF SummaryTracking, StoreNext
  <2> QED
    BY <1>6, <2>3, <2>4, <2>5 DEF SummaryStep
<1>7. CASE Unusable \/ Fail
  BY <1>7 DEF Unusable, Fail
<1>8. CASE FailJob
  <2>1. job \in Job
    BY <1>8 DEF FailJob
  <2>2. job.draft \in DraftIds
    BY <2>1 DEF Job, CreateJob, UpdateJob, SummaryJob
  <2> QED
    BY <1>8, <2>2, <1>3 DEF FailJob
<1>9. CASE Crash
  BY <1>9 DEF Crash, StoreNext
<1>10. CASE BootStep
  BY <1>10 DEF BootStep, Boot, BootFail, Serve, StoreNext
<1>11. CASE OtherClient \/ ServerRenumbers
  BY <1>11 DEF OtherClient, ServerRenumbers
<1>12. CASE UNCHANGED vars
  BY <1>12 DEF vars
<1> QED
  BY <1>1, <1>2, <1>4, <1>5, <1>6, <1>7, <1>8, <1>9, <1>10, <1>11, <1>12 DEF SyncNext, JobStep

-----------------------------------------------------------------------------
(* Types *)

\* The counters stay within their bounds.
LEMMA HistoryTypeStep ==
    ASSUME GatewayOK, HistoryTypeOK, [SyncNext]_vars
    PROVE  HistoryTypeOK'
<1> USE DEF HistoryTypeOK
<1>0. ASSUME UNCHANGED historyVars
      PROVE  HistoryTypeOK'
  BY <1>0 DEF historyVars
<1>1. CASE AppendCreated \/ AppendUpdated
  BY <1>1 DEF AppendCreated, AppendUpdated, AppendRevision
<1>2. CASE Crash
  BY <1>2, SyncAssumption DEF Crash
<1>3. CASE Lookup
  BY <1>0, <1>3, SyncAssumption DEF Lookup, Select, Search, Fetch
<1>4. CASE Request
  BY <1>0, <1>4 DEF Request, BeginCreate, BeginUpdate, BeginSummary
<1>5. CASE CreateStep /\ ~AppendCreated
  BY <1>0, <1>5 DEF CreateStep, Stage, LookClear, CreateConflict, ConfirmCreated, TrackCreated, RecordCreated
<1>6. CASE UpdateStep /\ ~AppendUpdated
  BY <1>0, <1>6 DEF UpdateStep, Conflict, InspectInSync, VerifyPrevious, ReplaceFound, ReplaceConflict,
        MarkDeleted, Expunge, SelectFinal, FinalFound, FinalConflict, RecordUpdated, RecordConflict, BindConflict
<1>7. CASE SummaryStep \/ Unusable \/ Fail \/ FailJob \/ BootStep
  BY <1>0, <1>7 DEF SummaryStep, SummaryRefused, SummaryStatus, SummaryTracking, Unusable, Fail,
        FailJob, BootStep, Boot, BootFail, Serve
<1>8. CASE OtherClient \/ ServerRenumbers \/ UNCHANGED vars
  BY <1>0, <1>8 DEF OtherClient, ServerRenumbers, vars
<1> QED
  BY <1>1, <1>2, <1>3, <1>4, <1>5, <1>6, <1>7, <1>8 DEF SyncNext, JobStep

\* The inductive form of SyncTypeOK: the phases have to fit the jobs.
SyncTypeInv == SyncTypeOK /\ ControlOK

\* The types hold at the start.
LEMMA SyncTypeInit == SyncInit => SyncTypeInv
<1> SUFFICES ASSUME SyncInit PROVE SyncTypeInv
  OBVIOUS
<1>1. StoreTypeOK
  BY TypeInit DEF SyncInit
<1>2. FolderTypeOK
  BY DataAssumption, FolderAssumption DEF SyncInit, FolderInit, FolderTypeOK, Validities
<1>3. GatewayTypeOK /\ ControlOK
  BY DEF SyncInit, GatewayTypeOK, ControlOK, Phases, Lookups, Steps
<1>4. HistoryTypeOK
  BY SyncAssumption DEF SyncInit, HistoryTypeOK
<1> QED
  BY <1>1, <1>2, <1>3, <1>4 DEF SyncTypeInv, SyncTypeOK

\* Every step keeps the types.
LEMMA SyncTypeStep ==
    ASSUME SyncTypeInv, [SyncNext]_vars
    PROVE  SyncTypeInv'
<1>1. StoreTypeOK /\ FolderTypeOK /\ GatewayOK /\ HistoryTypeOK
  BY DEF SyncTypeInv, SyncTypeOK, GatewayOK
<1>2. StoreTypeOK'
  BY <1>1, StoreCalls, TypeStep
<1>3. FolderTypeOK'
  BY <1>1, FolderStep
<1>4. GatewayOK'
  BY <1>1, GatewayStep
<1>5. HistoryTypeOK'
  BY <1>1, HistoryTypeStep
<1> QED
  BY <1>2, <1>3, <1>4, <1>5 DEF SyncTypeInv, SyncTypeOK, GatewayOK

\* The inductive form holds throughout.
LEMMA SyncTypes == SyncSpec => []SyncTypeInv
BY SyncTypeInit, SyncTypeStep, PTL DEF SyncSpec

\* Tables, folder, job and lookup results stay in their sets, for any number of
\* drafts, keys, crashes and steps of others.
THEOREM SyncTypeCorrect == SyncSpec => []SyncTypeOK
BY SyncTypes, PTL DEF SyncTypeInv

\* The gateway is a client of the store: all it does to the tables is one of the
\* operations DraftStore specifies at a time.
THEOREM SyncImplementsStore == SyncSpec => StoreSpec
<1>1. SyncInit => StoreInit
  BY DEF SyncInit
<1>2. SyncTypeInv /\ [SyncNext]_vars => [StoreNext]_storeVars
  BY StoreCalls DEF SyncTypeInv, SyncTypeOK, GatewayOK
<1> QED
  BY <1>1, <1>2, SyncTypes, PTL DEF SyncSpec, StoreSpec

-----------------------------------------------------------------------------
(* Incomplete drafts                                                         *)
(*                                                                           *)
(* IdleIsResolved speaks of the idle gateway only.  The inductive form says  *)
(* of every phase who will resolve a draft that is new or staged: the job    *)
(* that creates it, fail_incomplete which has it on its list, or, while the  *)
(* process is down, the next start.                                          *)

CreatePhases == {"stage", "look", "confirm", "record", "failing"}

ResolvedBy(d) ==
    \/ phase = "down"
    \/ phase = "boot" /\ d \in sweep
    \/ phase \in CreatePhases /\ job.op = CreateOp /\ job.draft = d

IncompleteIsOwned ==
    /\ \A d \in DraftIds : drafts[d].status \in Incomplete => ResolvedBy(d)
    /\ sweep # {} => phase = "boot"
    /\ \A d \in sweep : drafts[d].status \in Incomplete

\* No draft is incomplete and none is listed.
NothingIncomplete ==
    /\ \A d \in DraftIds : drafts[d].status \notin Incomplete
    /\ sweep = {}

LEMMA NothingIncompleteSuffices ==
    ASSUME NothingIncomplete'
    PROVE  IncompleteIsOwned'
BY DEF NothingIncomplete, IncompleteIsOwned

\* A phase that is not part of a creation knows no incomplete draft.
LEMMA OutsideCreation ==
    ASSUME IncompleteIsOwned, phase \notin {"down", "boot"},
           phase \notin CreatePhases \/ job.op # CreateOp
    PROVE  NothingIncomplete
BY DEF IncompleteIsOwned, ResolvedBy, NothingIncomplete

\* transition_status changes the status of one draft and nothing else.
LEMMA TransitionEffect ==
    ASSUME StoreTypeOK, NEW d \in DraftIds, NEW t, TransitionStatus(d, t)
    PROVE  /\ drafts'[d].status = t
           /\ \A e \in DraftIds \ {d} : drafts'[e] = drafts[e]
           /\ UNCHANGED <<idem, sweep>>
<1>1. drafts[d] \in DraftRecord
  BY PresentIsRecord DEF TransitionStatus
<1>2. drafts' = [drafts EXCEPT ![d] = [drafts[d] EXCEPT !.status = t]]
  BY DEF TransitionStatus, StoreTypeOK
<1>3. drafts'[d] = [drafts[d] EXCEPT !.status = t]
  BY <1>2 DEF StoreTypeOK
<1> QED
  BY <1>1, <1>2, <1>3 DEF TransitionStatus, StoreTypeOK, DraftRecord

\* set_tracking changes no status.
LEMMA TrackingEffect ==
    ASSUME StoreTypeOK, NEW d \in DraftIds, NEW r, NEW h, NEW u, NEW v, SetTracking(d, r, h, u, v)
    PROVE  /\ \A e \in DraftIds : drafts'[e].status = drafts[e].status
           /\ UNCHANGED <<idem, sweep>>
<1>1. drafts[d] \in DraftRecord
  BY PresentIsRecord DEF SetTracking
<1>2. drafts' = [drafts EXCEPT ![d] = [drafts[d] EXCEPT !.uid = u, !.uidvalidity = v]]
  BY DEF SetTracking, StoreTypeOK
<1>3. drafts'[d].status = drafts[d].status
  BY <1>1, <1>2 DEF StoreTypeOK, DraftRecord
<1>4. \A e \in DraftIds \ {d} : drafts'[e] = drafts[e]
  BY <1>2 DEF StoreTypeOK
<1> QED
  BY <1>3, <1>4 DEF SetTracking

\* A creation: before its last step the draft belongs to the job, with it the
\* draft is complete.
LEMMA CreateOwned ==
    ASSUME StoreTypeOK, GatewayOK, IncompleteIsOwned, CreateStep
    PROVE  IncompleteIsOwned'
<1> USE DEF At, Seen, GoTo, CreatePhases
<1>1. phase \in CreatePhases
  BY DEF CreateStep, Stage, LookClear, AppendCreated, CreateConflict, ConfirmCreated, TrackCreated,
     RecordCreated
<1>2. job \in CreateJob
  BY DEF CreateStep, Stage, LookClear, AppendCreated, CreateConflict, ConfirmCreated, TrackCreated,
     RecordCreated, GatewayOK, ControlOK
<1>3. job.op = CreateOp /\ job.draft \in DraftIds
  BY <1>2 DEF CreateJob
<1>4. sweep = {} /\ \A d \in DraftIds \ {job.draft} : drafts[d].status \notin Incomplete
  BY <1>1 DEF IncompleteIsOwned, ResolvedBy
<1>5. ASSUME UNCHANGED <<job, sweep>>, phase' \in CreatePhases,
             \A d \in DraftIds \ {job.draft} : drafts'[d].status = drafts[d].status
      PROVE  IncompleteIsOwned'
  BY <1>3, <1>4, <1>5 DEF IncompleteIsOwned, ResolvedBy
<1>6. ASSUME NEW t, t \notin Incomplete, TransitionStatus(job.draft, t)
      PROVE  IncompleteIsOwned'
  BY <1>3, <1>4, <1>6, TransitionEffect, NothingIncompleteSuffices DEF NothingIncomplete
<1>7. CASE Stage
  BY <1>3, <1>5, <1>7, TransitionEffect DEF Stage
<1>8. CASE LookClear \/ AppendCreated \/ ConfirmCreated
  BY <1>1, <1>5, <1>8 DEF LookClear, AppendCreated, AppendRevision, ConfirmCreated, storeVars, lookupVars
<1>9. CASE CreateConflict
  BY <1>6, <1>9 DEF CreateConflict, Incomplete
<1>10. CASE TrackCreated
  BY <1>3, <1>5, <1>10, TrackingEffect DEF TrackCreated
<1>11. CASE RecordCreated
  BY <1>6, <1>11 DEF RecordCreated, Incomplete
<1> QED
  BY <1>7, <1>8, <1>9, <1>10, <1>11 DEF CreateStep

\* An update or a summary finds every draft complete and leaves it so.
LEMMA UpdateOwned ==
    ASSUME StoreTypeOK, GatewayOK, IncompleteIsOwned, UpdateStep \/ SummaryStep
    PROVE  IncompleteIsOwned'
<1> USE DEF At, Seen
<1>1. job \in UpdateJob \cup SummaryJob /\ phase \notin {"down", "boot"}
  BY DEF UpdateStep, Conflict, InspectInSync, InSync, VerifyPrevious, AppendUpdated, ReplaceFound,
     ReplaceConflict, MarkDeleted, Expunge, SelectFinal, FinalFound, FinalConflict, RecordUpdated,
     RecordConflict, BindConflict, ConflictPhase, SummaryStep, SummaryRefused, SummaryStatus,
     SummaryTracking, GatewayOK, ControlOK
<1>2. job.op # CreateOp /\ job.draft \in DraftIds
  BY <1>1 DEF UpdateJob, SummaryJob, CreateOp, UpdateOp, SummaryOp
<1>3. NothingIncomplete
  BY <1>1, <1>2, OutsideCreation
<1>4. ASSUME sweep' = sweep, \A d \in DraftIds : drafts'[d].status = drafts[d].status
      PROVE  IncompleteIsOwned'
  BY <1>3, <1>4, NothingIncompleteSuffices DEF NothingIncomplete
<1>5. ASSUME NEW t, t \notin Incomplete, TransitionStatus(job.draft, t)
      PROVE  IncompleteIsOwned'
  BY <1>2, <1>3, <1>5, TransitionEffect, NothingIncompleteSuffices DEF NothingIncomplete
<1>6. CASE UpdateStep /\ ~RecordUpdated /\ ~RecordConflict /\ ~BindConflict
  BY <1>4, <1>6 DEF UpdateStep, Conflict, InspectInSync, VerifyPrevious, AppendUpdated, AppendRevision,
     ReplaceFound, ReplaceConflict, MarkDeleted, Expunge, SelectFinal, FinalFound, FinalConflict, storeVars
<1>7. CASE RecordUpdated
  <2>1. drafts' = [drafts EXCEPT ![job.draft] =
            [status |-> "synced_to_gmx", revision |-> job.rev, hash |-> job.hash,
             uid |-> newUid, uidvalidity |-> sel]] /\ sweep' = sweep
    BY <1>7 DEF RecordUpdated, Update
  <2>2. \A d \in DraftIds : drafts'[d].status \notin Incomplete
    BY <1>2, <1>3, <2>1 DEF NothingIncomplete, StoreTypeOK, Incomplete
  <2> QED
    BY <1>3, <2>1, <2>2, NothingIncompleteSuffices DEF NothingIncomplete
<1>8. CASE RecordConflict
  BY <1>5, <1>8 DEF RecordConflict, Incomplete
<1>9. CASE BindConflict
  BY <1>4, <1>9 DEF BindConflict, BindIdempotency
<1>10. CASE SummaryRefused
  BY <1>4, <1>5, <1>10 DEF SummaryRefused, Incomplete, storeVars
<1>11. CASE SummaryStatus
  BY <1>4, <1>5, <1>11 DEF SummaryStatus, Incomplete, storeVars
<1>12. CASE SummaryTracking
  BY <1>2, <1>4, <1>12, TrackingEffect DEF SummaryTracking
<1> QED
  BY <1>6, <1>7, <1>8, <1>9, <1>10, <1>11, <1>12 DEF SummaryStep

\* A creation takes its draft over; the other requests find every draft complete.
LEMMA RequestOwned ==
    ASSUME StoreTypeOK, IncompleteIsOwned, Request
    PROVE  IncompleteIsOwned'
<1> USE DEF GoTo
<1>0. phase = "idle"
  BY DEF Request, BeginCreate, BeginUpdate, BeginSummary
<1>1. NothingIncomplete
  BY <1>0, OutsideCreation DEF CreatePhases
<1>2. CASE \E k \in Keys, d \in DraftIds, h \in Hashes : BeginCreate(k, d, h)
  <2>1. PICK k \in Keys, d \in DraftIds, h \in Hashes : BeginCreate(k, d, h)
    BY <1>2
  <2>2. phase' = "stage" /\ job'.op = CreateOp /\ job'.draft = d /\ sweep' = sweep
    BY <2>1 DEF BeginCreate, Create
  <2>3. \A e \in DraftIds \ {d} : drafts'[e] = drafts[e]
    BY <2>1 DEF BeginCreate, Create, StoreTypeOK
  <2> QED
    BY <1>1, <2>2, <2>3 DEF NothingIncomplete, IncompleteIsOwned, ResolvedBy, CreatePhases
<1>3. CASE ~\E k \in Keys, d \in DraftIds, h \in Hashes : BeginCreate(k, d, h)
  BY <1>1, <1>3, NothingIncompleteSuffices
     DEF Request, BeginUpdate, BeginSummary, NothingIncomplete, storeVars
<1> QED
  BY <1>2, <1>3

\* A failure hands the draft to the except clause, which fails it.
LEMMA FailureOwned ==
    ASSUME StoreTypeOK, GatewayOK, IncompleteIsOwned, Unusable \/ Fail \/ FailJob
    PROVE  IncompleteIsOwned'
<1> USE DEF At, Seen, GoTo
<1>1. CASE Unusable
  <2>1. job \in UpdateJob /\ phase \notin {"down", "boot"}
    BY <1>1 DEF Unusable, GatewayOK, ControlOK
  <2>2. NothingIncomplete
    BY <2>1, OutsideCreation DEF UpdateJob, CreateOp, UpdateOp
  <2> QED
    BY <1>1, <2>2, NothingIncompleteSuffices DEF Unusable, NothingIncomplete, storeVars
<1>2. CASE Fail
  <2>1. phase \notin {"down", "boot"}
    BY <1>2 DEF Fail, InSync, Lookups
  <2>2. phase' = "failing" /\ UNCHANGED <<job, drafts, sweep>>
    BY <1>2 DEF Fail, storeVars
  <2> QED
    BY <2>1, <2>2 DEF IncompleteIsOwned, ResolvedBy, CreatePhases
<1>3. CASE FailJob
  <2>1. job \in Job /\ phase = "failing"
    BY <1>3 DEF FailJob, GatewayOK, ControlOK
  <2>2. job.draft \in DraftIds
    BY <2>1 DEF Job, CreateJob, UpdateJob, SummaryJob
  <2>3. sweep = {} /\ \A d \in DraftIds \ {job.draft} : drafts[d].status \notin Incomplete
    BY <2>1 DEF IncompleteIsOwned, ResolvedBy
  <2>4. CASE TransitionStatus(job.draft, "failed")
    BY <2>2, <2>3, <2>4, TransitionEffect, NothingIncompleteSuffices DEF NothingIncomplete, Incomplete
  <2>5. CASE ~TransitionStatus(job.draft, "failed")
    <3>1. UNCHANGED storeVars /\ ~(job.op = CreateOp /\ Record.status \in Incomplete)
      BY <1>3, <2>5 DEF FailJob
    <3>2. drafts[job.draft].status \notin Incomplete
      BY <2>1, <2>2, <3>1 DEF IncompleteIsOwned, ResolvedBy, Record
    <3> QED
      BY <2>3, <3>1, <3>2, NothingIncompleteSuffices DEF NothingIncomplete, storeVars
  <2> QED
    BY <2>4, <2>5
<1> QED
  BY <1>1, <1>2, <1>3

\* A start lists every incomplete draft, and serves once none is listed any more.
LEMMA BootOwned ==
    ASSUME StoreTypeOK, IncompleteIsOwned, Crash \/ BootStep
    PROVE  IncompleteIsOwned'
<1> USE DEF GoTo
<1>1. CASE Crash
  <2>1. phase' = "down" /\ sweep' = {}
    BY <1>1 DEF Crash, AbandonSweep, storeVars
  <2> QED
    BY <2>1 DEF IncompleteIsOwned, ResolvedBy
<1>2. CASE Boot
  <2>1. phase' = "boot" /\ sweep' = {d \in DraftIds : drafts[d].status \in Incomplete} /\ UNCHANGED drafts
    BY <1>2 DEF Boot, ListIncomplete
  <2> QED
    BY <2>1 DEF IncompleteIsOwned, ResolvedBy
<1>3. CASE \E d \in DraftIds : BootFail(d)
  <2>1. PICK d \in DraftIds : BootFail(d)
    BY <1>3
  <2>2. phase = "boot" /\ phase' = "boot" /\ d \in sweep /\ drafts[d].status \in Incomplete
    BY <2>1 DEF BootFail, FailListed, gatewayVars, IncompleteIsOwned
  <2>3. Present(d) /\ CanTransition(drafts[d].status, "failed")
    BY <2>2 DEF Present, NoDraft, CanTransition, Incomplete
  <2>4. drafts' = [drafts EXCEPT ![d].status = "failed"] /\ sweep' = sweep \ {d}
    BY <2>1, <2>3 DEF BootFail, FailListed
  <2>5. drafts[d] \in DraftRecord
    BY <2>3, PresentIsRecord
  <2>6. drafts'[d] = [drafts[d] EXCEPT !.status = "failed"]
    BY <2>4 DEF StoreTypeOK
  <2>7. drafts'[d].status \notin Incomplete
    BY <2>5, <2>6 DEF Incomplete, DraftRecord
  <2>8. \A e \in DraftIds \ {d} : drafts'[e] = drafts[e]
    BY <2>4 DEF StoreTypeOK
  <2>9. sweep \in SUBSET DraftIds
    BY DEF StoreTypeOK
  <2> QED
    BY <2>2, <2>4, <2>7, <2>8, <2>9 DEF IncompleteIsOwned, ResolvedBy, CreatePhases
<1>4. CASE Serve
  <2>1. NothingIncomplete
    BY <1>4 DEF Serve, IncompleteIsOwned, ResolvedBy, NothingIncomplete, CreatePhases
  <2> QED
    BY <1>4, <2>1, NothingIncompleteSuffices DEF Serve, NothingIncomplete, storeVars
<1> QED
  BY <1>1, <1>2, <1>3, <1>4 DEF BootStep

\* Together: every incomplete draft has an owner after every step.
LEMMA OwnedStep ==
    ASSUME StoreTypeOK, GatewayOK, IncompleteIsOwned, [SyncNext]_vars
    PROVE  IncompleteIsOwned'
<1>1. CASE Lookup
  BY <1>1 DEF Lookup, Select, Search, Fetch, IncompleteIsOwned, ResolvedBy, storeVars
<1>2. CASE OtherClient \/ ServerRenumbers \/ UNCHANGED vars
  BY <1>2 DEF OtherClient, ServerRenumbers, vars, gatewayVars, storeVars, IncompleteIsOwned, ResolvedBy
<1> QED
  BY <1>1, <1>2, RequestOwned, CreateOwned, UpdateOwned, FailureOwned, BootOwned DEF SyncNext, JobStep

\* The inductive form holds throughout.
LEMMA IncompleteAlwaysOwned == SyncSpec => []IncompleteIsOwned
<1>1. SyncInit => IncompleteIsOwned
  BY DEF SyncInit, StoreInit, IncompleteIsOwned, NoDraft, Incomplete
<1>2. SyncTypeInv /\ IncompleteIsOwned /\ [SyncNext]_vars => IncompleteIsOwned'
  BY OwnedStep DEF SyncTypeInv, SyncTypeOK, GatewayOK
<1> QED
  BY <1>1, <1>2, SyncTypes, PTL DEF SyncSpec

\* No request is served while a draft is still new or staged: wherever a creation
\* fails or the gateway crashes, the draft is resolved before the next request.
THEOREM IdleAlwaysResolved == SyncSpec => []IdleIsResolved
<1>1. IncompleteIsOwned => IdleIsResolved
  BY DEF IncompleteIsOwned, ResolvedBy, CreatePhases, IdleIsResolved
<1> QED
  BY <1>1, IncompleteAlwaysOwned, PTL

-----------------------------------------------------------------------------
(* Sent messages                                                             *)
(*                                                                           *)
(* A key that sent a message is bound, and a creation that is still to send  *)
(* one has bound its key and sent none.  Since a bound key admits no second  *)
(* creation and no step of the gateway unbinds a key, it never sends twice.  *)

SentOnce ==
    /\ \A k \in Keys : sent[k] <= 1 /\ (sent[k] = 1 => idem[k] # Unbound)
    /\ phase \in {"stage", "look"} => sent[job.key] = 0 /\ idem[job.key] # Unbound

\* A step that sends nothing, unbinds nothing and starts no creation.
LEMMA QuietStep ==
    ASSUME SentOnce, UNCHANGED sent,
           \A k \in Keys : idem[k] # Unbound => idem'[k] # Unbound,
           phase' \in {"stage", "look"} =>
              phase \in {"stage", "look"} /\ job' = job /\ job.key \in Keys
    PROVE  SentOnce'
BY DEF SentOnce

\* Only a request with an unbound key starts a creation, and it binds the key.
LEMMA RequestSendsNothing ==
    ASSUME SyncTypeOK, GatewayOK, SentOnce, Request
    PROVE  SentOnce'
<1> USE DEF GoTo
<1>1. CASE \E k \in Keys, d \in DraftIds, h \in Hashes : BeginCreate(k, d, h)
  <2>1. PICK k \in Keys, d \in DraftIds, h \in Hashes : BeginCreate(k, d, h)
    BY <1>1
  <2>2. k # None
    BY StoreAssumption
  <2>3. idem[k] = Unbound /\ idem' = [idem EXCEPT ![k] = [draft |-> d, op |-> CreateOp]]
    BY <2>1, <2>2 DEF BeginCreate, Create, KeyFree, Bind
  <2>4. idem \in [Keys -> Binding \cup {Unbound}] /\ sent \in [Keys -> 0..2]
    BY DEF SyncTypeOK, StoreTypeOK, HistoryTypeOK
  <2>5. idem'[k] # Unbound
    BY <2>3, <2>4 DEF Unbound, CreateOp
  <2>6. sent[k] = 0
    BY <2>3, <2>4 DEF SentOnce
  <2>7. \A q \in Keys : idem[q] # Unbound => idem'[q] # Unbound
    BY <2>3, <2>4, <2>5
  <2>8. UNCHANGED sent /\ job'.key = k
    BY <2>1 DEF BeginCreate, historyVars
  <2> QED
    BY <2>5, <2>6, <2>7, <2>8 DEF SentOnce
<1>2. CASE ~\E k \in Keys, d \in DraftIds, h \in Hashes : BeginCreate(k, d, h)
  BY <1>2, QuietStep DEF Request, BeginUpdate, BeginSummary, storeVars, historyVars
<1> QED
  BY <1>1, <1>2

\* The one step that sends for a key is the APPEND of a creation; the job is then
\* past every phase that could send again.
LEMMA CreateSendsOnce ==
    ASSUME SyncTypeOK, GatewayOK, SentOnce, CreateStep
    PROVE  SentOnce'
<1> USE DEF At, Seen, GoTo
<1>1. job \in CreateJob /\ job.key \in Keys /\ job.op = CreateOp
  BY DEF CreateStep, Stage, LookClear, AppendCreated, CreateConflict, ConfirmCreated, TrackCreated,
     RecordCreated, GatewayOK, ControlOK, CreateJob
<1>2. CASE Stage
  BY <1>1, <1>2, QuietStep DEF Stage, TransitionStatus, lookupVars, historyVars
<1>3. CASE LookClear
  BY <1>1, <1>3, QuietStep DEF LookClear, storeVars, historyVars
<1>4. CASE AppendCreated
  <2>1. sent[job.key] = 0 /\ idem[job.key] # Unbound
    BY <1>4 DEF AppendCreated, SentOnce
  <2>2. sent' = [sent EXCEPT ![job.key] = 1]
    BY <1>1, <1>4, <2>1 DEF AppendCreated, AppendRevision
  <2>3. sent \in [Keys -> 0..2]
    BY DEF SyncTypeOK, HistoryTypeOK
  <2>4. phase' \notin {"stage", "look"} /\ UNCHANGED idem
    BY <1>4 DEF AppendCreated, AppendRevision, storeVars
  <2> QED
    BY <1>1, <2>1, <2>2, <2>3, <2>4 DEF SentOnce
<1>5. CASE CreateConflict \/ ConfirmCreated \/ TrackCreated \/ RecordCreated
  BY <1>5, QuietStep DEF CreateConflict, ConfirmCreated, TrackCreated, RecordCreated, Finish,
     TransitionStatus, SetTracking, storeVars, historyVars
<1> QED
  BY <1>2, <1>3, <1>4, <1>5 DEF CreateStep

\* An update sends no message for a key of mail_create_draft, and binds its own
\* key only where it is free.
LEMMA UpdateSendsNothing ==
    ASSUME SyncTypeOK, GatewayOK, SentOnce, UpdateStep
    PROVE  SentOnce'
<1> USE DEF At, Seen, GoTo
<1>1. job \in UpdateJob /\ job.key \in Keys /\ job.op # CreateOp
  BY DEF UpdateStep, Conflict, InspectInSync, InSync, VerifyPrevious, AppendUpdated, ReplaceFound,
     ReplaceConflict, MarkDeleted, Expunge, SelectFinal, FinalFound, FinalConflict, RecordUpdated,
     RecordConflict, BindConflict, ConflictPhase, GatewayOK, ControlOK, UpdateJob, UpdateOp, CreateOp
<1>2. phase' \notin {"stage", "look"} /\ UNCHANGED sent
  BY <1>1 DEF UpdateStep, Conflict, InspectInSync, VerifyPrevious, AppendUpdated, AppendRevision,
     ReplaceFound, ReplaceConflict, MarkDeleted, Expunge, SelectFinal, FinalFound, FinalConflict,
     RecordUpdated, RecordConflict, BindConflict, ConflictPhase, Finish, historyVars
<1>3. ASSUME Bind(job.key, job.draft, UpdateOp)
      PROVE  \A k \in Keys : idem[k] # Unbound => idem'[k] # Unbound
  <2>1. idem \in [Keys -> Binding \cup {Unbound}]
    BY DEF SyncTypeOK, StoreTypeOK
  <2> QED
    BY <1>1, <1>3, <2>1 DEF Bind, Unbound, UpdateOp
<1>4. UNCHANGED idem \/ Bind(job.key, job.draft, UpdateOp)
  BY DEF UpdateStep, Conflict, InspectInSync, VerifyPrevious, AppendUpdated, AppendRevision,
     ReplaceFound, ReplaceConflict, MarkDeleted, Expunge, SelectFinal, FinalFound, FinalConflict,
     RecordUpdated, Update, RecordConflict, TransitionStatus, BindConflict, BindIdempotency, storeVars
<1> QED
  BY <1>2, <1>3, <1>4, QuietStep

\* The other steps keep the keys and the sent messages; those that could leave
\* the gateway in a creation are the lookup before its APPEND.
LEMMA OthersSendNothing ==
    ASSUME SyncTypeOK, GatewayOK, SentOnce,
           \/ Lookup \/ SummaryStep \/ Unusable \/ Fail \/ FailJob \/ Crash
           \/ BootStep \/ OtherClient \/ ServerRenumbers \/ UNCHANGED vars
    PROVE  SentOnce'
<1> USE DEF At, Seen, GoTo
<1>1. phase \in {"stage", "look"} => job.key \in Keys
  BY DEF GatewayOK, ControlOK, CreateJob
<1>2. CASE Lookup
  BY <1>1, <1>2, QuietStep DEF Lookup, Select, Search, Fetch, storeVars, historyVars
<1>3. CASE SummaryStep
  BY <1>3, QuietStep DEF SummaryStep, SummaryRefused, SummaryStatus, SummaryTracking,
     TransitionStatus, SetTracking, Finish, storeVars, historyVars
<1>4. CASE Unusable \/ Fail \/ FailJob
  BY <1>4, QuietStep DEF Unusable, Fail, FailJob, TransitionStatus, Finish, storeVars, historyVars
<1>5. CASE Crash
  BY <1>5, QuietStep DEF Crash, AbandonSweep, storeVars
<1>6. CASE BootStep
  BY <1>6, QuietStep DEF BootStep, Boot, BootFail, Serve, ListIncomplete, FailListed, gatewayVars,
     storeVars, historyVars
<1>7. CASE OtherClient \/ ServerRenumbers \/ UNCHANGED vars
  BY <1>1, <1>7, QuietStep DEF OtherClient, ServerRenumbers, vars, gatewayVars, storeVars, historyVars
<1> QED
  BY <1>2, <1>3, <1>4, <1>5, <1>6, <1>7

\* A key never puts a second message on the server through mail_create_draft,
\* whatever answer was lost and wherever the gateway crashed.
THEOREM KeySendsOnce == SyncSpec => []OneMessagePerKey
<1>1. SyncInit => SentOnce
  BY DEF SyncInit, SentOnce
<1>2. SyncTypeInv /\ SentOnce /\ [SyncNext]_vars => SentOnce'
  BY RequestSendsNothing, CreateSendsOnce, UpdateSendsNothing, OthersSendNothing
     DEF SyncTypeInv, GatewayOK, SyncTypeOK, SyncNext, JobStep
<1>3. SentOnce => OneMessagePerKey
  BY DEF SentOnce, OneMessagePerKey
<1> QED
  BY <1>1, <1>2, <1>3, SyncTypes, PTL DEF SyncSpec
=============================================================================
