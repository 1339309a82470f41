----------------------- MODULE AttachmentStagingProofs -----------------------
(***************************************************************************)
(* Proofs about AttachmentStaging, for any number of attachments, files,   *)
(* keys, contents, crashes and changes from outside.  The invariants say   *)
(* nothing of the attachment at work; the inductive form adds what its     *)
(* file holds at each system call (TaskAgrees) and that no two entries of  *)
(* the directory lead to one inode (EntriesAgree).                         *)
(***************************************************************************)
EXTENDS AttachmentStaging, DraftStoreProofs

\* Each entry has an inode of its own, which was created.
EntriesAgree ==
    /\ \A a, b \in AttachmentIds : dir[a] # None /\ dir[a] = dir[b] => a = b
    /\ \A a \in AttachmentIds : dir[a] # None => data[dir[a]] # None

\* An attachment has no row before its task ends; its file holds its content once
\* it is written.  Only an ingest that failed removes a file.
TaskAgrees ==
    /\ task.op = "add" => task.att \notin attachments
    /\ task.op = "build" => task.att \in attachments
    /\ step \in {"create", "write", "save", "recheck", "unlink"} => task.op = "add"
    /\ step = "create" => dir[task.att] = None
    /\ step = "write" =>
          /\ opened \in Inodes /\ data[opened] # None
          /\ task.att \notin disturbed => dir[task.att] = opened
          /\ \A b \in AttachmentIds \ {task.att} : dir[b] # opened
    /\ step = "write" /\ task.att \notin disturbed => data[opened] = Partial
    /\ step = "save" /\ task.att \notin disturbed =>
          dir[task.att] # None /\ data[dir[task.att]] = task.content
    /\ step = "open" => seen \in Inodes /\ data[seen] # None
    /\ step = "read" => opened \in Inodes /\ data[opened] # None

\* A file without a row is that of the ingest at work, unless one broke off.
StraysAreExplained ==
    \A a \in AttachmentIds \ (disturbed \cup broken) :
        dir[a] # None => a \in attachments \/ (task.op = "add" /\ a = task.att)

StagingInv ==
    /\ StagingTypeOK
    /\ EntriesAgree
    /\ TaskAgrees
    /\ StraysAreExplained
    /\ RowsHaveFiles
    /\ HandsOutStored

-----------------------------------------------------------------------------

\* A step of this module is, for the store, one of its operations or none.
LEMMA StoreKeepsTypes ==
    ASSUME StoreTypeOK,
           \/ UNCHANGED storeVars
           \/ \E a \in AttachmentIds, k \in Keys : SaveAttachment(a, k)
           \/ \E k \in Keys, d \in DraftIds, h \in Hashes : Create(d, 1, h, "new", k)
    PROVE  StoreTypeOK'
<1>1. 1 \in Revisions /\ "new" \in Statuses
  BY DataAssumption DEF Revisions, Statuses
<1>2. [StoreNext]_storeVars
  BY <1>1 DEF StoreNext
<1> QED
  BY <1>2, TypeStep

\* A task that is not idle is one of the two kinds.
LEMMA TaskKinds ==
    ASSUME StagingTypeOK, step \notin {"idle", "down"}
    PROVE  /\ task.att \in AttachmentIds
           /\ \/ task.op = "add" /\ task.key \in Keys /\ task.content \in Contents
              \/ task.op = "build"
BY DEF StagingTypeOK, Task

\* Rows keep their files as long as nothing moves or writes these.
LEMMA FilesKept ==
    ASSUME RowsHaveFiles, UNCHANGED <<attachments, digest>>,
           \A a \in attachments \ disturbed' :
              a \notin disturbed /\ dir'[a] = dir[a] /\ data'[dir[a]] = data[dir[a]]
    PROVE  RowsHaveFiles'
BY DEF RowsHaveFiles

\* The steps of mail_add_attachment up to its row.
LEMMA IngestHolds ==
    ASSUME StagingInv,
           \/ \E k \in Keys, c \in Contents : BeginAdd(k, c)
           \/ CreateFile
           \/ WriteFile
           \/ SaveRow
           \/ SaveFails
    PROVE  StagingInv'
<1> USE StagingAssumption, StoreAssumption, TaskKinds
    DEF StagingInv, At, GoTo, Finish, NoTask, Task, storeVars, files, control, history
<1>1. CASE \E k \in Keys, c \in Contents : BeginAdd(k, c)
  <2> USE <1>1 DEF BeginAdd, Fresh
  <2>1. StagingTypeOK'
    BY StoreKeepsTypes DEF StagingTypeOK, Steps, Handed, NoData, TaskAgrees
  <2>2. EntriesAgree'
    BY DEF StagingTypeOK, EntriesAgree
  <2>3. TaskAgrees'
    BY DEF StagingTypeOK, TaskAgrees, EntriesAgree
  <2>4. StraysAreExplained'
    BY DEF StagingTypeOK, StraysAreExplained
  <2>5. RowsHaveFiles'
    BY DEF StagingTypeOK, RowsHaveFiles
  <2>6. HandsOutStored'
    BY DEF StagingTypeOK, HandsOutStored
  <2> QED BY <2>1, <2>2, <2>3, <2>4, <2>5, <2>6
<1>2. CASE CreateFile
  <2> USE <1>2 DEF CreateFile
  <2>1. StagingTypeOK'
    BY StoreKeepsTypes DEF StagingTypeOK, Steps, Handed, NoData, TaskAgrees
  <2>2. EntriesAgree'
    BY DEF StagingTypeOK, EntriesAgree
  <2>3. TaskAgrees'
    BY DEF StagingTypeOK, TaskAgrees, EntriesAgree
  <2>4. StraysAreExplained'
    BY DEF StagingTypeOK, StraysAreExplained, TaskAgrees, EntriesAgree
  <2>5. RowsHaveFiles'
    <3>1. \A a \in attachments \ disturbed : dir[a] # None /\ data[dir[a]] # None
      BY DEF StagingTypeOK, StoreTypeOK, RowsHaveFiles, EntriesAgree
    <3>2. \A a \in attachments \ disturbed :
             a # task.att /\ dir'[a] = dir[a] /\ data'[dir[a]] = data[dir[a]]
      BY <3>1 DEF StagingTypeOK, StoreTypeOK, TaskAgrees
    <3> QED BY <3>2, FilesKept
  <2>6. HandsOutStored'
    BY DEF StagingTypeOK, HandsOutStored
  <2> QED BY <2>1, <2>2, <2>3, <2>4, <2>5, <2>6
<1>3. CASE WriteFile
  <2> USE <1>3 DEF WriteFile, BreakOff
  <2>1. StagingTypeOK'
    BY StoreKeepsTypes DEF StagingTypeOK, Steps, Handed, NoData, TaskAgrees
  <2>2. EntriesAgree'
    BY DEF StagingTypeOK, EntriesAgree, TaskAgrees
  <2>3. TaskAgrees'
    BY DEF StagingTypeOK, TaskAgrees, EntriesAgree
  <2>4. StraysAreExplained'
    BY DEF StagingTypeOK, StraysAreExplained
  <2>5. RowsHaveFiles'
    <3>1. \A a \in attachments \ disturbed :
             a # task.att /\ dir[a] \in Inodes /\ dir[a] # opened
      BY DEF StagingTypeOK, StoreTypeOK, RowsHaveFiles, TaskAgrees
    <3>2. \A a \in attachments \ disturbed :
             dir'[a] = dir[a] /\ data'[dir[a]] = data[dir[a]]
      BY <3>1 DEF StagingTypeOK, StoreTypeOK
    <3> QED BY <3>2, FilesKept
  <2>6. HandsOutStored'
    BY DEF StagingTypeOK, HandsOutStored
  <2> QED BY <2>1, <2>2, <2>3, <2>4, <2>5, <2>6
<1>4. CASE SaveRow
  <2> USE <1>4 DEF SaveRow
  <2>1. StagingTypeOK'
    BY StoreKeepsTypes DEF StagingTypeOK, Steps, Handed, NoData, TaskAgrees
  <2>2. EntriesAgree'
    BY DEF StagingTypeOK, EntriesAgree
  <2>3. TaskAgrees'
    BY DEF StagingTypeOK, TaskAgrees, EntriesAgree
  <2>4. StraysAreExplained'
    BY DEF StagingTypeOK, StraysAreExplained, TaskAgrees, SaveAttachment
  <2>5. RowsHaveFiles'
    BY DEF StagingTypeOK, RowsHaveFiles, TaskAgrees, SaveAttachment
  <2>6. HandsOutStored'
    BY DEF StagingTypeOK, HandsOutStored, TaskAgrees, SaveAttachment
  <2> QED BY <2>1, <2>2, <2>3, <2>4, <2>5, <2>6
<1>5. CASE SaveFails
  <2> USE <1>5 DEF SaveFails
  <2>1. StagingTypeOK'
    BY StoreKeepsTypes DEF StagingTypeOK, Steps, Handed, NoData, TaskAgrees
  <2>2. EntriesAgree'
    BY DEF StagingTypeOK, EntriesAgree
  <2>3. TaskAgrees'
    BY DEF StagingTypeOK, TaskAgrees, EntriesAgree
  <2>4. StraysAreExplained'
    BY DEF StagingTypeOK, StraysAreExplained
  <2>5. RowsHaveFiles'
    BY DEF StagingTypeOK, RowsHaveFiles
  <2>6. HandsOutStored'
    BY DEF StagingTypeOK, HandsOutStored
  <2> QED BY <2>1, <2>2, <2>3, <2>4, <2>5, <2>6
<1> QED BY <1>1, <1>2, <1>3, <1>4, <1>5

\* The steps of _verified_attachment and remove.
LEMMA ReadingHolds ==
    ASSUME StagingInv,
           \/ \E a \in AttachmentIds : BeginBuild(a)
           \/ Lstat
           \/ Open
           \/ Read
           \/ Recheck
           \/ Unlink
           \/ Refuse
    PROVE  StagingInv'
<1> USE StagingAssumption, StoreAssumption, TaskKinds
    DEF StagingInv, At, GoTo, Finish, NoTask, Task, storeVars, files, control, history
<1>1. CASE \E a \in AttachmentIds : BeginBuild(a)
  <2> USE <1>1 DEF BeginBuild
  <2>1. StagingTypeOK'
    BY StoreKeepsTypes DEF StagingTypeOK, Steps, Handed, NoData, TaskAgrees
  <2>2. EntriesAgree'
    BY DEF StagingTypeOK, EntriesAgree
  <2>3. TaskAgrees'
    BY DEF StagingTypeOK, TaskAgrees, EntriesAgree
  <2>4. StraysAreExplained'
    BY DEF StagingTypeOK, StraysAreExplained
  <2>5. RowsHaveFiles'
    BY DEF StagingTypeOK, RowsHaveFiles
  <2>6. HandsOutStored'
    BY DEF StagingTypeOK, HandsOutStored
  <2> QED BY <2>1, <2>2, <2>3, <2>4, <2>5, <2>6
<1>2. CASE Lstat
  <2> USE <1>2 DEF Lstat
  <2>1. StagingTypeOK'
    BY StoreKeepsTypes DEF StagingTypeOK, Steps, Handed, NoData, TaskAgrees
  <2>2. EntriesAgree'
    BY DEF StagingTypeOK, EntriesAgree
  <2>3. TaskAgrees'
    BY DEF StagingTypeOK, TaskAgrees, EntriesAgree
  <2>4. StraysAreExplained'
    BY DEF StagingTypeOK, StraysAreExplained
  <2>5. RowsHaveFiles'
    BY DEF StagingTypeOK, RowsHaveFiles
  <2>6. HandsOutStored'
    BY DEF StagingTypeOK, HandsOutStored
  <2> QED BY <2>1, <2>2, <2>3, <2>4, <2>5, <2>6
<1>3. CASE Open
  <2> USE <1>3 DEF Open
  <2>1. StagingTypeOK'
    BY StoreKeepsTypes DEF StagingTypeOK, Steps, Handed, NoData, TaskAgrees
  <2>2. EntriesAgree'
    BY DEF StagingTypeOK, EntriesAgree
  <2>3. TaskAgrees'
    BY DEF StagingTypeOK, TaskAgrees, EntriesAgree
  <2>4. StraysAreExplained'
    BY DEF StagingTypeOK, StraysAreExplained
  <2>5. RowsHaveFiles'
    BY DEF StagingTypeOK, RowsHaveFiles
  <2>6. HandsOutStored'
    BY DEF StagingTypeOK, HandsOutStored
  <2> QED BY <2>1, <2>2, <2>3, <2>4, <2>5, <2>6
<1>4. CASE Read
  <2> USE <1>4 DEF Read, Verified, Expected
  <2>1. StagingTypeOK'
    BY StoreKeepsTypes DEF StagingTypeOK, Steps, Handed, NoData, TaskAgrees
  <2>2. EntriesAgree'
    BY DEF StagingTypeOK, EntriesAgree
  <2>3. TaskAgrees'
    BY DEF StagingTypeOK, TaskAgrees, EntriesAgree
  <2>4. StraysAreExplained'
    BY DEF StagingTypeOK, StraysAreExplained
  <2>5. RowsHaveFiles'
    BY DEF StagingTypeOK, RowsHaveFiles
  <2>6. HandsOutStored'
    BY DEF StagingTypeOK, HandsOutStored, TaskAgrees
  <2> QED BY <2>1, <2>2, <2>3, <2>4, <2>5, <2>6
<1>5. CASE Recheck
  <2> USE <1>5 DEF Recheck
  <2>1. StagingTypeOK'
    BY StoreKeepsTypes DEF StagingTypeOK, Steps, Handed, NoData, TaskAgrees
  <2>2. EntriesAgree'
    BY DEF StagingTypeOK, EntriesAgree
  <2>3. TaskAgrees'
    BY DEF StagingTypeOK, TaskAgrees, EntriesAgree
  <2>4. StraysAreExplained'
    BY DEF StagingTypeOK, StraysAreExplained
  <2>5. RowsHaveFiles'
    BY DEF StagingTypeOK, RowsHaveFiles
  <2>6. HandsOutStored'
    BY DEF StagingTypeOK, HandsOutStored
  <2> QED BY <2>1, <2>2, <2>3, <2>4, <2>5, <2>6
<1>6. CASE Unlink
  <2> USE <1>6 DEF Unlink
  <2>1. StagingTypeOK'
    BY StoreKeepsTypes DEF StagingTypeOK, Steps, Handed, NoData, TaskAgrees
  <2>2. EntriesAgree'
    BY DEF StagingTypeOK, EntriesAgree
  <2>3. TaskAgrees'
    BY DEF StagingTypeOK, TaskAgrees, EntriesAgree
  <2>4. StraysAreExplained'
    BY DEF StagingTypeOK, StraysAreExplained
  <2>5. RowsHaveFiles'
    BY DEF StagingTypeOK, RowsHaveFiles, TaskAgrees
  <2>6. HandsOutStored'
    BY DEF StagingTypeOK, HandsOutStored
  <2> QED BY <2>1, <2>2, <2>3, <2>4, <2>5, <2>6
<1>7. CASE Refuse
  <2> USE <1>7 DEF Refuse, BreakOff
  <2>1. StagingTypeOK'
    BY StoreKeepsTypes DEF StagingTypeOK, Steps, Handed, NoData, TaskAgrees
  <2>2. EntriesAgree'
    BY DEF StagingTypeOK, EntriesAgree
  <2>3. TaskAgrees'
    BY DEF StagingTypeOK, TaskAgrees, EntriesAgree
  <2>4. StraysAreExplained'
    BY DEF StagingTypeOK, StraysAreExplained
  <2>5. RowsHaveFiles'
    BY DEF StagingTypeOK, RowsHaveFiles
  <2>6. HandsOutStored'
    BY DEF StagingTypeOK, HandsOutStored
  <2> QED BY <2>1, <2>2, <2>3, <2>4, <2>5, <2>6
<1> QED BY <1>1, <1>2, <1>3, <1>4, <1>5, <1>6, <1>7

\* Other requests, changes from outside, the crash and the restart.
LEMMA OthersHold ==
    ASSUME StagingInv,
           \/ \E k \in Keys, d \in DraftIds, h \in Hashes : CreateDraft(k, d, h)
           \/ \E a \in AttachmentIds : Outside(a)
           \/ Crash
           \/ Restart
    PROVE  StagingInv'
<1> USE StagingAssumption, StoreAssumption, TaskKinds
    DEF StagingInv, At, GoTo, Finish, NoTask, Task, storeVars, files, control, history
<1>1. CASE \E k \in Keys, d \in DraftIds, h \in Hashes : CreateDraft(k, d, h)
  <2> USE <1>1 DEF CreateDraft, Create
  <2>1. StagingTypeOK'
    BY StoreKeepsTypes DEF StagingTypeOK, Steps, Handed, NoData, TaskAgrees
  <2>2. EntriesAgree'
    BY DEF StagingTypeOK, EntriesAgree
  <2>3. TaskAgrees'
    BY DEF StagingTypeOK, TaskAgrees, EntriesAgree
  <2>4. StraysAreExplained'
    BY DEF StagingTypeOK, StraysAreExplained
  <2>5. RowsHaveFiles'
    BY DEF StagingTypeOK, RowsHaveFiles
  <2>6. HandsOutStored'
    BY DEF StagingTypeOK, HandsOutStored
  <2> QED BY <2>1, <2>2, <2>3, <2>4, <2>5, <2>6
<1>2. CASE \E a \in AttachmentIds : Outside(a)
  <2> USE <1>2 DEF Outside
  <2>1. StagingTypeOK'
    BY StoreKeepsTypes DEF StagingTypeOK, Steps, Handed, NoData, TaskAgrees
  <2>2. EntriesAgree'
    BY DEF StagingTypeOK, EntriesAgree
  <2>3. TaskAgrees'
    BY DEF StagingTypeOK, TaskAgrees, EntriesAgree
  <2>4. StraysAreExplained'
    BY DEF StagingTypeOK, StraysAreExplained
  <2>5. RowsHaveFiles'
    <3>1. PICK b \in AttachmentIds : Outside(b)
      BY <1>2
    <3>2. \A a \in attachments \ disturbed' :
             a # b /\ dir[a] \in Inodes /\ dir[a] # dir[b] /\ data[dir[a]] # None
      BY <3>1 DEF StagingTypeOK, StoreTypeOK, RowsHaveFiles, EntriesAgree
    <3>3. \A a \in attachments \ disturbed' :
             a \notin disturbed /\ dir'[a] = dir[a] /\ data'[dir[a]] = data[dir[a]]
      BY <3>1, <3>2 DEF StagingTypeOK, StoreTypeOK
    <3> QED BY <3>1, <3>3, FilesKept
  <2>6. HandsOutStored'
    BY DEF StagingTypeOK, HandsOutStored
  <2> QED BY <2>1, <2>2, <2>3, <2>4, <2>5, <2>6
<1>3. CASE Crash
  <2> USE <1>3 DEF Crash
  <2>1. StagingTypeOK'
    BY StoreKeepsTypes DEF StagingTypeOK, Steps, Handed, NoData, TaskAgrees
  <2>2. EntriesAgree'
    BY DEF StagingTypeOK, EntriesAgree
  <2>3. TaskAgrees'
    BY DEF StagingTypeOK, TaskAgrees, EntriesAgree
  <2>4. StraysAreExplained'
    BY DEF StagingTypeOK, StraysAreExplained
  <2>5. RowsHaveFiles'
    BY DEF StagingTypeOK, RowsHaveFiles
  <2>6. HandsOutStored'
    BY DEF StagingTypeOK, HandsOutStored
  <2> QED BY <2>1, <2>2, <2>3, <2>4, <2>5, <2>6
<1>4. CASE Restart
  <2> USE <1>4 DEF Restart
  <2>1. StagingTypeOK'
    BY StoreKeepsTypes DEF StagingTypeOK, Steps, Handed, NoData, TaskAgrees
  <2>2. EntriesAgree'
    BY DEF StagingTypeOK, EntriesAgree
  <2>3. TaskAgrees'
    BY DEF StagingTypeOK, TaskAgrees, EntriesAgree
  <2>4. StraysAreExplained'
    BY DEF StagingTypeOK, StraysAreExplained
  <2>5. RowsHaveFiles'
    BY DEF StagingTypeOK, RowsHaveFiles
  <2>6. HandsOutStored'
    BY DEF StagingTypeOK, HandsOutStored
  <2> QED BY <2>1, <2>2, <2>3, <2>4, <2>5, <2>6
<1> QED BY <1>1, <1>2, <1>3, <1>4

\* The inductive form is kept by every step.
LEMMA StagingStep == StagingInv /\ [StagingNext]_vars => StagingInv'
<1> SUFFICES ASSUME StagingInv, [StagingNext]_vars
             PROVE  StagingInv'
  OBVIOUS
<1>1. CASE StagingNext
  BY <1>1, IngestHolds, ReadingHolds, OthersHold DEF StagingNext
<1>2. CASE UNCHANGED vars
  BY <1>2
     DEF vars, storeVars, files, control, history, StagingInv, StagingTypeOK, StoreTypeOK,
         EntriesAgree, TaskAgrees, StraysAreExplained, RowsHaveFiles, HandsOutStored
<1> QED BY <1>1, <1>2

\* It holds in an empty directory, with empty tables.
LEMMA StagingStart == StagingInit => StagingInv
<1> SUFFICES ASSUME StagingInit
             PROVE  StagingInv
  OBVIOUS
<1> USE StagingAssumption DEF StagingInit
<1>1. StagingTypeOK
  BY TypeInit DEF StagingTypeOK, Steps
<1>2. EntriesAgree /\ TaskAgrees /\ StraysAreExplained
  BY DEF EntriesAgree, TaskAgrees, StraysAreExplained, NoTask
<1>3. RowsHaveFiles /\ HandsOutStored
  BY DEF RowsHaveFiles, HandsOutStored, StoreInit
<1> QED BY <1>1, <1>2, <1>3 DEF StagingInv

\* Every reachable state satisfies it.
LEMMA StagingInvariant == StagingSpec => []StagingInv
BY StagingStart, StagingStep, PTL DEF StagingSpec

-----------------------------------------------------------------------------

\* Tables, directory, files and the task at work stay in their sets.
THEOREM StagingTypeCorrect == StagingSpec => []StagingTypeOK
<1>1. StagingInv => StagingTypeOK
  BY DEF StagingInv
<1> QED BY <1>1, StagingInvariant, PTL

\* save_attachment comes after the last write, and no failure removes the file of
\* a row.
THEOREM RowsKeepFiles == StagingSpec => []RowsHaveFiles
<1>1. StagingInv => RowsHaveFiles
  BY DEF StagingInv
<1> QED BY <1>1, StagingInvariant, PTL

\* ingest and mail_add_attachment clean up after every error they can see.
THEOREM StrayFilesAreExplained == StagingSpec => []FilesHaveRows
<1>1. StagingInv => FilesHaveRows
  BY DEF StagingInv, StagingTypeOK, StraysAreExplained, FilesHaveRows, NoTask
<1> QED BY <1>1, StagingInvariant, PTL

\* open_for_draft hands out the bytes it has hashed, and no others.
THEOREM DraftsGetStoredBytes == StagingSpec => []HandsOutStored
<1>1. StagingInv => HandsOutStored
  BY DEF StagingInv
<1> QED BY <1>1, StagingInvariant, PTL
=============================================================================
