-------------------------- MODULE AttachmentStaging --------------------------
(***************************************************************************)
(* Attachments: the staging directory (staging.py), mail_add_attachment    *)
(* (backend.py), which writes a file and then its row, and the reading of  *)
(* a file when a draft is built.  A file is an entry of the directory that *)
(* leads to an inode; a content stands for its sha256, Partial for what a  *)
(* write that is not finished has left, Damaged for any other content.     *)
(*                                                                         *)
(* The write lock admits one task at a time.  One system call, one store   *)
(* transaction is one step; between two of them the directory may be       *)
(* changed from outside, as a restore or a repair would, and the process   *)
(* may crash.                                                              *)
(***************************************************************************)
EXTENDS DraftStore, FiniteSets

CONSTANTS
    Contents,     \* what clients send
    Partial,
    Damaged,
    Inodes,       \* bound on the files ever created
    MaxOutside,   \* bound on changes from outside
    MaxCrash

ASSUME StagingAssumption ==
    /\ None \notin Contents \cup Inodes
    /\ {Partial, Damaged} \cap (Contents \cup {None}) = {}
    /\ MaxOutside \in Nat /\ MaxCrash \in Nat

VARIABLES
    dir,        \* the directory: per attachment its inode, or None
    data,       \* per inode its content, None before it is created
    digest,     \* sha256 in the rows of the table attachments
    step,       \* the next system call or transaction of the task
    task,       \* the task at work
    seen,       \* the inode lstat returned
    opened,     \* the inode behind the descriptor
    handed,     \* history: what a draft was last built with
    disturbed,  \* history: attachments whose file was changed from outside
    broken,     \* history: attachments whose ingest broke off
    outside,    \* number of changes from outside
    crashes

files == <<dir, data>>
control == <<step, task, seen, opened>>
history == <<handed, disturbed, broken, outside, crashes>>
vars == <<storeVars, files, digest, control, history>>

-----------------------------------------------------------------------------

Task == [op : {"add"}, att : AttachmentIds, key : Keys, content : Contents]
          \cup [op : {"build"}, att : AttachmentIds, key : {None}, content : {None}]
NoTask == [op |-> "none", att |-> None, key |-> None, content |-> None]

Steps == {"idle", "down", "create", "write", "save", "lstat", "open", "read", "recheck", "unlink"}

Handed == [att : AttachmentIds, data : Contents \cup {Partial, Damaged}]
NoData == [att |-> None, data |-> None]

StagingInit ==
    /\ StoreInit
    /\ dir = [a \in AttachmentIds |-> None]
    /\ data = [i \in Inodes |-> None]
    /\ digest = [a \in AttachmentIds |-> None]
    /\ step = "idle" /\ task = NoTask
    /\ seen = None /\ opened = None
    /\ handed = NoData
    /\ disturbed = {} /\ broken = {}
    /\ outside = 0 /\ crashes = 0

At(s) == step = s

GoTo(s) == step' = s /\ UNCHANGED <<task, seen, opened>>

Finish ==
    /\ step' = "idle" /\ task' = NoTask
    /\ seen' = None /\ opened' = None

\* A task that breaks off leaves the file it has created, if any.
BreakOff ==
    /\ Finish
    /\ broken' = IF task.op = "add" /\ dir[task.att] # None
                 THEN broken \cup {task.att}
                 ELSE broken

-----------------------------------------------------------------------------
(* mail_add_attachment *)

\* uuid4: an identity that was never used.
Fresh(a) == dir[a] = None /\ a \notin attachments \cup disturbed \cup broken

BeginAdd(k, c) ==
    /\ At("idle")
    /\ KeyFree(k)
    /\ \E a \in AttachmentIds :
          /\ Fresh(a)
          /\ task' = [op |-> "add", att |-> a, key |-> k, content |-> c]
    /\ step' = "create"
    /\ UNCHANGED <<storeVars, files, digest, seen, opened, history>>

\* Mutant of CreateFile: the file is not tied to a task that goes on.
CreateUnassigned ==
    /\ At("create")
    /\ \E i \in Inodes :
          /\ data[i] = None
          /\ dir' = [dir EXCEPT ![task.att] = i]
          /\ data' = [data EXCEPT ![i] = Partial]
          /\ opened' = i
    /\ step' = "write" /\ task' = NoTask /\ UNCHANGED seen
    /\ UNCHANGED <<storeVars, digest, history>>

\* O_CREAT | O_EXCL.
CreateFile ==
    /\ At("create")
    /\ \/ \E i \in Inodes :
             /\ data[i] = None
             /\ dir' = [dir EXCEPT ![task.att] = i]
             /\ data' = [data EXCEPT ![i] = Partial]
             /\ opened' = i
             /\ step' = "write" /\ UNCHANGED <<task, seen>>
       \/ Finish /\ UNCHANGED files
    /\ UNCHANGED <<storeVars, digest, history>>

\* Mutant of WriteFile: one write, which may be short.
WriteOnce ==
    /\ At("write")
    /\ \E written \in {task.content, data[opened]} :
          data' = [data EXCEPT ![opened] = written]
    /\ step' = "save" /\ opened' = None
    /\ UNCHANGED <<storeVars, dir, digest, task, seen, history>>

\* The loop of write calls, on the descriptor; after an error the file that was
\* created is removed if it is still there, and an error of that is suppressed.
\* What damage from outside and the loop leave together may be either.
WriteFile ==
    /\ At("write")
    /\ \/ /\ \E written \in {task.content, data[opened]} \ {Partial} :
                data' = [data EXCEPT ![opened] = written]
          /\ step' = "save" /\ opened' = None
          /\ UNCHANGED <<dir, task, seen, broken>>
       \/ /\ dir[task.att] = opened
          /\ dir' = [dir EXCEPT ![task.att] = None]
          /\ Finish
          /\ UNCHANGED <<data, broken>>
       \/ BreakOff /\ UNCHANGED files
    /\ UNCHANGED <<storeVars, digest, handed, disturbed, outside, crashes>>

\* The hash is that of the bytes received, not of the file.
SaveRow ==
    /\ At("save")
    /\ SaveAttachment(task.att, task.key)
    /\ digest' = [digest EXCEPT ![task.att] = task.content]
    /\ Finish
    /\ UNCHANGED <<files, history>>

\* Mutant of SaveFails: the error is passed on and the file stays.
SaveFailsOnly ==
    /\ At("save")
    /\ Finish
    /\ UNCHANGED <<storeVars, files, digest, history>>

\* The transaction fails, or the store is closed: AttachmentStaging.remove.
SaveFails ==
    /\ At("save")
    /\ GoTo("lstat")
    /\ UNCHANGED <<storeVars, files, digest, history>>

-----------------------------------------------------------------------------
(* Reading a file: _verified_attachment, for a draft or before a removal *)

\* A draft names the attachment; its row was read before.
BeginBuild(a) ==
    /\ At("idle")
    /\ a \in attachments
    /\ task' = [op |-> "build", att |-> a, key |-> None, content |-> None]
    /\ step' = "lstat"
    /\ UNCHANGED <<storeVars, files, digest, seen, opened, history>>

Lstat ==
    /\ At("lstat") /\ dir[task.att] # None
    /\ seen' = dir[task.att]
    /\ step' = "open"
    /\ UNCHANGED <<storeVars, files, digest, task, opened, history>>

\* fstat after open: the file is the one lstat saw.
Open ==
    /\ At("open") /\ dir[task.att] = seen
    /\ opened' = seen
    /\ step' = "read"
    /\ UNCHANGED <<storeVars, files, digest, task, seen, history>>

\* The hash the file must have: that of the row, or of the AttachmentRef ingest
\* has just returned.
Expected == IF task.op = "add" THEN task.content ELSE digest[task.att]

\* Mutant of Verified: whatever is in the file is used.
AnyData == TRUE

Verified == data[opened] = Expected

Read ==
    /\ At("read") /\ Verified
    /\ IF task.op = "add"
       THEN GoTo("recheck") /\ UNCHANGED handed
       ELSE Finish /\ handed' = [att |-> task.att, data |-> data[opened]]
    /\ UNCHANGED <<storeVars, files, digest, disturbed, broken, outside, crashes>>

\* remove: lstat once more, then unlink.
Recheck ==
    /\ At("recheck") /\ dir[task.att] = seen
    /\ GoTo("unlink")
    /\ UNCHANGED <<storeVars, files, digest, history>>

Unlink ==
    /\ At("unlink")
    /\ dir' = [dir EXCEPT ![task.att] = None]
    /\ Finish
    /\ UNCHANGED <<storeVars, data, digest, history>>

\* Any of these calls fails, or finds what it must not find.
Refuse ==
    /\ step \in {"lstat", "open", "read", "recheck", "unlink"}
    /\ BreakOff
    /\ UNCHANGED <<storeVars, files, digest, handed, disturbed, outside, crashes>>

-----------------------------------------------------------------------------
(* Others *)

\* A draft takes a key.
CreateDraft(k, d, h) ==
    /\ At("idle")
    /\ Create(d, 1, h, "new", k)
    /\ UNCHANGED <<files, digest, control, history>>

\* From outside: a file is damaged in place, replaced or removed.
Outside(a) ==
    /\ outside < MaxOutside
    /\ dir[a] # None
    /\ outside' = outside + 1
    /\ disturbed' = disturbed \cup {a}
    /\ \/ data' = [data EXCEPT ![dir[a]] = Damaged] /\ UNCHANGED dir
       \/ \E i \in Inodes, c \in Contents \cup {Damaged} :
             /\ data[i] = None
             /\ dir' = [dir EXCEPT ![a] = i]
             /\ data' = [data EXCEPT ![i] = c]
       \/ dir' = [dir EXCEPT ![a] = None] /\ UNCHANGED data
    /\ UNCHANGED <<storeVars, digest, control, handed, broken, crashes>>

\* Nothing sweeps the staging directory at the restart.
Crash ==
    /\ step # "down" /\ crashes < MaxCrash
    /\ crashes' = crashes + 1
    /\ step' = "down" /\ task' = NoTask /\ seen' = None /\ opened' = None
    /\ broken' = IF task.op = "add" /\ dir[task.att] # None
                 THEN broken \cup {task.att}
                 ELSE broken
    /\ UNCHANGED <<storeVars, files, digest, handed, disturbed, outside>>

Restart ==
    /\ At("down")
    /\ GoTo("idle")
    /\ UNCHANGED <<storeVars, files, digest, history>>

-----------------------------------------------------------------------------

StagingNext ==
    \/ \E k \in Keys, c \in Contents : BeginAdd(k, c)
    \/ CreateFile \/ WriteFile \/ SaveRow \/ SaveFails
    \/ \E a \in AttachmentIds : BeginBuild(a) \/ Outside(a)
    \/ Lstat \/ Open \/ Read \/ Recheck \/ Unlink \/ Refuse
    \/ \E k \in Keys, d \in DraftIds, h \in Hashes : CreateDraft(k, d, h)
    \/ Crash \/ Restart

StagingSpec == StagingInit /\ [][StagingNext]_vars

-----------------------------------------------------------------------------
(* Properties *)

StagingTypeOK ==
    /\ StoreTypeOK
    /\ dir \in [AttachmentIds -> Inodes \cup {None}]
    /\ data \in [Inodes -> Contents \cup {None, Partial, Damaged}]
    /\ digest \in [AttachmentIds -> Contents \cup {None}]
    /\ step \in Steps
    /\ task \in Task \cup {NoTask}
    /\ task = NoTask <=> step \in {"idle", "down"}
    /\ seen \in Inodes \cup {None} /\ opened \in Inodes \cup {None}
    /\ handed \in Handed \cup {NoData}
    /\ disturbed \in SUBSET AttachmentIds /\ broken \in SUBSET AttachmentIds
    /\ outside \in 0..MaxOutside /\ crashes \in 0..MaxCrash

\* A row always has its file, whole and with the content of the row, unless it
\* was changed from outside: a client that was given an attachment_id can use it.
RowsHaveFiles ==
    \A a \in attachments \ disturbed :
        dir[a] # None /\ data[dir[a]] = digest[a]

\* Between tasks there is no file without a row, except where an ingest broke
\* off in a crash or could not remove its file, or the file was changed.
FilesHaveRows ==
    step = "idle" =>
        \A a \in AttachmentIds \ (disturbed \cup broken) : dir[a] # None => a \in attachments

\* A draft is built only with the bytes the client sent for that attachment,
\* whatever happened to the file since, also between its check and its reading.
HandsOutStored ==
    handed # NoData => handed.att \in attachments /\ handed.data = digest[handed.att]
=============================================================================
