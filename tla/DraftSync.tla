----------------------------- MODULE DraftSync -----------------------------
(***************************************************************************)
(* How a draft reaches the server: mail_create_draft, mail_update_draft    *)
(* and mail_get_draft_summary of GatewayBackend (backend.py) with the IMAP *)
(* work of DraftWriter (draft_writer.py), over the draft store and the     *)
(* drafts folder.                                                          *)
(*                                                                         *)
(* The backend's write lock admits one such job at a time, and a job is    *)
(* not cancelled when the server stops waiting for it, so the control      *)
(* state is that of one job.  One IMAP command, one store transaction is   *)
(* one step; between two of them the other mail client, the mail server    *)
(* and a crash of the gateway may act.  Every lookup of a draft is the     *)
(* same three commands (SELECT, SEARCH, one FETCH per hit), so control is  *)
(* a phase, which says what the lookup is for, and a step within it.       *)
(***************************************************************************)
EXTENDS DraftStore, DraftsFolder

CONSTANTS
    MaxCrash,    \* bound on crashes
    MaxRefused   \* bound on FETCHes the server refuses

ASSUME SyncAssumption == MaxCrash \in Nat /\ MaxRefused \in Nat

VARIABLES
    phase,    \* what the gateway is doing
    step,     \* the next command or transaction in that phase
    job,      \* the request and the draft built for it
    hits,     \* UIDs the SEARCH returned and that are still to be fetched
    found,    \* what the FETCHes of this lookup returned: list of _ServerDraft
    sel,      \* UIDVALIDITY the last SELECT returned
    sel0,     \* update_draft: initial_uidvalidity
    prevUid,  \* update_draft: previous.uid
    newUid,   \* UID of the confirmed new revision
    sent,     \* history: messages appended for a key by mail_create_draft
    crashes,  \* number of crashes so far
    refused   \* number of FETCHes the server refused so far

gatewayVars == <<phase, step, job, hits, found, sel, sel0, prevUid, newUid>>
lookupVars == <<hits, found, sel, sel0, prevUid, newUid>>
historyVars == <<sent, crashes, refused>>
vars == <<storeVars, folderVars, gatewayVars, historyVars>>

-----------------------------------------------------------------------------
(* Values *)

SummaryOp == "mail_get_draft_summary"

\* inspect:  DraftWriter.inspect_draft, for an update
\* summary:  DraftWriter.inspect_draft, for a summary
\* look, confirm: the lookups of create_draft before and after its APPEND
\* verify, replace, final: the lookups of update_draft
Lookups == {"look", "confirm", "inspect", "verify", "replace", "final", "summary"}

Phases == Lookups \cup
    {"idle", "down", "boot", "stage", "remove", "record", "failing",
     "conflict_modified", "conflict_duplicate"}

Steps == {"none", "select", "search", "fetch", "append", "store", "expunge",
          "status", "tracking", "update", "bind"}

CreateJob == [op : {CreateOp}, key : Keys, draft : DraftIds, rev : {1}, hash : Hashes]
UpdateJob == [op : {UpdateOp}, key : Keys, draft : DraftIds, rev : Revisions, hash : Hashes]
SummaryJob == [op : {SummaryOp}, key : {None}, draft : DraftIds, rev : {0}, hash : {None}]

Job == CreateJob \cup UpdateJob \cup SummaryJob

NoJob == [op |-> "none", key |-> None, draft |-> None, rev |-> 0, hash |-> None]

ServerDraft == [uid : Uids, rev : 0..MaxRevision, hash : Hashes \cup {Tampered}]

GoTo(p, s) == phase' = p /\ step' = s

At(p, s) == phase = p /\ step = s

\* A lookup whose FETCHes are all done: the code now looks at the matches.
Seen(p) == At(p, "fetch") /\ hits = {}

\* Mutant of Duplicates: one match already counts as several.
AnyMatch == found # {}

Duplicates == found # {} /\ \A m \in found : found # {m}

\* The stored record of the job's draft; expected_hash is its hash.
Record == drafts[job.draft]

\* The job is over: the lock is free, the connection is closed.
Finish ==
    /\ GoTo("idle", "none")
    /\ job' = NoJob
    /\ hits' = {} /\ found' = {}
    /\ sel' = 0 /\ sel0' = 0 /\ prevUid' = 0 /\ newUid' = 0

SyncInit ==
    /\ StoreInit
    /\ FolderInit
    /\ phase = "idle" /\ step = "none"
    /\ job = NoJob
    /\ hits = {} /\ found = {}
    /\ sel = 0 /\ sel0 = 0 /\ prevUid = 0 /\ newUid = 0
    /\ sent = [k \in Keys |-> 0]
    /\ crashes = 0
    /\ refused = 0

-----------------------------------------------------------------------------
(* Requests *)

\* Mutant of BeginCreate: the key is not bound together with the record.
BeginCreateUnbound(k, d, h) ==
    /\ phase = "idle"
    /\ KeyFree(k)
    /\ ~Present(d)
    /\ drafts' = [drafts EXCEPT ![d] =
          [status |-> "new", revision |-> 1, hash |-> h, uid |-> 0, uidvalidity |-> 0]]
    /\ GoTo("stage", "status")
    /\ job' = [op |-> CreateOp, key |-> k, draft |-> d, rev |-> 1, hash |-> h]
    /\ UNCHANGED <<idem, attachments, attIdem, sweep, folderVars, lookupVars, historyVars>>

\* mail_create_draft up to store.create.
BeginCreate(k, d, h) ==
    /\ phase = "idle"
    /\ Create(d, 1, h, "new", k)
    /\ GoTo("stage", "status")
    /\ job' = [op |-> CreateOp, key |-> k, draft |-> d, rev |-> 1, hash |-> h]
    /\ UNCHANGED <<folderVars, lookupVars, historyVars>>

\* mail_update_draft up to its lookups; revision + 1 and the new content are
\* those of _updated_draft.
BeginUpdate(k, d, h) ==
    /\ phase = "idle"
    /\ KeyFree(k)
    /\ drafts[d].status = "synced_to_gmx"
    /\ drafts[d].revision < MaxRevision
    /\ GoTo("inspect", "select")
    /\ job' = [op |-> UpdateOp, key |-> k, draft |-> d,
               rev |-> drafts[d].revision + 1, hash |-> h]
    /\ UNCHANGED <<storeVars, folderVars, lookupVars, historyVars>>

BeginSummary(d) ==
    /\ phase = "idle"
    /\ Present(d)
    /\ GoTo("summary", "select")
    /\ job' = [op |-> SummaryOp, key |-> None, draft |-> d, rev |-> 0, hash |-> None]
    /\ UNCHANGED <<storeVars, folderVars, lookupVars, historyVars>>

\* Mutant of ReplayOutcome: a failed creation is not told from a completed one.
ReplayOutcomeWithoutFailure(k) ==
    LET status == drafts[idem[k].draft].status
    IN  CASE idem[k].op = UpdateOp /\ status = "modified" -> "conflict_modified"
          [] status = "invalidated" -> "conflict_duplicate"
          [] OTHER -> IF idem[k].op = CreateOp THEN "created" ELSE "updated"

\* What a request with a bound key is answered, without a change of state:
\* mail_create_draft's replay and _replay_outcome.
ReplayOutcome(k) ==
    LET status == drafts[idem[k].draft].status
    IN  CASE idem[k].op = CreateOp /\ status = "failed" -> "failed"
          [] idem[k].op = UpdateOp /\ status = "modified" -> "conflict_modified"
          [] status = "invalidated" -> "conflict_duplicate"
          [] OTHER -> IF idem[k].op = CreateOp THEN "created" ELSE "updated"

-----------------------------------------------------------------------------
(* Lookups: _select_drafts and _find_drafts *)

Select ==
    /\ phase \in Lookups \ {"final"} /\ step = "select"
    /\ step' = "search"
    /\ sel' = validity
    /\ sel0' = IF phase = "verify" THEN validity ELSE sel0
    /\ UNCHANGED <<storeVars, folderVars, historyVars, phase, job, hits, found, prevUid, newUid>>

\* SEARCH HEADER, or SEARCH ALL where the provider does not index the header:
\* the messages of other drafts are fetched then, and dropped.
Search ==
    /\ phase \in Lookups /\ step = "search"
    /\ step' = "fetch"
    /\ hits' = CopiesOf(job.draft)
    /\ found' = {}
    /\ UNCHANGED <<storeVars, folderVars, historyVars, phase, job, sel, sel0, prevUid, newUid>>

\* A message that vanished since the SEARCH is skipped, and so is one the server
\* refuses to return.
Fetch(u) ==
    /\ phase \in Lookups /\ step = "fetch"
    /\ u \in hits
    /\ hits' = hits \ {u}
    /\ \/ /\ Live(u)
          /\ found' = found \cup {[uid |-> u, rev |-> box[u].rev, hash |-> box[u].hash]}
          /\ UNCHANGED refused
       \/ ~Live(u) /\ UNCHANGED <<found, refused>>
       \/ /\ Live(u)
          /\ refused < MaxRefused
          /\ refused' = refused + 1
          /\ UNCHANGED found
    /\ UNCHANGED <<storeVars, folderVars, sent, crashes,
                   phase, step, job, sel, sel0, prevUid, newUid>>

-----------------------------------------------------------------------------
(* APPEND *)

NewMessage == [draft |-> job.draft, rev |-> job.rev, hash |-> job.hash, deleted |-> FALSE]

\* The server stores the message; the answer may be lost on the way back.
AppendRevision(next) ==
    /\ AppendMessage(NewMessage)
    /\ sent' = IF job.op = CreateOp /\ sent[job.key] < 2
               THEN [sent EXCEPT ![job.key] = @ + 1] ELSE sent
    /\ GoTo(next, "select") \/ GoTo("failing", "status")
    /\ UNCHANGED <<storeVars, job, lookupVars, crashes, refused>>

-----------------------------------------------------------------------------
(* mail_create_draft *)

Stage ==
    /\ At("stage", "status")
    /\ TransitionStatus(job.draft, "staged")
    /\ GoTo("look", "select")
    /\ UNCHANGED <<folderVars, job, lookupVars, historyVars>>

LookClear ==
    /\ Seen("look") /\ found = {}
    /\ step' = "append"
    /\ UNCHANGED <<storeVars, folderVars, phase, job, lookupVars, historyVars>>

AppendCreated == At("look", "append") /\ AppendRevision("confirm")

\* The identity is taken, or is not unique after the APPEND.
CreateConflict ==
    /\ \/ Seen("look") /\ found # {}
       \/ Seen("confirm") /\ ~(\E m \in found : found = {m} /\ m.rev = job.rev)
    /\ TransitionStatus(job.draft, "invalidated")
    /\ Finish
    /\ UNCHANGED <<folderVars, historyVars>>

ConfirmCreated ==
    /\ Seen("confirm")
    /\ \E m \in found :
          /\ found = {m} /\ m.rev = job.rev
          /\ newUid' = m.uid
    /\ GoTo("record", "tracking")
    /\ UNCHANGED <<storeVars, folderVars, historyVars, job, hits, found, sel, sel0, prevUid>>

TrackCreated ==
    /\ At("record", "tracking")
    /\ SetTracking(job.draft, job.rev, job.hash, newUid, sel)
    /\ GoTo("record", "status")
    /\ UNCHANGED <<folderVars, job, lookupVars, historyVars>>

RecordCreated ==
    /\ At("record", "status")
    /\ TransitionStatus(job.draft, "synced_to_gmx")
    /\ Finish
    /\ UNCHANGED <<folderVars, historyVars>>

-----------------------------------------------------------------------------
(* mail_update_draft *)

\* The matches an update cannot go on with, before it has written anything.
Conflict ==
    /\ Seen("inspect") \/ Seen("verify")
    /\ \/ Duplicates /\ GoTo("conflict_duplicate", "status")
       \/ /\ \E m \in found : found = {m} /\ m.hash # Record.hash
          /\ GoTo("conflict_modified", "status")
    /\ UNCHANGED <<storeVars, folderVars, job, lookupVars, historyVars>>

InSync ==
    /\ Seen("inspect")
    /\ \E m \in found : found = {m} /\ m.hash = Record.hash

InspectInSync ==
    /\ InSync
    /\ GoTo("verify", "select")
    /\ UNCHANGED <<storeVars, folderVars, job, lookupVars, historyVars>>

\* Mutant of VerifyPrevious: the revision of the server draft is not compared.
VerifyAnyRevision ==
    /\ Seen("verify")
    /\ \E m \in found :
          /\ found = {m} /\ m.hash = Record.hash
          /\ prevUid' = m.uid
    /\ step' = "append"
    /\ UNCHANGED <<storeVars, folderVars, historyVars, phase, job, hits, found, sel, sel0, newUid>>

VerifyPrevious ==
    /\ Seen("verify")
    /\ \E m \in found :
          /\ found = {m} /\ m.hash = Record.hash /\ m.rev + 1 = job.rev
          /\ prevUid' = m.uid
    /\ step' = "append"
    /\ UNCHANGED <<storeVars, folderVars, historyVars, phase, job, hits, found, sel, sel0, newUid>>

AppendUpdated == At("verify", "append") /\ AppendRevision("replace")

OldRevision(m) == m.rev + 1 = job.rev /\ m.hash = Record.hash
NewRevision(m) == m.rev = job.rev /\ m.hash = job.hash

\* Mutant of ReplaceFound: the UID of the first lookup survives a new UIDVALIDITY.
ReplaceFoundStaleUid ==
    /\ Seen("replace")
    /\ \E old, new \in found :
          /\ found = {old, new}
          /\ OldRevision(old) /\ NewRevision(new)
          /\ newUid' = new.uid
    /\ GoTo("remove", "store")
    /\ UNCHANGED <<storeVars, folderVars, historyVars, job, hits, found, sel, sel0, prevUid>>

\* Exactly the old and the new revision are there.  previous.uid is still the
\* one of the verifying lookup unless UIDVALIDITY changed since.
ReplaceFound ==
    /\ Seen("replace")
    /\ \E old, new \in found :
          /\ found = {old, new}
          /\ OldRevision(old) /\ NewRevision(new)
          /\ prevUid' = IF sel # sel0 THEN old.uid ELSE prevUid
          /\ newUid' = new.uid
    /\ GoTo("remove", "store")
    /\ UNCHANGED <<storeVars, folderVars, historyVars, job, hits, found, sel, sel0>>

ReplaceConflict ==
    /\ Seen("replace")
    /\ ~(\E old, new \in found :
            found = {old, new} /\ OldRevision(old) /\ NewRevision(new))
    /\ GoTo("conflict_duplicate", "status")
    /\ UNCHANGED <<storeVars, folderVars, job, lookupVars, historyVars>>

\* Mutant of MarkDeleted: every message of the draft is marked.
MarkAllDeleted ==
    /\ At("remove", "store")
    /\ box' = [u \in Uids |-> [box[u] EXCEPT !.deleted = @ \/ u \in CopiesOf(job.draft)]]
    /\ GoTo("remove", "expunge") \/ GoTo("failing", "status")
    /\ UNCHANGED <<storeVars, uidNext, validity, touched, externals, job, lookupVars, historyVars>>

MarkDeleted ==
    /\ At("remove", "store")
    /\ FlagDeleted(prevUid)
    /\ GoTo("remove", "expunge") \/ GoTo("failing", "status")
    /\ UNCHANGED <<storeVars, job, lookupVars, historyVars>>

Expunge ==
    /\ At("remove", "expunge")
    /\ ExpungeDeleted
    /\ GoTo("final", "select") \/ GoTo("failing", "status")
    /\ UNCHANGED <<storeVars, job, lookupVars, historyVars>>

\* The last SELECT; another UIDVALIDITY asks for another lookup.
SelectFinal ==
    /\ At("final", "select")
    /\ sel' = validity
    /\ IF validity = sel THEN GoTo("record", "update") ELSE GoTo("final", "search")
    /\ UNCHANGED <<storeVars, folderVars, historyVars, job, hits, found, sel0, prevUid, newUid>>

\* Mutant of FinalFound: confirmed once more, against initial_uidvalidity.
FinalFoundAgain ==
    /\ Seen("final")
    /\ \E m \in found :
          /\ found = {m} /\ NewRevision(m)
          /\ newUid' = m.uid
    /\ sel' = sel0
    /\ GoTo("final", "select")
    /\ UNCHANGED <<storeVars, folderVars, historyVars, job, hits, found, sel0, prevUid>>

FinalFound ==
    /\ Seen("final")
    /\ \E m \in found :
          /\ found = {m} /\ NewRevision(m)
          /\ newUid' = m.uid
    /\ GoTo("record", "update")
    /\ UNCHANGED <<storeVars, folderVars, historyVars, job, hits, found, sel, sel0, prevUid>>

FinalConflict ==
    /\ Seen("final")
    /\ ~(\E m \in found : found = {m} /\ NewRevision(m))
    /\ GoTo("conflict_duplicate", "status")
    /\ UNCHANGED <<storeVars, folderVars, job, lookupVars, historyVars>>

\* Mutant of RecordUpdated: the tracking is that of the removed message.
RecordUpdatedOldUid ==
    /\ At("record", "update")
    /\ Update(job.draft, job.rev, job.hash, "synced_to_gmx", prevUid, sel, job.key)
    /\ Finish
    /\ UNCHANGED <<folderVars, historyVars>>

\* Mutant of RecordUpdated: the new revision is stored without its key.
RecordUpdatedUnbound ==
    /\ At("record", "update")
    /\ UpdateTracking(job.draft, job.rev, job.hash, newUid, sel)
    /\ Finish
    /\ UNCHANGED <<folderVars, historyVars>>

RecordUpdated ==
    /\ At("record", "update")
    /\ Update(job.draft, job.rev, job.hash, "synced_to_gmx", newUid, sel, job.key)
    /\ Finish
    /\ UNCHANGED <<folderVars, historyVars>>

\* _sync_conflict: first the status, then, in a transaction of its own, the key.
ConflictPhase == phase \in {"conflict_modified", "conflict_duplicate"}

\* Mutant of RecordConflict: the outcome is written where the status belongs.
RecordOutcome ==
    /\ ConflictPhase /\ step = "status"
    /\ drafts' = [drafts EXCEPT ![job.draft].status = phase]
    /\ step' = "bind"
    /\ UNCHANGED <<idem, attachments, attIdem, sweep, folderVars, phase, job, lookupVars, historyVars>>

RecordConflict ==
    /\ ConflictPhase /\ step = "status"
    /\ TransitionStatus(job.draft,
          IF phase = "conflict_modified" THEN "modified" ELSE "invalidated")
    /\ step' = "bind"
    /\ UNCHANGED <<folderVars, phase, job, lookupVars, historyVars>>

BindConflict ==
    /\ ConflictPhase /\ step = "bind"
    /\ BindIdempotency(job.key, job.draft, UpdateOp)
    /\ Finish
    /\ UNCHANGED <<folderVars, historyVars>>

-----------------------------------------------------------------------------
(* mail_get_draft_summary *)

\* Several copies, or none: the request is answered with an error.
SummaryRefused ==
    /\ Seen("summary")
    /\ \/ found = {} /\ UNCHANGED storeVars
       \/ /\ Duplicates
          /\ IF Record.status = "synced_to_gmx"
             THEN TransitionStatus(job.draft, "invalidated")
             ELSE UNCHANGED storeVars
    /\ Finish
    /\ UNCHANGED <<folderVars, historyVars>>

SummaryStatus ==
    /\ Seen("summary")
    /\ \E m \in found :
          /\ found = {m}
          /\ newUid' = m.uid
          /\ IF m.hash # Record.hash /\ Record.status = "synced_to_gmx"
             THEN TransitionStatus(job.draft, "modified")
             ELSE UNCHANGED storeVars
    /\ step' = "tracking"
    /\ UNCHANGED <<folderVars, historyVars, phase, job, hits, found, sel, sel0, prevUid>>

\* The tracking is stored and the summary answered.  Its attachments are looked up
\* afterwards: a failure there changes the answer only, which is no part of this state.
SummaryTracking ==
    /\ At("summary", "tracking")
    /\ SetTracking(job.draft, Record.revision, Record.hash, newUid, sel)
    /\ Finish
    /\ UNCHANGED <<folderVars, historyVars>>

-----------------------------------------------------------------------------
(* Failures *)

\* No server draft (NOT_FOUND), or one that is not the revision before the job's
\* (CONFLICT): raised by inspect_draft and update_draft before anything is written.
Unusable ==
    /\ Seen("inspect") \/ Seen("verify")
    /\ \/ found = {}
       \/ \E m \in found :
             found = {m} /\ m.hash = Record.hash /\ phase = "verify" /\ m.rev + 1 # job.rev
    /\ GoTo("failing", "status")
    /\ UNCHANGED <<storeVars, folderVars, job, lookupVars, historyVars>>

\* An IMAP command fails without an effect (refused, timed out, connection lost),
\* the message in sync cannot be read back (_snapshot), or an attachment the update
\* names is unknown or cannot be read.
Fail ==
    /\ \/ phase \in Lookups /\ step \in {"select", "search", "append"}
       \/ phase \in Lookups /\ step = "fetch" /\ hits # {}
       \/ phase = "remove"
       \/ InSync
    /\ GoTo("failing", "status")
    /\ UNCHANGED <<storeVars, folderVars, job, lookupVars, historyVars>>

\* Mutant of FailJob: the failure is written without a look at the status.
FailJobUnchecked ==
    /\ At("failing", "status")
    /\ drafts' = [drafts EXCEPT ![job.draft].status = "failed"]
    /\ Finish
    /\ UNCHANGED <<idem, attachments, attIdem, sweep, folderVars, historyVars>>

\* The except clauses: _fail_if_incomplete and _fail_if_synced; a summary has none.
FailJob ==
    /\ At("failing", "status")
    /\ IF \/ job.op = CreateOp /\ Record.status \in Incomplete
          \/ job.op = UpdateOp /\ Record.status = "synced_to_gmx"
       THEN TransitionStatus(job.draft, "failed")
       ELSE UNCHANGED storeVars
    /\ Finish
    /\ UNCHANGED <<folderVars, historyVars>>

\* The process ends; the stores are files and the folder is not ours.
Crash ==
    /\ phase # "down"
    /\ crashes < MaxCrash
    /\ crashes' = crashes + 1
    /\ GoTo("down", "none")
    /\ job' = NoJob
    /\ hits' = {} /\ found' = {}
    /\ sel' = 0 /\ sel0' = 0 /\ prevUid' = 0 /\ newUid' = 0
    /\ IF sweep = {} THEN UNCHANGED storeVars ELSE AbandonSweep
    /\ UNCHANGED <<folderVars, sent, refused>>

\* run_gateway: fail_incomplete before the first request is served.
Boot ==
    /\ phase = "down"
    /\ ListIncomplete
    /\ GoTo("boot", "none")
    /\ UNCHANGED <<folderVars, job, lookupVars, historyVars>>

BootFail(d) ==
    /\ phase = "boot"
    /\ FailListed(d)
    /\ UNCHANGED <<folderVars, gatewayVars, historyVars>>

\* Mutant of Serve: requests are served while records are still listed.
ServeEarly ==
    /\ phase = "boot"
    /\ GoTo("idle", "none")
    /\ UNCHANGED <<storeVars, folderVars, job, lookupVars, historyVars>>

Serve ==
    /\ phase = "boot" /\ sweep = {}
    /\ GoTo("idle", "none")
    /\ UNCHANGED <<storeVars, folderVars, job, lookupVars, historyVars>>

-----------------------------------------------------------------------------
(* The other client and the server *)

OtherClient == ExternalStep /\ UNCHANGED <<storeVars, gatewayVars, historyVars>>

\* A server keeps the UIDs of a selected folder; a new numbering shows at the
\* next SELECT.  APPEND and SELECT themselves use no UID.
ServerRenumbers ==
    /\ step \notin {"search", "fetch", "store", "expunge"}
    /\ Renumber
    /\ UNCHANGED <<storeVars, gatewayVars, historyVars>>

-----------------------------------------------------------------------------

Request ==
    \/ \E k \in Keys, d \in DraftIds, h \in Hashes : BeginCreate(k, d, h) \/ BeginUpdate(k, d, h)
    \/ \E d \in DraftIds : BeginSummary(d)

Lookup == Select \/ Search \/ \E u \in Uids : Fetch(u)

CreateStep ==
    \/ Stage \/ LookClear \/ AppendCreated \/ CreateConflict
    \/ ConfirmCreated \/ TrackCreated \/ RecordCreated

UpdateStep ==
    \/ Conflict \/ InspectInSync \/ VerifyPrevious \/ AppendUpdated
    \/ ReplaceFound \/ ReplaceConflict \/ MarkDeleted \/ Expunge
    \/ SelectFinal \/ FinalFound \/ FinalConflict \/ RecordUpdated
    \/ RecordConflict \/ BindConflict

SummaryStep == SummaryRefused \/ SummaryStatus \/ SummaryTracking

\* A job always moves: every IMAP command returns or times out.
JobStep == Lookup \/ CreateStep \/ UpdateStep \/ SummaryStep \/ Unusable \/ Fail \/ FailJob

\* systemd restarts the gateway after a crash.
BootStep == Boot \/ (\E d \in DraftIds : BootFail(d)) \/ Serve

SyncNext == Request \/ JobStep \/ BootStep \/ Crash \/ OtherClient \/ ServerRenumbers

SyncSpec == SyncInit /\ [][SyncNext]_vars

FairSyncSpec == SyncSpec /\ WF_vars(JobStep) /\ WF_vars(BootStep)

-----------------------------------------------------------------------------
(* Properties *)

GatewayTypeOK ==
    /\ phase \in Phases
    /\ step \in Steps
    /\ job \in Job \cup {NoJob}
    /\ hits \in SUBSET Uids
    /\ found \in SUBSET ServerDraft
    /\ sel \in Validities \cup {0}
    /\ sel0 \in Validities \cup {0}
    /\ prevUid \in Uids \cup {0}
    /\ newUid \in Uids \cup {0}

HistoryTypeOK ==
    /\ sent \in [Keys -> 0..2]
    /\ crashes \in 0..MaxCrash
    /\ refused \in 0..MaxRefused

SyncTypeOK == StoreTypeOK /\ FolderTypeOK /\ GatewayTypeOK /\ HistoryTypeOK

\* A key never puts a second message on the server through mail_create_draft,
\* whatever answer was lost and wherever the gateway crashed: the key is in the
\* store before the APPEND.
OneMessagePerKey == \A k \in Keys : sent[k] <= 1

\* No crash so far, or no FETCH the server refused.  After both, an update can miss
\* a message that a crashed one left, and append one more of its revision.
Undisturbed == crashes = 0 \/ refused = 0

\* Of a draft only the gateway writes: whatever is on the server is in the store;
\* it is messages of the stored revision, with the stored hash, and of the next one
\* only, one of each; and there is one as long as the store calls the draft synced.
ServerTracksStore ==
    \A d \in DraftIds \ touched :
        /\ \A u \in CopiesOf(d) : Present(d)
        /\ Undisturbed =>
              /\ \A u \in CopiesOf(d) :
                    /\ box[u].rev \in {drafts[d].revision, drafts[d].revision + 1}
                    /\ box[u].rev = drafts[d].revision => box[u].hash = drafts[d].hash
              /\ \A u, w \in CopiesOf(d) : box[u].rev = box[w].rev => u = w
        /\ drafts[d].status = "synced_to_gmx" => CopiesOf(d) # {}

\* Between jobs, without a crash, a synced draft is exactly one message: the
\* stored revision and hash, not marked for deletion, under the stored UID
\* unless the server renumbered since.
SyncedIsExact ==
    \A d \in DraftIds \ touched :
        phase = "idle" /\ crashes = 0 /\ drafts[d].status = "synced_to_gmx" =>
            \E u \in Uids :
                /\ CopiesOf(d) = {u}
                /\ box[u] = [draft |-> d, rev |-> drafts[d].revision,
                             hash |-> drafts[d].hash, deleted |-> FALSE]
                /\ drafts[d].uidvalidity = validity => drafts[d].uid = u

\* A draft that was confirmed on the server once is still there in some
\* revision, at every point of an update, a failure or a crash.
NoDraftLost ==
    \A d \in DraftIds \ touched : drafts[d].uid # 0 => CopiesOf(d) # {}

\* Without a crash and with every FETCH answered, a draft ends up modified or
\* invalidated only because someone else changed its messages, never through the
\* gateway's own replacement.
ConflictsAreExternal ==
    \A d \in DraftIds :
        crashes = 0 /\ refused = 0 /\ drafts[d].status \in {"modified", "invalidated"} => d \in touched

\* Each revision after the first was asked for by exactly one key; the one key
\* more a draft may have is that of the conflict which closed it.
UpdateKeys(d) == {k \in Keys : idem[k] = [draft |-> d, op |-> UpdateOp]}

OneRevisionPerKey ==
    \A d \in DraftIds :
        Present(d) =>
            \/ Cardinality(UpdateKeys(d)) = drafts[d].revision - 1
            \/ /\ Cardinality(UpdateKeys(d)) = drafts[d].revision
               /\ drafts[d].status \in {"modified", "invalidated"}

\* No request is served while a draft is still new or staged.
IdleIsResolved ==
    phase = "idle" => \A d \in DraftIds : drafts[d].status \notin Incomplete

\* A replay answers "created" only for a draft whose message was seen on the
\* server, and "updated" only for one that reached a revision after the first.
RepliesAreEarned ==
    \A k \in Keys :
        phase = "idle" /\ idem[k] # Unbound =>
            /\ ReplayOutcome(k) = "created" => drafts[idem[k].draft].uid # 0
            /\ ReplayOutcome(k) = "updated" => drafts[idem[k].draft].revision > 1

\* UID STORE hits only a message of the job's draft that holds the revision and
\* the content the store has, also after the server renumbered the folder.
FlagsOnlyPriorRevision ==
    [][\A u \in Uids :
          At("remove", "store") /\ step' # step /\ ~box[u].deleted /\ box'[u].deleted =>
              /\ box[u].draft = job.draft
              /\ box[u].rev = Record.revision
              /\ box[u].hash = Record.hash]_vars

\* EXPUNGE of the gateway removes only the prior revision of the job's draft, as
\* docs/adr/BAUAUFTRAG-M4.md:13 has it.  Not so: see the run expunge.
ExpungesOnlyPriorRevision ==
    [][\A u \in Uids :
          At("remove", "expunge") /\ step' # step /\ Live(u) /\ ~Live(u)' =>
              box[u].draft = job.draft /\ box[u].rev + 1 = job.rev]_vars

\* "modified" says that someone else changed the draft, as
\* docs/adr/ADR-002-v1-statusmodell.md:21 has it.  Not so after a crash: see the
\* run modified.
ModifiedIsExternal ==
    \A d \in DraftIds : drafts[d].status = "modified" => d \in touched

\* Every job ends, and a restart after a crash reaches service again.
JobsEnd == phase # "idle" ~> phase = "idle"
=============================================================================
