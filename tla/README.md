# A verification of noema-mail-gateway

The gateway is a local service through which an assistant reads a mailbox and
prepares drafts. It never sends mail. What it has to get right is the
bookkeeping between three places that fail independently: the client that
repeats requests, the SQLite store, and an IMAP folder that other mail programs
write too. This directory holds TLA+ models of that bookkeeping, TLC
configurations that check them on small instances, and proofs for every
instance.

Source paths are relative to `src/noema_mail_gateway/` unless they start with
`core/` (for `src/noema_mail_core/`), `systemd/` or `docs/`.

## 1. The system

| Component | State | Operations | Works with |
|---|---|---|---|
| draft store, `draft_store.py`, `core/status.py` | SQLite tables `drafts`, `idempotency`, `attachments`, `attachment_idempotency` | create, update, update_tracking, set_tracking, transition_status, delete, bind_idempotency, save_attachment, fail_incomplete | called by the backend; a file, so it survives the process |
| draft synchronisation, `backend.py`, `draft_writer.py` | the request at work, the UIDs and messages of its last lookup | mail_create_draft, mail_update_draft, mail_get_draft_summary | store transactions and IMAP commands in turn, under one write lock |
| moving mail, `mail_mover.py` | the move at work | mail_move: SELECT, LIST, existence check, MOVE or COPY + STORE + EXPUNGE | IMAP, under the same lock |
| socket server, `server.py` | a request thread and a worker thread per call, the queue between them | decode, dispatch, wait with a timeout, audit, answer | backend, audit log |
| process, `app.py`, `systemd/` | open stores, signal handler | start with fail_incomplete, SIGTERM, close in a fixed order | all of them; systemd restarts it after a failure |
| audit log, `audit.py` | one append-only table | record, tail, close | the server's request threads |
| attachment staging, `staging.py` | files in a staging directory, rows in the store | ingest, verify, discard | mail_add_attachment; draft building reads the files |
| content hashes, `core/hashing.py`, `draft_writer.py` (`_server_hash`) | none | hash of a draft, hash of a message on the server | every comparison of store and server |
| reading mail, `imap_client.py` | one session per request | search, read, thread, folders | IMAP, outside the write lock |
| MIME parsing, `mailparse.py` | none | bounded texts, ids, headers, sizes of attachments | reading mail |
| folder names, case context, contracts, redaction, secrets, paths | none | pure functions | - |

Outside the repository: the IMAP server, and other mail clients, which edit,
copy, flag and remove messages of the drafts folder at any time.

### What is hard

- An IMAP command can take effect and its answer be lost (`draft_writer.py`
  `_append`, `mail_mover.py` `_call`). The client then repeats the request.
- The process can die between any two commands or transactions. IMAP and SQLite
  share no transaction, so a draft can be ahead on the server.
- Another client changes the folder between the lookup that decides and the
  command that acts; the server may renumber the folder (UIDVALIDITY).
- A key must give the same draft for ever, over two tables that no constraint
  of the schema ties together.
- A request that timed out is answered, but its worker goes on
  (`server.py` `_run_with_timeout`), holds the write lock, and may still finish
  while the process is being stopped.
- A draft is written with the line breaks of the store, stored with those of the
  wire, and read back from there into the next revision; the hash that tells own
  from foreign has to see through the same transformation (`draft_writer.py`
  `_message_bytes`, `_server_hash`, `_snapshot`).
- Reading takes no lock: a thread is put together from one FETCH per message
  while messages arrive and leave (`imap_client.py` `fetch_thread`).

### What makes each component correct

- store: no key answers for two things, a bound key always leads to a row, a
  revision never goes back or changes in place, a status follows the automaton;
- synchronisation: one message per key, a draft is never lost from the folder,
  the server is at most one revision ahead, only the prior revision is marked,
  a conflict is someone else's doing, nothing stays half made;
- move: the message is always somewhere, once, and "moved" is true;
- server and process: a draft in the making belongs to the holder of the lock,
  what is answered is recorded, a stop ends and fails nothing a worker still
  works on;
- content: a message nobody else changed is in sync, a message in sync shows
  nothing foreign, an update overwrites no foreign change and keeps the fields
  the request does not name;
- reading: a session ends, a thread is whole and holds nothing else, a bounded
  text is a prefix and says when it is one.

`PROJECT.json` lists the hazards one by one, each at its line with the
properties that would notice it.

## 2. The modules

```
DraftStatus <- DraftStore -> DraftData <- DraftsFolder      GatewayServer   MailMove

DraftSync               EXTENDS  DraftStore, DraftsFolder
DraftSyncHandover       EXTENDS  DraftSync, INSTANCE RevisionHandover WITH ...
AttachmentStaging       EXTENDS  DraftStore
DraftContent            EXTENDS  MessageText
MailReading

DraftStoreProofs        EXTENDS  DraftStore
DraftSyncProofs         EXTENDS  DraftSync, DraftStoreProofs
DraftCopiesProofs       EXTENDS  DraftSyncHandover, DraftSyncProofs
AttachmentStagingProofs EXTENDS  AttachmentStaging, DraftStoreProofs
MailMoveProofs          EXTENDS  MailMove
GatewayServerProofs     EXTENDS  GatewayServer
MailReadingProofs       EXTENDS  MailReading
DraftContentProofs      EXTENDS  DraftContent
```

**DraftStatus** is `core/status.py`: the statuses and the allowed transitions.

**DraftData** declares the constants the store and the folder share (drafts,
hashes, the bounds on revisions, UIDs and numberings) and what is assumed of
them.

**DraftStore** has one variable per table (`drafts`, `idem`, `attachments`,
`attIdem`) and one action per writing method. A method that raises, or returns a
replay, changes nothing and is a stuttering step, so a guard of an action is the
conjunction of the checks the method passes. `sweep` is the list that
`fail_incomplete` took before it changes the records one transaction at a time;
the method holds the store's lock only for each of them. A content hash stands
for the content.

**DraftsFolder** is the IMAP folder and the other client (external: modelled from
what `draft_writer.py` asks of the server). `box` maps a UID to a message:
whose draft, which revision, what content, whether flagged. An edit by the other
client gives the content `Tampered`; `touched` remembers the drafts it changed.

**DraftSync** is the core. The write lock admits one job at a time (section 5
shows where this comes from), so control is one `phase` (what the lookup is for)
and one `step` in it. One IMAP command or one store transaction is one step, and
the other client, the server or a crash may act between any two. A lookup is
`Select`, `Search` and one `Fetch` per hit, as in `_find_drafts`; a FETCH that
the server answers with NO is skipped by the code and counted in `refused`.

| Method | Actions in order |
|---|---|
| `mail_create_draft` | BeginCreate (create, key bound in the same transaction), Stage, lookup, LookClear, AppendCreated, lookup, ConfirmCreated, TrackCreated, RecordCreated; CreateConflict |
| `mail_update_draft` | BeginUpdate, lookup, InspectInSync, lookup, VerifyPrevious, AppendUpdated, lookup, ReplaceFound, MarkDeleted, Expunge, SelectFinal, FinalFound, RecordUpdated; Conflict, ReplaceConflict, FinalConflict, then RecordConflict and BindConflict (two transactions) |
| `mail_get_draft_summary` | BeginSummary, lookup, SummaryRefused, SummaryStatus, SummaryTracking |
| any | Fail and Unusable (an exception), FailJob (the except clause) |
| process | Crash, Boot, BootFail, Serve |

**RevisionHandover** is the abstract specification a reader of the folder relies
on: publish the next revision beside the recorded one, retire the old one only
then, record the new one last. A draft someone else has changed is lost to it
and promised nothing. `Retire` takes away the old revision of several drafts at
once: the code's EXPUNGE names no message, so with the old revision of the draft
at work goes that of a draft whose own update a crash cut off between STORE and
EXPUNGE. **DraftSyncHandover** is the refinement mapping: shown is what a SEARCH
for the draft would find, recorded is the stored revision.

**MailMove** is `mail_move` and `MailMover.move`, command by command, for
messages with stable UIDs, with and without the MOVE capability. `copies` counts
a message's copies in the target folder, `unfinished` the messages one of whose
moves broke off.

**GatewayServer** is the threads. Per call there is a request thread (`handler`)
and a worker thread (`worker`); `lock` is the backend's write lock; `draft` is
what the call has in the store, reduced to none, begun (new or staged), complete
or failed. `main` is how far the stop of `run_gateway` has come: closing the
listener, `backend.close` under the lock, the audit log, the store, the
interpreter. After the store is closed a worker raises and its except clause does
too (`Raise`). A response that cannot be encoded is answered as an error after it
was recorded (`Answer`); that a result is no mapping or cannot be dumped as JSON
(`server.py:260`, `:321`) does not occur with this backend and is not modelled. A connection carries one call here; a second call on the same
connection is a call of its own. A call decides with its first step whether it
takes the write lock (`Acquire`) or works outside of it (`Read`). Audit outcomes
other than success (a conflict that is answered normally is recorded with its outcome) are not told apart.

**AttachmentStaging** is `staging.py` with `mail_add_attachment` and the reading
of a file when a draft is built. An entry of the directory (`dir`) leads to an
inode, and `data` is the inode's content, so a descriptor that is open keeps its
file when the entry is replaced. `digest` is the sha256 of a row. One system call
or one store transaction is a step:

| Method | Actions in order |
|---|---|
| `mail_add_attachment` | BeginAdd, CreateFile (O_EXCL), WriteFile, SaveRow; when the save fails SaveFails, Lstat, Open, Read, Recheck, Unlink |
| `_verified_attachment` for a draft | BeginBuild, Lstat, Open (fstat finds the same inode), Read (the sha256 matches) |
| either | Refuse: a call fails or finds what it must not find |

`Outside` damages, replaces or removes a file between any two of these, and
`disturbed` remembers which; `broken` remembers the ingests that a crash or a
failing removal cut off. The checks of the directory, the owner and the mode
bits end in the same error as a failing call and are part of `Refuse`. The lstat
and unlink of `_remove_created_file` are one step.

**MessageText** is what happens to texts, as operators: the three forms of line
breaks (`Lf`, `Lines`, `Crlf`), where a number of bytes cuts a text (`Cut`,
`Fitting`) and the bounded reading of `mailparse.py` (`BoundedText`, one
`ReadBody` per round of the loop). A text is a sequence of five kinds of
characters, which differ in what the code does with them: an ordinary one, one
of two bytes, CR, LF, and the replacement character that decoding half a
character leaves, of three bytes.

**DraftContent** is one draft and its message with the inside that DraftSync
abstracts to a hash: envelope, text parts and attachments, each with the headers
`_message_bytes` stamps on it.

| Code | Definition |
|---|---|
| `_message_bytes` | Compose; the transfer encoding of each text is `Chosen` as the standard library does: base64, which keeps LF, may only be taken for a text with a line longer than `MaxLine`, all others have CR LF on the wire |
| `_server_hash`, `_envelope_hash`, `_text_part_hash` | ServerHash, Trusted, TextSeal |
| `_snapshot` | Snapshot, ReadBack |
| `_updated_draft` | Merge |
| `mail_update_draft` | Inspect, then Replace (with the checks before and after the APPEND) or Fail |
| `mail_get_draft_summary` | Summarize |
| another client | EditHead, EditText, EditBreaks, DamageFile, StripHeaders, RemovePart, AddPart |

To, Cc, Bcc and the subject are one value; what the wire does to it is that white
space in front of a subject is not there any more when it is read (`padded`).
The order of attachments and the nesting of multiparts are left out, since no
code here depends on them. `StripHeaders` takes all X-Noema headers off a part, as
a client does that writes the part anew. For a text with a long line the library
takes base64 if quoted-printable would be longer, which depends on more characters
than the model has, so there the choice is free.

**MailReading** is `mail_search`, `mail_read`, `mail_get_thread` and
`mail_list_folders` with one IMAP command as one step, in a folder that changes
between any two. Of a message its
UID and its ids matter (`header`, a constant: a UID is given once and a message
never changes). The search of `fetch_thread` is a step per id taken from the
stack: Link, Visit, ThreadEnds; the order in which Python iterates over a set is
any (`Orders`). `stayed` remembers the messages that were in the folder all the
time since the SEARCH. `list_folders` is a LIST, a STATUS per folder and the end
(ListFolders, CountFolder, ListingEnds); of the folders only how many are still
to be counted matters, and the listing fails with the first STATUS that does.

The modules `MC*` give the constants names for TLC, and `*Proofs` hold theorems.
An operator called "Mutant of ..." is not part of the model. It is a plausible
mistake in the definition that follows it, kept beside it to show that the
property which should notice it does.

## 3. What is checked

All runs keep the deadlock check except those of MailMove, whose requests run
out, of AttachmentStaging, whose keys and identities run out, of DraftContent,
whose draft may be closed, and of GatewayServer, whose process exits.

| Run | Question | Answer |
|---|---|---|
| store | any sequence of public methods of the store | keys stay in one namespace (`OneNamespace`), resolve (`BindingsResolve`), are final (`BindingsAreFinal`); revisions are immutable (`RevisionsAreImmutable`) |
| sync | one draft, creation, two updates, summaries; lost answers, a refused FETCH, one crash anywhere, one renumbering, one act of the other client | the server tracks the store (`ServerTracksStore`), an idle synced draft is exactly one message (`SyncedIsExact`), no draft is lost (`NoDraftLost`), conflicts are external (`ConflictsAreExternal`), one revision per key (`OneRevisionPerKey`), no service beside a draft that is new or staged (`IdleIsResolved`), replays say what was earned (`RepliesAreEarned`), only the prior revision is flagged (`FlagsOnlyPriorRevision`) |
| progress | two drafts, two keys, creation and update; one crash, one renumbering, no other client and no refused FETCH; fair jobs and restarts | a key sends at most one message through mail_create_draft (`OneMessagePerKey`); every job ends (`JobsEnd`), so that, with `IdleIsResolved`, nothing stays new or staged; each step is one operation of the store or none (`StoreSpec`), so what run store shows holds of the running gateway; seen from the folder, each step is one of RevisionHandover or none (`HandoverSpec`) |
| move | two messages, three requests, two acts of the other client, one crash | `NothingLost`, `ExactlyOneFolder`, `MovedIsMoved`, `OnlyNamedLeaves` |
| staging | two attachments, three files, two keys; a crash and a change from outside anywhere | a row has its file, whole (`RowsHaveFiles`); a file without a row is explained by an ingest that broke off (`FilesHaveRows`); a draft is built with the bytes that were sent or not at all (`HandsOutStored`) |
| server | two calls, writing or reading, a failing audit INSERT, a stop and a kill at any moment; fair request threads | `BegunIsLocked`, `AnswersAreRecorded`, `StopSparesWorkers`; every call is answered or given up although workers may hang (`CallsEnd`); if workers end, so does a stop, although writers hold or want the lock that backend.close needs (`StopEnds`) |
| content | one draft through two updates, four contents, six requests, two changes of the other client | in sync means ours (`InSyncIsOurs`), no foreign change is overwritten, also when it comes between the inspection and the replacement (`EditsAreNotOverwritten`), fields the request does not name survive but for one character per line break at the end of a text (`KeptFieldsSurvive`); of any message, own or foreign, the bounded text is within its bound, a prefix, and marked when cut (`ReadIsHonest`) |
| reading | six messages with a circle of references, missing ones, a shared id and none; two arrivals or removals at any moment; fair sessions | a thread is whole and nothing else (`ThreadIsWhole`), every session ends (`ReadsEnd`) |

Each type invariant is checked once, in store, sync, move, staging, server and
reading.

### Where the code and its documents differ

Each of these runs states what a document, a docstring or a test says and ends
with a counterexample.

- **expunge** (`ExpungesOnlyPriorRevision`). `_expunge` is a plain EXPUNGE, so it
  also removes what another client has flagged in the folder.
  `docs/adr/BAUAUFTRAG-M4.md:13-15` restricts it to the prior revision of the
  same draft. (`MailMove` uses UID EXPUNGE; there `OnlyNamedLeaves` holds.)
- **modified** (`ModifiedIsExternal`). When the process dies after an update has
  replaced the message and before `store.update`, the next request finds the
  gateway's own revision, takes it for a foreign edit and closes the draft as
  modified. `docs/adr/ADR-002-v1-statusmodell.md:21` says modified means edited
  elsewhere. No content is lost (`NoDraftLost`), but the draft can no longer be
  updated.
- **body_lost** (`KeptTextsSurvive`). `_snapshot` cuts a text part to the length
  the text was given with, but on the server its line breaks have two bytes. An
  update that names only, say, the attachments therefore takes one byte per
  single LF off the end of the body and of the HTML part: in the counterexample a
  text of two short lines, sent as 7bit, loses the character of the second. A last
  character of several bytes may be cut in half and come back as U+FFFD. (It happens once: what is read back
  has the line breaks of the wire and is counted with them.) The docstring at `draft_writer.py:76` calls the snapshot the draft
  content read back, and `tests/test_integration.py:279` expects it unchanged,
  with a body of one line. `KeptFieldsSurvive` says how much is lost at most.
  A body with a long line that is sent as base64 keeps its LF and loses nothing;
  one given with CR LF may gain a line break at its end there.
- **edit_missed** (`EveryEditIsNoticed`). `_server_hash` checks each part that is
  there; a part that was removed, in the counterexample the HTML text or an attachment,
  is not missed, nor is one added without the
  disposition `attachment` and with another type than text.
  `docs/adr/ADR-003-draft-identitaet.md:40` says changes are recognised, and
  :35 that the hash covers the HTML part and all attachments. `InSyncIsOurs` is
  what does hold: nothing foreign is shown.

Six more differences came up while modelling or proving and have no run of their
own:

- A crash between the APPEND and the removal of an update leaves two messages of
  the draft. `_find_drafts` skips a message whose FETCH the server refuses
  (`draft_writer.py:390`); when that is the newer one, at both lookups of the next
  update, the update sees one match and appends again. `docs/adr/BAUAUFTRAG-M4.md:23-24`
  says of several matches that nothing is written. What holds is in
  `ServerTracksStore`: while `Undisturbed`, that is before a crash and a refused
  FETCH have come together, there is at most one message of each of two revisions.
- A repeated key is answered from the present status of the draft, not with the
  stored result of `docs/adr/BAUAUFTRAG-M4.md:39`; `RepliesAreEarned` is what
  holds instead. After a crash between the two transactions of `_sync_conflict`
  (`backend.py:525`) the key of a conflict is not bound at all, and the repeated
  request is refused as not editable; it publishes nothing (`HandoverSpec`).
- `_handle_line` records the outcome before `_write_response` encodes the response.
  A lone surrogate, which JSON admits in the id of a request and some charsets in
  the text of a mail, cannot be encoded: the client is told of an error while the
  audit log says ok. `docs/adr/BAUAUFTRAG-M7.md:32` has each answer make an audit
  event. What holds is in `AnswersAreRecorded`: success and timeout are answered
  only as they were recorded.
- An EXPUNGE of `mail_move` that raises instead of answering NO is answered with
  a general error, not as the duplicated message of
  `docs/adr/BAUAUFTRAG-M10.md:84-86`; `NothingLost` holds either way.
- `backend.close` sweeps once under the lock while daemon workers still run: one
  that waited for the lock takes it afterwards and begins a draft the process
  ends under, unlike `docs/adr/BAUAUFTRAG-M8.md:54-55`. The next start resolves
  it (`IdleIsResolved`).
- A subject with white space in front (which request validation accepts) does not
  come back from the server as it was written, so the envelope hash never
  matches: such a draft is modified from the beginning. `InSyncIsOurs` exempts
  it by name. And a thread call fails as not found when any message of the folder
  vanishes between the SEARCH and its FETCH (`FetchNext`).

### Bounds, and why they are enough

- `MaxRevision`: 3 in sync, two updates in a row, so that an old and
  an older revision differ; 2 in store and progress, one
  update.
- `MaxUid` 4 in sync, 3 in progress: a job adds at most one message, the other
  client at most one copy or foreign draft. A UID is never reused under one numbering, and when the UIDs
  are used up nothing more can be appended.
- `MaxValidity` 2: one renumbering, at any step where a server may do it. It
  deals the UIDs out anew, in any order, so a stale UID can name another message.
- `MaxExternal` 1: one act of the other client at any point. The invariants
  exempt what it touched, so a second act mostly repeats the first. In progress it
  is 0: a crash after an append is enough for a conflict there, and what
  RevisionHandover promises beside the other client, also where an EXPUNGE takes a
  message of another draft than the one at work, is proved (`SyncHandsOver`).
  MailMove allows 2, since a flag and a removal together have an effect of their
  own.
- `MaxCrash` 1: at any step, also during the start-up sweep in run progress and
  sync. After a restart the state is again a state of the store and the folder,
  from which everything is explored.
- `MaxRefused` 1: one skipped FETCH is enough to hide one of two messages; 0 in
  progress, where there is a crash, since RevisionHandover is promised only while
  `Undisturbed` (with refused FETCHes and no crash it is proved).
- drafts: 1 where a property is about a draft and its messages, since jobs of
  different drafts share only the lock; 2 in store and progress, where keys could
  lead to the wrong draft.
- keys: one for each creation or update the revisions allow, so that requests
  run out of revisions and of keys about together; a repeated key is always
  possible.
- staging: 2 attachments, so that one ingest can be repeated beside another; 3
  inodes, one for each and one to replace a file; `MaxOutside` 1, since a second
  change finds either the same file or one exempted already; 2 keys, of which a
  draft may take one.
- `MaxAuditFailures` 1: an INSERT that fails once; a closed log fails always.
- calls: two, each of which may want the lock or work outside of it: one holds
  the lock while the other waits, times out or reads.
- content: texts with no, one and two line breaks, in either form, ending in a
  character that a cut can split; one and two attachments. `MaxBody` 6 lies
  inside the longer texts, on a separator and inside a character. `MaxEdits` 2:
  a part is changed and its headers are stripped, or one is added beside one
  changed. `MaxUpdates` 2: what an update wrote is the ground of the next. `MaxLine` is 3 in
  run content, so that texts of a few characters have lines that are too long and
  others that are not, and 78, the value of the library, in the runs with a
  counterexample, where no text is sent as base64.
- reading: 6 messages are enough for a circle of three, two messages with one id
  and two that meet in a missing one; `MaxLimit` 2 is below the number of hits;
  `MaxChanges` 2, one message that leaves and one that arrives; `MaxFolders` 2, so
  that a listing can fail at its first folder and halfway.

Symmetry is used in runs without liveness and only over constants that the
definitions do not order.

## 4. Fairness

- `JobStep` (weak): an IMAP command returns or times out, since `imaplib` is
  given a socket timeout, and a store transaction is local. While the gateway is
  in a job some step of it is enabled.
- `BootStep` (weak): `systemd/noema-mail-gateway.service` has
  `Restart=on-failure`.
- `HandlerStep(c)` (weak): `queue.get` has the request timeout as its timeout, and
  a write to a socket ends with `connection.settimeout`.
- `WorkerStep(c)` (weak): in `FairWorkers`, a premise of `StopEnds` only, for the
  reason of `JobStep`; `CallsEnd` assumes nothing of workers. The
  lock is an `RLock` without a fair queue; weak fairness is still enough because
  a call takes it once and the calls are finitely many.
- `CloseBackend`, `CloseStores` (weak): the main thread runs.
- `ReadStep` (weak): the commands of a session are answered, or time out as for
  `JobStep`, and the rest is computation. A lost answer (`Lost`) ends a session
  too, but has no fairness: no session needs one to end.
- `Stop`, `Kill`, `Crash`, the other client and the server have no fairness.

## 5. What is proved

The proofs hold for every value of the constants that satisfies the named
assumptions (`DataAssumption`, `StoreAssumption` where present, `SyncAssumption`,
`StagingAssumption`, `MoveAssumption`, `ServerAssumption`, `ReadingAssumption`,
`ContentAssumption`:
bounds are natural numbers, the dummy values lie outside the sets they stand beside).

**DraftStoreProofs.** Apart from `Delete`, every action that changes a draft
writes one row of the schema and leaves the other rows alone (`WritesRow`). From
that follow `StoreTypeCorrect` and, with the guards on keys,
`NamespacesAreDisjoint` and `BindingsAlwaysResolve`. The action properties
`BindingsStayFinal`, `RevisionsStayImmutable` and `StatusesFollowAutomaton` follow
from the type invariant and what each action does to one row.

**DraftSyncProofs.** `SyncTypeCorrect` needs to know which job a phase works on
(`ControlOK`): otherwise nothing says that a transaction of an update writes the
revision of an update. `SyncImplementsStore` proves that every step is a step of
`StoreSpec` or changes no table; the store's theorems therefore hold of the
gateway. `IdleAlwaysResolved` needs that a draft that is new or staged is the
draft of the present job, or is in the start-up list, or the process is down
(`IncompleteIsOwned`). `KeySendsOnce` proves `OneMessagePerKey` from `SentOnce`: a
key for which something was sent is bound, and the job that sends for it has sent
nothing before; a bound key begins no creation.

**DraftCopiesProofs.** What a job leaves in the folder. None of the properties of
run sync is inductive; each layer below is proved with those before it, and says
what the next one cannot do without:

| Layer | It says | Without it |
|---|---|---|
| `JobInv` | which steps a phase has, what the row of the job's draft holds meanwhile, when a UID has been found | an update could record a revision that does not follow the stored one |
| `KeysAgree` | the keys of updates are counted by revisions, and a draft closed by a conflict with its key bound has no job left | the key of the conflict could be counted twice |
| `UidInv` | a UID the job holds is below `uidNext`, and names a message of the job's draft with the revision and content the lookup saw, while UIDVALIDITY is the one of its SELECT; a lookup with every answer has seen every message | STORE could mark a message that got the UID later |
| `CopiesInv` | a marked message is at most as new as the recorded revision, and one that is not marked stands beside it | EXPUNGE, which takes all that is marked, could take the last one |
| `RevisionsInv` | the messages of a draft are one of the recorded revision and one of the next, a job's phase says which are there, and without a crash a draft that is not being replaced is as it is on record | an update could append a revision that is there already |
| `ConflictsAgree` | a conflict is entered only with a draft someone else has touched | `modified` could be the gateway's own doing |

`UidInv` gives `FlagsPriorRevision`; with `CopiesInv`, `NoDraftEverLost`; with
`RevisionsInv`, `ServerAlwaysTracked` and `SyncedAlwaysExact`; with
`ConflictsAgree`, `ConflictsAlwaysExternal`. `RevisionsHaveOneKey` and
`RepliesAlwaysEarned` need the first two layers only. None of them limits the
drafts at work: `CopiesInv` holds for the draft whose marked message an EXPUNGE for another
draft takes along.

`SyncHandsOver` is the refinement: while `Undisturbed`, every step is a step of
RevisionHandover or changes nothing it speaks of. The proof tells each abstract
step by what it does to the view of one draft (`SameView`, `OthersAsBefore`), and
maps each action to one:

| Action | Step of RevisionHandover | Because |
|---|---|---|
| BeginCreate | Register | the draft has no row, hence no message |
| AppendCreated | PublishFirst | a creation's draft has no message before |
| AppendUpdated | PublishNext | there is the recorded revision and nothing newer (`NothingNewer`) |
| Expunge | Retire | where one is marked, the next revision stands beside it |
| RecordUpdated | RecordNext | the old revision is gone |
| a status that becomes terminal | Close | terminal statuses have no way out |
| the first change by someone else | Lose | one draft at a time |
| all others | none | |

Two things came out of these proofs. The abstract `Retire` first took one
draft's message, which with two drafts is not what EXPUNGE does. And
`ServerTracksStore` was first stated without `Undisturbed`: the step that fails to
be proved is the APPEND of an update after a crash and two refused FETCHes, the
first of the six differences that section 3 lists without a run. `SyncHandsOverFaultless`
restates the refinement for constants that rule out one of the two, as in run
progress.

**AttachmentStagingProofs.** The invariants say nothing of the attachment at work.
The inductive form adds what its file holds at each system call (`TaskAgrees`),
that no two entries lead to one inode (`EntriesAgree`, so writing one file
cannot change another), and that a file without a row belongs to the ingest at
work (`StraysAreExplained`). `StagingTypeCorrect`, `RowsKeepFiles`,
`StrayFilesAreExplained` and `DraftsGetStoredBytes` follow; for the tables the
steps are operations of the store, so its type lemma is cited, not repeated.

**MailMoveProofs.** The invariants say nothing about the message that is being
moved; the inductive form adds where it is at each command (`JobPlace`) and how
many copies there are (`CopyCount`). The four properties of run move follow
for any number of messages, requests, crashes and acts of the other client.

**GatewayServerProofs.** The worker that holds the lock is the one the lock names
(`LockAgrees`), a draft in the making has such a worker while the store is open
(`BegunHasWorker`), a worker that ended with success left no draft open
(`WorkerAgrees`), and what is recorded is what the request thread
learned, and what is answered that or an error (`ReplyAgrees`). They give the four properties of run server for any
number of calls. `BegunIsLocked` is also what DraftSync rests on when it has one
job at a time: no second writer meets a draft in the making, not even when the
first one's client has long been told of a timeout.

**MailReadingProofs.** That a thread is whole is the correctness of a graph
search over a graph that was fetched while the folder changed. `Thread` defines
what has to be found without any search: the messages that no set closed under
the relation can leave out. It has its roots, is closed, is the least such set
and grows with the messages (`ThreadHasRoots`, `ThreadIsClosed`, `ThreadIsLeast`,
`ThreadIsMonotonic`). The inductive form says that what stayed in the folder is
fetched or still a hit (`FetchAgrees`), that an id visited or pending belongs to
messages of the thread (`LinkIsSound`), and that what is adjacent to a visited id
is visited or pending (`LinkIsComplete`). When nothing is pending the messages
with visited ids are closed, so they are the thread (`VisitedIsThread`).
`ReadingTypeCorrect` and `ThreadsAreWhole` hold for any headers, any folder and
any number of changes.

**DraftContentProofs.** The four properties of run content, for texts of any length,
any attachments, requests and number of changes. The module has two halves.

The first is about the operators of MessageText, which are folds over sequences,
and therefore needs induction. It comes from one lemma on sets of numbers,
`Induct`, proved from the well-foundedness of their order in the library; a
statement about all texts is the set of the texts that satisfy it (`SeqInduct`).
What the second half takes from it:

| Lemma | It says |
|---|---|
| `LfOfCrlf`, `LinesOfLines` | normalising line breaks undoes the form of the wire, and a second time changes nothing |
| `SizeAppend`, `SizeConcat`, `CrlfSize` | sizes add up; on the wire a text is longer by one byte per line break |
| `FittingIs`, `RoundCuts`, `BodiesRead` | what a cut keeps is the longest prefix that fits, and the loop of `_bounded_text` has always read a prefix of the joined texts |
| `BoundedTextIsHonest` | the second cut and the final comparison of `_bounded_text` make up for a replacement character larger than what it replaces |
| `LinesKept`, `WireKept`, `CutIsShortened` | a text cut to its own size in the form of the wire loses at most one character per line break |

The second half is about the steps. `InSyncIsOurs` is not inductive: that a seal
matches says only what the seal says, and nothing in it tells where the seal is
from. `ContentInv` adds what the other client cannot undo:

- the seals in a message are those of the content it declares, on whatever part,
  changed or not (`MessageOK`): a client changes and removes what is sealed, but
  makes no seal;
- while nobody has touched the message, it is what `Compose` makes of the recorded
  content, in some encoding, and the update at work goes by what this message
  says.

From the first follows that what a matching hash vouches for is the gateway's own
(`TrustedIsOurs`, hence `NoEditOverwritten`); from the second, that an untouched
message matches, and with `SnapshotOfComposed` and the lemmas on cuts what an
update makes of it (`KeptFieldsAlwaysSurvive`). `ReadsAreHonest` needs only the
types, since `mail_read` trusts no header.

An attempt at the last proof corrected the property. `Shortened` first took the
text without a trailing replacement character as what remains; a text that itself
has U+FFFD where the cut falls, and is not cut in half there, then seemed to lose
one character too many. It now allows either reading. No text of the run ends so,
which is why TLC had not found it.

### Checked by TLC only

- Liveness (`JobsEnd`, `CallsEnd`, `StopEnds`, `ReadsEnd`): the prover
  does not handle fairness and ENABLED.
- The mutants and the four runs that end with a counterexample.

No safety property of a passing run is left without a theorem.

## 6. What is assumed or left out

- SQLite: a transaction is atomic and durable, and does not fail for reasons of
  its own. A failing INSERT is modelled for the audit log only.
- In DraftSync the server hash notices every edit of the other client. DraftContent
  shows which it notices: a changed envelope, a changed or added text, a changed
  or added attachment, but not a removed part.
- In DraftContent another client leaves the headers of the draft alone. A message
  without its `X-Noema-Draft-Id` is no message of the draft for the gateway.
- In DraftContent an attachment's id and bytes are one value, from a finite set, and
  the bytes of a damaged one are none of them. The hashes are those of SHA-256 without
  collisions.
- The payload of a text part decodes: an unknown charset or a broken transfer
  encoding is left to the standard library.
- In DraftSync the worker is not cut off by a timeout, which is what the code
  does: a timeout ends the waiting, not the work.
- `mail_move` applied to a message of the drafts folder acts on DraftSync like a
  removal by the other client.
- In MailMove UIDs are stable. The request carries no UIDVALIDITY, so after a
  renumbering the code itself cannot tell.
- `mail_add_attachment` is no part of DraftSync, which leaves the tables of
  attachments alone; AttachmentStaging composes it with the store
  (`SaveAttachment`), and there draft building is only the reading of one file.
- In DraftSync the reading back of a draft that can fail (`_snapshot`, an invalid
  revision header) is part of `Fail`, and that of a summary's attachments after
  `set_tracking` is left out, since it changes no state.
- Power loss: `ingest` does not fsync a file before its row is committed, so
  after a power loss a row may lead to a short file. In AttachmentStaging this is
  a change from outside, and what remains promised is `HandsOutStored`.
- `uuid4` never repeats an identity.
- The numbers `mail_list_folders` reports are left out: nothing else depends on
  them, and they are of different moments.
- Header decoding, folder-name encoding, redaction and request validation are
  single computations without a state, and not modelled.

## 7. Plan

Done, in this order: DraftStatus, DraftData, DraftStore and its proofs;
DraftsFolder, DraftSync and its proofs; RevisionHandover and DraftSyncHandover;
MailMove and its proofs; GatewayServer and its proofs; AttachmentStaging and its
proofs; MessageText, DraftContent and its proofs; MailReading and its proofs.

To extend the model, next: two callers of the backend composed with DraftSync, so
that the single job of DraftSync is a theorem about GatewayServer instead of an
argument.

To prove next: that a message the gateway wrote stays recognisable to it under the
single job of DraftSync, that is, that the hash DraftSync takes for a content is
the one DraftContent computes; and the composition just named.
