---------------------------- MODULE DraftsFolder ----------------------------
(***************************************************************************)
(* The drafts folder on the IMAP server, and the other mail client (e.g.   *)
(* Thunderbird) that works in it.  None of it is code of the gateway: it   *)
(* is modelled from how draft_writer.py uses it.  A message is abstracted  *)
(* to what the gateway reads from it: the draft and the revision its       *)
(* X-Noema headers name and the hash DraftWriter._server_hash computes,    *)
(* which is the declared content hash while the message verifies and a     *)
(* hash no draft has (Tampered) once an external client changed it.        *)
(***************************************************************************)
EXTENDS DraftData, FiniteSets

CONSTANTS
    Tampered,      \* hash of a message that no longer verifies
    MaxExternal    \* bound on the steps of the other client

ASSUME FolderAssumption ==
    /\ Tampered \notin Hashes \cup {None}
    /\ MaxExternal \in Nat

VARIABLES
    box,        \* UID -> message
    uidNext,    \* the UID the next message gets
    validity,   \* UIDVALIDITY of the folder
    touched,    \* history: drafts whose messages the other client changed
    externals   \* number of steps the other client took

folderVars == <<box, uidNext, validity, touched, externals>>

Message ==
    [draft : DraftIds \cup {None}, rev : 0..MaxRevision,
     hash : Hashes \cup {Tampered}, deleted : BOOLEAN]

NoMessage == [draft |-> None, rev |-> 0, hash |-> None, deleted |-> FALSE]

\* A message of the other client; it carries no X-Noema headers.
Foreign == [draft |-> None, rev |-> 0, hash |-> Tampered, deleted |-> FALSE]

Live(u) == box[u] # NoMessage

CopiesOf(d) == {u \in Uids : Live(u) /\ box[u].draft = d}

FolderTypeOK ==
    /\ box \in [Uids -> Message \cup {NoMessage}]
    /\ uidNext \in 1..(MaxUid + 1)
    /\ validity \in Validities
    /\ touched \in SUBSET DraftIds
    /\ externals \in 0..MaxExternal

FolderInit ==
    /\ box = [u \in Uids |-> NoMessage]
    /\ uidNext = 1
    /\ validity = 1
    /\ touched = {}
    /\ externals = 0

-----------------------------------------------------------------------------
(* Commands of the gateway *)

AppendMessage(m) ==
    /\ uidNext \in Uids
    /\ box' = [box EXCEPT ![uidNext] = m]
    /\ uidNext' = uidNext + 1
    /\ UNCHANGED <<validity, touched, externals>>

\* UID STORE +FLAGS \Deleted; a UID without a message is accepted silently.
FlagDeleted(u) ==
    /\ box' = [box EXCEPT ![u].deleted = Live(u)]
    /\ UNCHANGED <<uidNext, validity, touched, externals>>

\* EXPUNGE without a UID set removes every message flagged \Deleted.
ExpungeDeleted ==
    /\ box' = [u \in Uids |-> IF box[u].deleted THEN NoMessage ELSE box[u]]
    /\ UNCHANGED <<uidNext, validity, touched, externals>>

-----------------------------------------------------------------------------
(* The other client *)

Touch(u) == touched' = touched \cup ({box[u].draft} \ {None})

External ==
    /\ externals < MaxExternal
    /\ externals' = externals + 1
    /\ UNCHANGED validity

\* Saving an edited draft replaces the message by a new one under a new UID.
ExternalEdit(u) ==
    /\ External
    /\ Live(u) /\ uidNext \in Uids
    /\ box[u].draft # None
    /\ box' = [box EXCEPT ![u] = NoMessage,
                          ![uidNext] = [box[u] EXCEPT !.hash = Tampered, !.deleted = FALSE]]
    /\ uidNext' = uidNext + 1
    /\ Touch(u)

\* A copy of the message, or the message under another UID after a move and back.
ExternalCopy(u) ==
    /\ External
    /\ Live(u) /\ uidNext \in Uids
    /\ box' = [box EXCEPT ![uidNext] = [box[u] EXCEPT !.deleted = FALSE]]
    /\ uidNext' = uidNext + 1
    /\ Touch(u)

ExternalFlag(u) ==
    /\ External
    /\ Live(u) /\ ~box[u].deleted
    /\ box' = [box EXCEPT ![u].deleted = TRUE]
    /\ UNCHANGED uidNext
    /\ Touch(u)

ExternalRemove(u) ==
    /\ External
    /\ Live(u)
    /\ box' = [box EXCEPT ![u] = NoMessage]
    /\ UNCHANGED uidNext
    /\ Touch(u)

ExternalDraft ==
    /\ External
    /\ uidNext \in Uids
    /\ box' = [box EXCEPT ![uidNext] = Foreign]
    /\ uidNext' = uidNext + 1
    /\ UNCHANGED touched

ExternalStep ==
    \/ \E u \in Uids : ExternalEdit(u) \/ ExternalCopy(u) \/ ExternalFlag(u) \/ ExternalRemove(u)
    \/ ExternalDraft

-----------------------------------------------------------------------------
(* The server *)

\* A new UIDVALIDITY: the messages get new UIDs from 1 on, in any order, so a
\* UID of the old numbering may name another message in the new one.
Renumber ==
    LET occupied == {u \in Uids : Live(u)}
        n == Cardinality(occupied)
    IN  /\ validity < MaxValidity
        /\ validity' = validity + 1
        /\ \E old \in [1..n -> occupied] :
              /\ \A u, w \in 1..n : old[u] = old[w] => u = w
              /\ box' = [u \in Uids |-> IF u <= n THEN box[old[u]] ELSE NoMessage]
        /\ uidNext' = n + 1
        /\ UNCHANGED <<touched, externals>>
=============================================================================
