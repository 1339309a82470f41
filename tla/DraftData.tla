----------------------------- MODULE DraftData -----------------------------
(***************************************************************************)
(* The values the store and the drafts folder have in common, and the      *)
(* bounds that make them finite.                                           *)
(***************************************************************************)
EXTENDS Naturals, DraftStatus

CONSTANTS
    DraftIds,     \* identities of drafts (Draft.draft_id, X-Noema-Draft-Id)
    Hashes,       \* content hashes; a hash stands for the content it is of
    None,         \* SQL NULL, a missing header, the absence of a row or message
    MaxRevision,  \* bound on revisions
    MaxUid,       \* bound on IMAP UIDs
    MaxValidity   \* bound on IMAP UIDVALIDITY values

ASSUME DataAssumption ==
    /\ None \notin DraftIds \cup Hashes
    /\ MaxRevision \in Nat \ {0}
    /\ MaxUid \in Nat
    /\ MaxValidity \in Nat \ {0}

Revisions == 1..MaxRevision
Uids == 1..MaxUid
Validities == 1..MaxValidity
=============================================================================
