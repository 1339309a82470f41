--------------------------- MODULE MCDraftStore ---------------------------
(* A small draft store for TLC: two drafts and two keys let a key move     *)
(* between drafts or tables; two revisions and two hashes allow a stale or *)
(* an in-place write; one UID allows a change of tracking.                 *)
EXTENDS DraftStore, TLC

CONSTANTS d1, d2, a1, k1, k2, h1, h2

MCDraftIds == {d1, d2}
MCAttachmentIds == {a1}
MCKeys == {k1, k2}
MCHashes == {h1, h2}

Symmetry == Permutations(MCDraftIds) \cup Permutations(MCKeys) \cup Permutations(MCHashes)
=============================================================================
