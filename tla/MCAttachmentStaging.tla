------------------------ MODULE MCAttachmentStaging ------------------------
(* Two attachments and three files, so that an ingest can be repeated      *)
(* beside another and one file be replaced; two keys, one of which a draft *)
(* may take.                                                               *)
EXTENDS AttachmentStaging, TLC

CONSTANTS d1, h1, a1, a2, k1, k2, c1, c2, i1, i2, i3

MCDraftIds == {d1}
MCHashes == {h1}
MCAttachmentIds == {a1, a2}
MCKeys == {k1, k2}
MCContents == {c1, c2}
MCInodes == {i1, i2, i3}

Symmetry ==
    Permutations(MCAttachmentIds) \cup Permutations(MCKeys)
        \cup Permutations(MCContents) \cup Permutations(MCInodes)
=============================================================================
