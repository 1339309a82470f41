---------------------------- MODULE MCDraftSync ----------------------------
EXTENDS DraftSyncHandover, TLC

CONSTANTS d1, d2, k1, k2, k3, h1, h2

OneDraft == {d1}
TwoDrafts == {d1, d2}
TwoKeys == {k1, k2}
ThreeKeys == {k1, k2, k3}
OneHash == {h1}
TwoHashes == {h1, h2}

KeysSymmetry == Permutations(ThreeKeys)
=============================================================================
