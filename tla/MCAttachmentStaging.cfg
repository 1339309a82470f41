SPECIFICATION StagingSpec
CONSTANTS
    d1 = d1
    h1 = h1
    a1 = a1
    a2 = a2
    k1 = k1
    k2 = k2
    c1 = c1
    c2 = c2
    i1 = i1
    i2 = i2
    i3 = i3
    None = None
    Partial = Partial
    Damaged = Damaged
    DraftIds <- MCDraftIds
    Hashes <- MCHashes
    AttachmentIds <- MCAttachmentIds
    Keys <- MCKeys
    Contents <- MCContents
    Inodes <- MCInodes
    MaxRevision = 1
    MaxUid = 1
    MaxValidity = 1
    MaxOutside = 1
    MaxCrash = 1
SYMMETRY Symmetry
INVARIANTS
    StagingTypeOK
    RowsHaveFiles
    FilesHaveRows
    HandsOutStored
CHECK_DEADLOCK FALSE
