SPECIFICATION SyncSpec
CONSTANTS
    d1 = d1
    d2 = d2
    k1 = k1
    k2 = k2
    k3 = k3
    h1 = h1
    h2 = h2
    None = None
    Tampered = Tampered
    AttachmentIds = {}
    DraftIds <- OneDraft
    Keys <- ThreeKeys
    Hashes <- TwoHashes
    MaxRevision = 3
    MaxUid = 4
    MaxValidity = 2
    MaxExternal = 1
    MaxCrash = 1
    MaxRefused = 1
SYMMETRY KeysSymmetry
INVARIANTS
    SyncTypeOK
    ServerTracksStore
    SyncedIsExact
    NoDraftLost
    ConflictsAreExternal
    OneRevisionPerKey
    IdleIsResolved
    RepliesAreEarned
PROPERTIES
    FlagsOnlyPriorRevision
