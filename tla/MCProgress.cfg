SPECIFICATION FairSyncSpec
CONSTANTS
    d1 = d1
    d2 = d2
    k1 = k1
    k2 = k2
    k3 = k3
    h1 = h1
    h2 = h2
    None = None
    Tampered = Tampered
    AttachmentIds = {}
    DraftIds <- TwoDrafts
    Keys <- TwoKeys
    Hashes <- OneHash
    MaxRevision = 2
    MaxUid = 3
    MaxValidity = 2
    MaxExternal = 0
    MaxCrash = 1
    MaxRefused = 0
INVARIANTS
    OneMessagePerKey
PROPERTIES
    JobsEnd
    StoreSpec
    HandoverSpec
