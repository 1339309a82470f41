SPECIFICATION SyncSpec
CONSTANTS
    d1 = d1
    d2 = d2
    k1 = k1
    k2 = k2
    k3 = k3
    h1 = h1
    h2 = h2
    None = None
    Tampered = Tampered
    AttachmentIds = {}
    DraftIds <- OneDraft
    Keys <- TwoKeys
    Hashes <- OneHash
    MaxRevision = 2
    MaxUid = 4
    MaxValidity = 1
    MaxExternal = 1
    MaxCrash = 0
    MaxRefused = 0
PROPERTIES
    ExpungesOnlyPriorRevision
