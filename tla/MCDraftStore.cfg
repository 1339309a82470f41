SPECIFICATION StoreSpec
CONSTANTS
    d1 = d1
    d2 = d2
    a1 = a1
    k1 = k1
    k2 = k2
    h1 = h1
    h2 = h2
    None = None
    DraftIds <- MCDraftIds
    AttachmentIds <- MCAttachmentIds
    Keys <- MCKeys
    Hashes <- MCHashes
    MaxRevision = 2
    MaxUid = 1
    MaxValidity = 1
SYMMETRY Symmetry
INVARIANTS
    StoreTypeOK
    OneNamespace
    BindingsResolve
PROPERTIES
    BindingsAreFinal
    RevisionsAreImmutable
