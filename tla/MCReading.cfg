SPECIFICATION FairReadingSpec
CONSTANTS
    a = a
    b = b
    c = c
    d = d
    lost = lost
    NoId = NoId
    MaxUid = 6
    Ids <- MCIds
    header <- MCHeader
    MaxLimit = 2
    MaxFolders = 2
    MaxChanges = 2
INVARIANTS
    ReadingTypeOK
    ThreadIsWhole
PROPERTIES
    ReadsEnd
