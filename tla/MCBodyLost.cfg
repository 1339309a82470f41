SPECIFICATION ContentSpec
CONSTANTS
    s1 = s1
    s2 = s2
    f1 = f1
    f2 = f2
    f3 = f3
    Damaged = Damaged
    Keep = Keep
    None = None
    NoJob = NoJob
    Subjects <- MCSubjects
    Contents <- MCShortLines
    Requests <- MCRequests
    Files <- MCFiles
    Staged <- MCStaged
    ForeignTexts <- MCForeignTexts
    MaxBody = 6
    MaxLine = 78
    MaxEdits = 0
    MaxUpdates = 1
PROPERTIES
    KeptTextsSurvive
CHECK_DEADLOCK FALSE
