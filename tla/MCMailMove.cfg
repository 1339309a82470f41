SPECIFICATION MoveSpec
CONSTANTS
    m1 = m1
    m2 = m2
    NoMail = NoMail
    Mails <- TwoMails
    MaxRequests = 3
    MaxExternal = 2
    MaxCrash = 1
SYMMETRY Symmetry
INVARIANTS
    MoveTypeOK
    NothingLost
    ExactlyOneFolder
    MovedIsMoved
PROPERTIES
    OnlyNamedLeaves
CHECK_DEADLOCK FALSE
