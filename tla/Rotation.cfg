SPECIFICATION FairSpec
CONSTANTS
    Usernames <- Pool
    a = a
    b = b
    NoUser = NoUser
    Intervals = {1, 2}
    MinInterval = 1
    Bounds <- BothBounds
INVARIANTS TypeOK PublishedWorks PasswordsRecorded
PROPERTIES HandsOver Completes
CHECK_DEADLOCK FALSE
