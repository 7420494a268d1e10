SPECIFICATION FairSpec
CONSTANTS
    u1 = u1
    u2 = u2
    NoUser = NoUser
    Users <- MCUsers
    Invalid = {2}
    MaxBatch = 2
    MaxQueued = 2
    MaxHeard = 3
    MaxAir = 2
    SignInCuts = FALSE
INVARIANTS
    TypeOK
    NothingHeardIsLost
    SentAsItsOwn
    NothingSleeps
CHECK_DEADLOCK FALSE
PROPERTIES
    QueueDrains
