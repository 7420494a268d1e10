SPECIFICATION Spec
CONSTANTS
    u1 = u1
    u2 = u2
    NoUser = NoUser
    Users <- MCUsers
    Invalid = {2}
    MaxBatch = 2
    MaxQueued = 2
    MaxHeard = 2
    MaxAir = 1
    SignInCuts = TRUE
INVARIANTS
    SentAsItsOwn
CHECK_DEADLOCK FALSE
