SPECIFICATION UneventfulSpec
CONSTANTS
    imageOps = imageOps
    missionNotices = missionNotices
    d1 = d1
    d2 = d2
    NoDrain = NoDrain
    EventCount = 1
    Drains = {d1, d2}
    Consumers <- Pair
    Rank <- RegistrationOrder
    Supporters <- CompletedOnly
    Expected <- CompletedOnly
    Releases <- OneRelease
    MaxAttempts = 2
    Lease = 2
    Backoffs <- OneDelay
    Window = 1
    ClearsUndefined = FALSE
    MaxAge = 0
    MaxCrashes = 0
    Many = 2

SYMMETRY DrainSymmetry
INVARIANTS
    HandledOnce
