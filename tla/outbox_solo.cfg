SPECIFICATION FairSpec
CONSTANTS
    imageOps = imageOps
    missionNotices = missionNotices
    d1 = d1
    d2 = d2
    NoDrain = NoDrain
    EventCount = 2
    Drains = {d1}
    Consumers <- Pair
    Rank <- RegistrationOrder
    Supporters <- CompletedThenOrphan
    Expected <- CompletedThenOrphan
    Releases <- TwoReleases
    MaxAttempts = 2
    Lease = 2
    Backoffs <- OneDelay
    Window = 1
    ClearsUndefined = FALSE
    MaxAge = 1
    MaxCrashes = 1
    Many = 1

INVARIANTS
    ClosedAgrees
PROPERTIES
    EventuallyClosed
    ImplementsDelivery
