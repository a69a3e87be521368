SPECIFICATION FairSpec
CONSTANTS
    imageOps = imageOps
    missionNotices = missionNotices
    d1 = d1
    d2 = d2
    NoDrain = NoDrain
    EventCount = 1
    Drains = {d1, d2}
    Consumers <- Single
    Rank <- RegistrationOrder
    Supporters <- NoticesOnly
    Expected <- NoneExpected
    Releases <- SingleRelease
    MaxAttempts = 2
    Lease = 2
    Backoffs <- OneDelay
    Window = 1
    ClearsUndefined = FALSE
    MaxAge = 1
    MaxCrashes = 1
    Many = 1

INVARIANTS
    DeadLetterEarned
PROPERTIES
    LeaseRespected
    AttemptsGrow
    EventuallyServed
