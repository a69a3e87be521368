SPECIFICATION Spec
CONSTANTS
    Sessions = {s1, s2, s3}
    Workers = {w1, w2}
    Organizations = {org1, org2}
    MaxVersion = 1
    NoSession = NoSession

SYMMETRY SessionSymmetry
CHECK_DEADLOCK FALSE
INVARIANTS
    TypeOK
    OneLivePerLogin
    LogoutAllEnds
    AcceptedWasUsable
PROPERTIES
    OrganizationKept
    RevocationStands
