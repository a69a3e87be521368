SPECIFICATION Spec
CONSTANTS
    Areas = {"plan"}
    Pages = {p1, p2}
    Slugs = {"a", "b"}
    Contents = {"empty", "text"}
    Sorts = {1}
    Payloads <- MCPayloads
    MaxRows = 4
    Plans <- MCPlans
    Candidates = {"c", "d"}
    Importers = {w1, w2}
    MaxVersions = 2
    Members = {m1, m2}
    Users = {u1}
    Emails = {e1}
    Managers = {g1, g2}
SYMMETRY Symmetries
CHECK_DEADLOCK FALSE
INVARIANT ActiveRoadmapFound
