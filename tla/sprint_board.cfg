SPECIFICATION Spec
CONSTANTS
    Sprints = {s1, s2}
    Items = {i1, i2}
    Columns = {"TO_DO", "DONE"}
    Workers = {w1, w2}
    MaxOrder = 1
    MaxEdits = 1
    MaxMoves = 3
SYMMETRY Symmetries
INVARIANTS TypeOK OneActiveSprint SelectedIsHeld OneOpenSprint ColumnPlaces
PROPERTIES BoardSettles
CHECK_DEADLOCK FALSE
