--------------------------- MODULE MCSprintBoard ---------------------------
(* Small instances of SprintBoard.                                           *)
EXTENDS SprintBoard, TLC

Symmetries == Permutations(Sprints) \cup Permutations(Items) \cup Permutations(Workers)
=============================================================================
