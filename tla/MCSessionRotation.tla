------------------------- MODULE MCSessionRotation -------------------------
(* A small instance of SessionRotation.                                    *)
EXTENDS SessionRotation, TLC

SessionSymmetry == Permutations(Sessions) \cup Permutations(Workers)
=============================================================================
