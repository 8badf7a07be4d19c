------------------------- MODULE MCConflictAnswers -------------------------
(* Small instances of ConflictAnswers for TLC.                            *)
EXTENDS ConflictAnswersInv, TLC

IdSymmetry == Permutations(Ids)
=============================================================================
