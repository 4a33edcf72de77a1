------------------------ MODULE MCTrainingEnrollment ------------------------
(* Small instances of TrainingEnrollment for TLC.                          *)
EXTENDS TrainingEnrollmentInvariant, TLC

Symmetry == Permutations(Users) \cup Permutations(EnrollmentIDs) \cup Permutations(Txns)
=============================================================================
