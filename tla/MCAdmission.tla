----------------------------- MODULE MCAdmission -----------------------------
EXTENDS Admission, TLC

Symmetry == Permutations(Guessers) \cup Permutations(Depositors)

=============================================================================
