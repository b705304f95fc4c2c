------------------------------ MODULE MCPairing ------------------------------
EXTENDS Pairing, TLC

Symmetry == Permutations(Apps) \cup Permutations(Codes)
               \cup Permutations(Keys) \cup Permutations(Claims)

=============================================================================
