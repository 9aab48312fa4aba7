------------------------------ MODULE MCLifespan ------------------------------
EXTENDS Lifespan, TLC
Symmetry == Permutations(JobIds)
=============================================================================
