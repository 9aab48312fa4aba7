-------------------------- MODULE MCDownloadManager --------------------------
EXTENDS ManagerInvariants, TLC
Symmetry == Permutations(JobIds)
=============================================================================
