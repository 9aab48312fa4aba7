----------------------------- MODULE MCFrontend -----------------------------
EXTENDS Frontend, TLC
Symmetry == Permutations(JobIds)

(* The page run's bound on the requests that overlap                       *)
FewRequests ==
    Cardinality(polls) + Cardinality(deletes) + Cardinality(strays) <= 2
=============================================================================
