------------------------------ MODULE MCRequests ------------------------------
(***************************************************************************)
(* What the threads that serve requests share: the job table, and the      *)
(* permits of /extract.  main.py makes both; neither knows of the other.   *)
(***************************************************************************)
EXTENDS JobStore, Extraction, TLC

RequestsInit == StoreInit /\ Init

RequestsNext ==
    \/ StoreNext /\ UNCHANGED vars
    \/ Next /\ UNCHANGED storeVars

RequestsSpec == RequestsInit /\ [][RequestsNext]_<<storeVars, vars>>

Symmetry == Permutations(JobIds) \cup Permutations(Calls)
=============================================================================
