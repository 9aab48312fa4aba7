--------------------------- MODULE ExtractionProofs ---------------------------
(***************************************************************************)
(* The permits and the cookies of POST /extract, for any number of calls,  *)
(* permits and tries.                                                      *)
(***************************************************************************)
EXTENDS Extraction, FiniteSetTheorems, TLAPS

Holders == {r \in Calls : place[r] # "none"}

(* Only an authenticated call comes to create_cookie_copy.                 *)
CopiesAreAskedFor ==
    \A r \in Calls : place[r] \in {"read", "write"} => r \in useAuth

ExtractionInv == ExtractionTypeOK /\ InspectionGivesBack /\ CopiesAreAskedFor

LEMMA InitExtraction == Init => ExtractionInv
<1>. SUFFICES ASSUME Init PROVE ExtractionInv
  OBVIOUS
<1>. USE ExtractionAssumption DEF Init
<1>1. ExtractionTypeOK
  BY DEF ExtractionTypeOK, Places
<1>2. Holders = {}
  BY DEF Holders
<1>3. PermitsReturned
  BY <1>2, FS_EmptySet DEF PermitsReturned, Holders
<1>4. CopyWhileNeeded /\ CopiesAreAskedFor
  BY DEF CopyWhileNeeded, CopiesAreAskedFor, At
<1>. QED  BY <1>1, <1>3, <1>4 DEF ExtractionInv, InspectionGivesBack

(* The semaphore: a call that comes or goes moves one permit.              *)
LEMMA PermitsFollowCalls ==
    ASSUME ExtractionTypeOK, PermitsReturned, NEW r \in Calls,
           Acquire(r) \/ Handling(r)
    PROVE  PermitsReturned' /\ permits' \in 0..MaxConcurrent
<1>. USE ExtractionAssumption DEF ExtractionTypeOK, PermitsReturned
<1>1. IsFiniteSet(Holders) /\ IsFiniteSet(Holders') /\ Cardinality(Holders') \in Nat
      /\ Cardinality(Holders) \in Nat
  BY FS_Subset, FS_CardinalityType DEF Holders
<1>2. permits + Cardinality(Holders) = MaxConcurrent
  BY DEF Holders
<1>3. CASE Acquire(r)
  <2>1. r \notin Holders /\ Holders' = Holders \cup {r}
    BY <1>3 DEF Acquire, Goto, At, Holders
  <2>2. Cardinality(Holders') = Cardinality(Holders) + 1
    BY <1>1, <2>1, FS_AddElement
  <2>3. permits' = permits - 1 /\ permits > 0
    BY <1>3 DEF Acquire
  <2>. QED  BY <1>1, <1>2, <2>2, <2>3 DEF Holders
<1>4. CASE Release(r)
  <2>1. r \in Holders /\ Holders' = Holders \ {r}
    BY <1>4 DEF Release, Goto, At, Holders
  <2>2. Cardinality(Holders') = Cardinality(Holders) - 1
    BY <1>1, <2>1, FS_RemoveElement
  <2>3. permits' = permits + 1
    BY <1>4 DEF Release
  <2>. QED  BY <1>1, <1>2, <2>2, <2>3 DEF Holders
<1>5. CASE Handling(r) /\ ~Release(r)
  <2>1. Holders' = Holders /\ permits' = permits
    BY <1>5
    DEF Handling, Check, ReadCookies, WriteCopy, WriteFails, Discard, Finds,
        TriesAgain, Fails, Remove, Describe, Goto, At, Holders
  <2>. QED  BY <1>1, <1>2, <2>1 DEF Holders
<1>. QED  BY <1>3, <1>4, <1>5 DEF Handling

LEMMA CopyFollowsCall ==
    ASSUME ExtractionTypeOK, CopyWhileNeeded, CopiesAreAskedFor, NEW r \in Calls,
           Acquire(r) \/ Handling(r)
    PROVE  CopyWhileNeeded' /\ CopiesAreAskedFor'
<1>. USE DEF ExtractionTypeOK, CopyWhileNeeded, CopiesAreAskedFor, At, Goto, Copy
<1>1. CASE Acquire(r) \/ Check(r) \/ Release(r)
  BY <1>1 DEF Acquire, Check, Release
<1>2. CASE ReadCookies(r) \/ WriteCopy(r) \/ WriteFails(r) \/ Discard(r)
  BY <1>2 DEF ReadCookies, WriteCopy, WriteFails, Discard
<1>3. CASE Finds(r) \/ TriesAgain(r) \/ Fails(r) \/ Remove(r) \/ Describe(r)
  BY <1>3 DEF Finds, TriesAgain, Fails, Remove, Describe
<1>. QED  BY <1>1, <1>2, <1>3 DEF Handling

LEMMA NextExtraction == ExtractionInv /\ [Next]_vars => ExtractionInv'
<1>. SUFFICES ASSUME ExtractionInv, [Next]_vars PROVE ExtractionInv'
  OBVIOUS
<1>. USE DEF ExtractionInv, InspectionGivesBack
<1>1. ASSUME NEW r \in Calls, Acquire(r) \/ Handling(r)
      PROVE  ExtractionInv'
  <2>1. PermitsReturned' /\ permits' \in 0..MaxConcurrent
    BY <1>1, PermitsFollowCalls
  <2>2. CopyWhileNeeded' /\ CopiesAreAskedFor'
    BY <1>1, CopyFollowsCall
  <2>3. /\ place' \in [Calls -> Places]
        /\ useAuth' \subseteq Calls /\ info' \subseteq Calls
    BY <1>1
    DEF ExtractionTypeOK, Places, Goto, Acquire, Handling, Check, Release,
        ReadCookies, WriteCopy, WriteFails, Discard, Finds, TriesAgain, Fails,
        Remove, Describe
  <2>4. try' \in [Calls -> 1..MaxTries]
    BY <1>1, ExtractionAssumption
    DEF ExtractionTypeOK, Acquire, Handling, Check, Release, ReadCookies,
        WriteCopy, WriteFails, Discard, Finds, TriesAgain, Fails, Remove, Describe
  <2>5. copy' \in [Calls -> {"none", "directory", "file"}]
    BY <1>1
    DEF ExtractionTypeOK, Copy, Acquire, Handling, Check, Release, ReadCookies,
        WriteCopy, WriteFails, Discard, Finds, TriesAgain, Fails, Remove, Describe
  <2>. QED  BY <2>1, <2>2, <2>3, <2>4, <2>5 DEF ExtractionTypeOK
<1>2. CASE UNCHANGED vars
  BY <1>2 DEF vars, ExtractionTypeOK, PermitsReturned, CopyWhileNeeded,
     CopiesAreAskedFor, At
<1>. QED  BY <1>1, <1>2 DEF Next

(* Whatever raises in routes.extract, create_cookie_copy or                *)
(* extract_metadata, at whichever try and in however many calls at once,   *)
(* every permit taken is returned once, and the cookies lie in the         *)
(* download root for the tries of their own call only, and for all of      *)
(* them.                                                                   *)
THEOREM ExtractionGivesBack == Spec => [](ExtractionTypeOK /\ InspectionGivesBack)
<1>1. ExtractionInv => ExtractionTypeOK /\ InspectionGivesBack
  BY DEF ExtractionInv
<1>. QED  BY <1>1, InitExtraction, NextExtraction, PTL DEF Spec

=============================================================================
