------------------------------ MODULE Extraction ------------------------------
(***************************************************************************)
(* POST /extract: the handler of api/routes.py, extract_metadata of        *)
(* services/extractor.py and the private copy of the cookies of            *)
(* services/authentication.py.  The calls run in threads of the server     *)
(* that share one semaphore.  Each step is the code between two points     *)
(* where an exception may leave it, and goes where the exception goes: to  *)
(* the except or finally clause of the innermost try it is in.             *)
(*                                                                         *)
(* A definition marked "Slip" is not part of the model: it is a plausible  *)
(* mistake in the definition after it, for mutation checks.                *)
(***************************************************************************)
EXTENDS Naturals, FiniteSets

CONSTANTS
    Calls,          \* the calls that may overlap
    MaxConcurrent,  \* settings.max_concurrent_jobs, the semaphore's value
    MaxTries        \* range(3) in extract_metadata

ASSUME ExtractionAssumption ==
    /\ IsFiniteSet(Calls)
    /\ MaxConcurrent \in Nat \ {0} /\ MaxTries \in Nat \ {0}

VARIABLES
    permits,  \* extract_semaphore
    place,    \* per call: where its thread is
    useAuth,  \* the calls with use_auth
    try,      \* per call: attempt + 1
    info,     \* the calls whose inspection found something
    copy      \* per call: the directory of its copy of the cookies

vars == <<permits, place, useAuth, try, info, copy>>

(* Inside both try statements, inside the handler's only, and the clauses  *)
(* they end in.                                                            *)
Places ==
    {"none", "check", "read", "write", "discard", "inspect", "remove", "describe",
     "release"}

ExtractionTypeOK ==
    /\ permits \in 0..MaxConcurrent
    /\ place \in [Calls -> Places]
    /\ useAuth \subseteq Calls /\ info \subseteq Calls
    /\ try \in [Calls -> 1..MaxTries]
    /\ copy \in [Calls -> {"none", "directory", "file"}]

Init ==
    /\ permits = MaxConcurrent
    /\ place = [r \in Calls |-> "none"]
    /\ useAuth = {} /\ info = {}
    /\ try = [r \in Calls |-> 1]
    /\ copy = [r \in Calls |-> "none"]

At(r, p) == place[r] = p
Goto(r, p) == place' = [place EXCEPT ![r] = p]
Copy(r, c) == copy' = [copy EXCEPT ![r] = c]

-----------------------------------------------------------------------------
(* routes.extract                                                          *)

(* Slip: the permit is not asked for but counted.                          *)
AcquireUnasked(r) ==
    /\ At(r, "none")
    /\ permits' = permits - 1
    /\ useAuth' \in {useAuth, useAuth \cup {r}}
    /\ Goto(r, "check")
    /\ UNCHANGED <<try, info, copy>>

(* acquire(blocking=False); a call that gets no permit is answered 429 and *)
(* changes nothing.                                                        *)
Acquire(r) ==
    /\ At(r, "none")
    /\ permits > 0
    /\ permits' = permits - 1
    /\ useAuth' \in {useAuth, useAuth \cup {r}}
    /\ Goto(r, "check")
    /\ UNCHANGED <<try, info, copy>>

(* Slip: validation stands before the try.                                 *)
CheckUnprotected(r) ==
    /\ At(r, "check")
    /\ \/ Goto(r, IF r \in useAuth THEN "read" ELSE "inspect") /\ UNCHANGED useAuth
       \/ Goto(r, "none") /\ useAuth' = useAuth \ {r}
    /\ UNCHANGED <<permits, try, info, copy>>

(* validate_url and require_authentication: either may raise.              *)
Check(r) ==
    /\ At(r, "check")
    /\ \/ Goto(r, IF r \in useAuth THEN "read" ELSE "inspect")
       \/ Goto(r, "release")
    /\ UNCHANGED <<permits, useAuth, try, info, copy>>

(* The finally clause, with an answer or an exception on its way out; what *)
(* the thread knew of the call is gone.                                    *)
Release(r) ==
    /\ At(r, "release")
    /\ permits' = permits + 1
    /\ useAuth' = useAuth \ {r} /\ info' = info \ {r}
    /\ try' = [try EXCEPT ![r] = 1]
    /\ Goto(r, "none")
    /\ UNCHANGED copy

-----------------------------------------------------------------------------
(* create_cookie_copy, called before the try of extract_metadata           *)

(* _cookie_bytes reads the configured file again, which may have changed   *)
(* since the check; then the directory is made and its mode set, both      *)
(* before any try: where chmod raises, an empty directory is left.         *)
ReadCookies(r) ==
    /\ At(r, "read")
    /\ \/ Goto(r, "write") /\ Copy(r, "directory")
       \/ Goto(r, "release") /\ copy' \in {copy, [copy EXCEPT ![r] = "directory"]}
    /\ UNCHANGED <<permits, useAuth, try, info>>

WriteCopy(r) ==
    /\ At(r, "write")
    /\ Goto(r, "inspect") /\ Copy(r, "file")
    /\ UNCHANGED <<permits, useAuth, try, info>>

(* The file cannot be made, or is left half written.                       *)
WriteFails(r) ==
    /\ At(r, "write")
    /\ Goto(r, "discard")
    /\ copy' \in {copy, [copy EXCEPT ![r] = "file"]}
    /\ UNCHANGED <<permits, useAuth, try, info>>

(* The except clause; the exception goes on to the handler.                *)
Discard(r) ==
    /\ At(r, "discard")
    /\ Copy(r, "none")
    /\ Goto(r, "release")
    /\ UNCHANGED <<permits, useAuth, try, info>>

-----------------------------------------------------------------------------
(* extract_metadata, inside its try                                        *)

(* The extraction, or from the second try the embedded post, finds a       *)
(* single item.                                                            *)
Finds(r) ==
    /\ At(r, "inspect")
    /\ info' = info \cup {r}
    /\ Goto(r, "remove")
    /\ UNCHANGED <<permits, useAuth, try, copy>>

(* A DownloadError that may pass.                                          *)
TriesAgain(r) ==
    /\ At(r, "inspect")
    /\ try[r] < MaxTries
    /\ try' = [try EXCEPT ![r] = @ + 1]
    /\ UNCHANGED <<permits, place, useAuth, info, copy>>

(* Any other exception, of the first extraction or of the embedded post,   *)
(* and a DownloadError of the last try.                                    *)
Fails(r) ==
    /\ At(r, "inspect")
    /\ Goto(r, "remove")
    /\ UNCHANGED <<permits, useAuth, try, info, copy>>

(* remove_cookie_copy in the finally clause.  It may raise itself, having  *)
(* removed the directory.                                                  *)
Remove(r) ==
    /\ At(r, "remove")
    /\ Copy(r, "none")
    /\ \/ r \in info /\ Goto(r, "describe")
       \/ Goto(r, "release")
    /\ UNCHANGED <<permits, useAuth, try, info>>

(* ensure_extractor_allowed and the answer's fields: a result or an        *)
(* exception.                                                              *)
Describe(r) ==
    /\ At(r, "describe")
    /\ Goto(r, "release")
    /\ UNCHANGED <<permits, useAuth, try, info, copy>>

-----------------------------------------------------------------------------
Handling(r) ==
    \/ Check(r) \/ Release(r)
    \/ ReadCookies(r) \/ WriteCopy(r) \/ WriteFails(r) \/ Discard(r)
    \/ Finds(r) \/ TriesAgain(r) \/ Fails(r) \/ Remove(r) \/ Describe(r)

Next == \E r \in Calls : Acquire(r) \/ Handling(r)

Spec == Init /\ [][Next]_vars

-----------------------------------------------------------------------------
(* Every way out of a call has passed through the clause that returns its  *)
(* permit, and none passes it twice: what is not free is held by a call    *)
(* that is under way.                                                      *)
PermitsReturned ==
    permits + Cardinality({r \in Calls : place[r] # "none"}) = MaxConcurrent

(* The cookies are there for each try of an authenticated inspection, also *)
(* after one that failed, and are gone before the call is answered or      *)
(* raises, wherever the exception came from.                               *)
CopyWhileNeeded ==
    \A r \in Calls :
        /\ At(r, "inspect") => (copy[r] = "file" <=> r \in useAuth)
        /\ place[r] \in {"none", "check", "read", "describe", "release"}
               => copy[r] # "file"

(* docs/architecture.md:80: "The copy is removed in a `finally` path"; no  *)
(* outcome of routes.extract and extract_metadata keeps a permit of the    *)
(* semaphore or a copy of the cookies, or takes the copy away too early.   *)
InspectionGivesBack == PermitsReturned /\ CopyWhileNeeded

=============================================================================
