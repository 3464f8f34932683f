---------------------------- MODULE LatestAnswer ----------------------------
(***************************************************************************)
(* What an asynchronous source cache promises its host, without threads,   *)
(* locks or cancellation: callers submit requests, each of which replaces  *)
(* the one before it; only the latest request can be answered, and an      *)
(* answer stays readable until the next one or until the source is         *)
(* cleared.  AsyncSource implements this specification.                    *)
(***************************************************************************)
EXTENDS Naturals

CONSTANTS Keys,         \* the profiles a host may ask for
          None          \* no request, no answer, no value; not a key

VARIABLES request,      \* the latest request: [key, rev], or None
          answer,       \* the published answer: [key, value], or None
          closed        \* the source no longer takes requests

vars == <<request, answer, closed>>

Requests == [key : Keys, rev : Nat]

\* An answer names the profile it answers; its value is the request it was
\* computed for, or None when that request failed.
Answers == [key : Keys, value : Requests \cup {None}]

Init == request = None /\ answer = None /\ closed = FALSE

\* A new request supersedes the latest one; the old answer may stay readable.
Submit == /\ ~closed
          /\ request' \in Requests
          /\ UNCHANGED <<answer, closed>>

\* A request that could not even be started is answered by its failure.
Refuse == /\ ~closed
          /\ request' \in Requests
          /\ answer' = [key |-> request'.key, value |-> None]
          /\ UNCHANGED closed

\* Only the latest request is answered, under its own profile.
Answer == /\ request # None
          /\ ~closed
          /\ \/ answer' = [key |-> request.key, value |-> request]
             \/ answer' = [key |-> request.key, value |-> None]
          /\ UNCHANGED <<request, closed>>

Clear == request' = None /\ answer' = None /\ UNCHANGED closed

Close == closed' = TRUE /\ UNCHANGED <<request, answer>>

Next == Submit \/ Refuse \/ Answer \/ Clear \/ Close

Spec == Init /\ [][Next]_vars
=============================================================================
