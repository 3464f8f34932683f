---------------------------- MODULE FencedOwner ----------------------------
(***************************************************************************)
(* What the lease elector of the Discord bot promises its callers: at any  *)
(* moment at most one process owns the workload, a new owner appears only  *)
(* after the previous one ended, and it owns the newest term ever issued.  *)
(* LeaseElector implements this specification.                             *)
(***************************************************************************)
EXTENDS Naturals

CONSTANT Node

VARIABLES owners,   \* the owners: at most one [node, term]
          issued    \* the newest term given to anybody

vars == <<owners, issued>>

Init == /\ owners = {}
        /\ issued = 0

\* A term is issued while nobody owns the workload.
Issue == /\ owners = {}
         /\ issued' = issued + 1
         /\ UNCHANGED owners

\* A process becomes the owner under the newest term.
Take(n) == /\ owners = {}
           /\ owners' = {[node |-> n, term |-> issued]}
           /\ UNCHANGED issued

\* The owner's ownership ends: by its deadline, a failure or a stop.
Yield == /\ owners # {}
         /\ owners' = {}
         /\ UNCHANGED issued

Next == Issue \/ (\E n \in Node : Take(n)) \/ Yield

Spec == Init /\ [][Next]_vars
=============================================================================
