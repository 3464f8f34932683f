------------------------- MODULE LeaseElectorProofs -------------------------
(***************************************************************************)
(* Proofs about LeaseElector for every number of processes, every lease    *)
(* time and every bound.  The inductive invariant IInv says, besides the   *)
(* types: whoever may still act as the owner is covered by the row of the  *)
(* lease (Covered), a grant or a renewal whose answer is in flight is      *)
(* covered too (GrantCovered, RenewCovered), and an epoch that is being    *)
(* released can neither be owned nor be accepted any more (Retired).       *)
(***************************************************************************)
EXTENDS LeaseElector, TLAPS

-----------------------------------------------------------------------------
(* The inductive invariant.                                                 *)

Waiting(n) == pc[n] \in {"preparing", "acquiring"}
Granted(n) == pc[n] = "acquiring" /\ call[n].stage = "granted"
Owning(n) == IsLeader(n) \/ (Punctual /\ epoch[n] # 0)

WaitingOwnsNothing == \A n \in Node : Waiting(n) => epoch[n] = 0

Covered == \A n \in Node : Owning(n) => Holds(n, epoch[n]) /\ left[n] < lease.left

GrantCovered ==
    \A n \in Node : Granted(n) /\ call[n].own > 0 =>
        Holds(n, call[n].epoch) /\ call[n].own < lease.left

RenewCovered ==
    \A n \in Node : pc[n] = "renewing" /\ epoch[n] # 0 =>
        /\ call[n].epoch = epoch[n]
        /\ call[n].stage = "granted" /\ Holds(n, epoch[n]) /\ call[n].own > 0 =>
                call[n].own < lease.left

EpochsBounded ==
    \A n \in Node : /\ epoch[n] <= lease.epoch
                    /\ call[n].epoch <= lease.epoch
                    /\ Granted(n) => call[n].epoch # 0

Returns(m) == m.kind = "release" \/ m.stage = "granted"
Retired ==
    \A m \in late : Returns(m) =>
        /\ m.epoch # 0 /\ m.epoch <= lease.epoch
        /\ epoch[m.node] # m.epoch
        /\ Granted(m.node) => call[m.node].epoch # m.epoch

StoppedOwnsNothing == \A n \in Node : quit[n] = "stopped" => epoch[n] = 0

IInv == /\ TypeOK /\ WaitingOwnsNothing /\ Covered /\ GrantCovered /\ RenewCovered
        /\ EpochsBounded /\ Retired /\ WorkIsOwned /\ StoppedOwnsNothing

-----------------------------------------------------------------------------
(* Types.                                                                   *)

\* One unit less keeps a time within its range.
LEMMA LessBound == ASSUME NEW k \in Nat, NEW a \in 0 .. k PROVE Less(a) \in 0 .. k
  BY DEF Less

LEMMA TypeStep == TypeOK /\ [Next]_vars => TypeOK'
<1> SUFFICES ASSUME TypeOK, [Next]_vars PROVE TypeOK'
  OBVIOUS
<1>1. CASE Tick
  <2>1. lease' \in [name : Names, holder : Node \union {NoNode}, epoch : Nat, left : 0 .. LeaseMs]
    <3>1. lease' = [lease EXCEPT !.left = Less(lease.left)]
      BY <1>1 DEF Tick
    <3>2. Less(lease.left) \in 0 .. LeaseMs
      BY LessBound, LeaseAssumption DEF TypeOK
    <3>3. QED
      BY <3>1, <3>2 DEF TypeOK
  <2>2. pc' \in [Node -> {"down", "top", "preparing", "acquiring", "starting", "leading", "renewing", "refreshing", "standby", "done"}]
    BY <1>1, LeaseAssumption DEF Tick, Less, TimerDue, TypeOK, Calls, Stray
  <2>3. epoch' \in [Node -> Nat]
    BY <1>1, LeaseAssumption DEF Tick, Less, TimerDue, TypeOK, Calls, Stray
  <2>4. left' \in [Node -> 0 .. FailSafeMs]
    <3>1. \A n \in Node : Less(left[n]) \in 0 .. FailSafeMs
      BY LessBound, LeaseAssumption DEF TypeOK
    <3>2. QED
      BY <1>1, <3>1 DEF Tick, TypeOK
  <2>5. call' \in [Node -> Calls]
    <3>1. \A n \in Node : /\ Less(call[n].op) \in 0 .. OperationMs
                          /\ Less(call[n].own) \in 0 .. FailSafeMs
      BY LessBound, LeaseAssumption DEF TypeOK, Calls
    <3>2. QED
      BY <1>1, <3>1 DEF Tick, TypeOK, Calls
  <2>6. late' \subseteq Stray
    BY <1>1, LeaseAssumption DEF Tick, Less, TimerDue, TypeOK, Calls, Stray
  <2>7. work' \in [Node -> {"none", "login", "up"}]
    BY <1>1, LeaseAssumption DEF Tick, Less, TimerDue, TypeOK, Calls, Stray
  <2>8. quit' \in [Node -> {"no", "shutdown", "stopped"}]
    BY <1>1, LeaseAssumption DEF Tick, Less, TimerDue, TypeOK, Calls, Stray
  <2>9. QED
    BY <2>1, <2>2, <2>3, <2>4, <2>5, <2>6, <2>7, <2>8 DEF TypeOK
<1>2. ASSUME NEW n \in Node, Exit(n) PROVE TypeOK'
  BY <1>2, LeaseAssumption DEF Exit, Demote, EndOwnership, Sent, Farewell, Release, GoTo, TypeOK, Calls, Stray
<1>3. ASSUME NEW n \in Node, Lead(n) PROVE TypeOK'
  BY <1>3, LeaseAssumption DEF Lead, GoTo, TypeOK, Calls, Stray
<1>4. ASSUME NEW n \in Node, Stand(n) PROVE TypeOK'
  <2>1. lease' \in [name : Names, holder : Node \union {NoNode}, epoch : Nat, left : 0 .. LeaseMs]
    BY <1>4, LeaseAssumption DEF Stand, Demote, EndOwnership, Sent, Farewell, Release, GoTo, Ask, TypeOK, Calls, Stray
  <2>2. pc' \in [Node -> {"down", "top", "preparing", "acquiring", "starting", "leading", "renewing", "refreshing", "standby", "done"}]
    BY <1>4, LeaseAssumption DEF Stand, Demote, EndOwnership, Sent, Farewell, Release, GoTo, Ask, TypeOK, Calls, Stray
  <2>3. epoch' \in [Node -> Nat]
    BY <1>4, LeaseAssumption DEF Stand, Demote, EndOwnership, Sent, Farewell, Release, GoTo, Ask, TypeOK, Calls, Stray
  <2>4. left' \in [Node -> 0 .. FailSafeMs]
    BY <1>4, LeaseAssumption DEF Stand, Demote, EndOwnership, Sent, Farewell, Release, GoTo, Ask, TypeOK, Calls, Stray
  <2>5. call' \in [Node -> Calls]
    BY <1>4, LeaseAssumption DEF Stand, Demote, EndOwnership, Sent, Farewell, Release, GoTo, Ask, TypeOK, Calls, Stray
  <2>6. late' \subseteq Stray
    BY <1>4, LeaseAssumption DEF Stand, Demote, EndOwnership, Sent, Farewell, Release, GoTo, Ask, TypeOK, Calls, Stray
  <2>7. work' \in [Node -> {"none", "login", "up"}]
    BY <1>4, LeaseAssumption DEF Stand, Demote, EndOwnership, Sent, Farewell, Release, GoTo, Ask, TypeOK, Calls, Stray
  <2>8. quit' \in [Node -> {"no", "shutdown", "stopped"}]
    BY <1>4, LeaseAssumption DEF Stand, Demote, EndOwnership, Sent, Farewell, Release, GoTo, Ask, TypeOK, Calls, Stray
  <2>9. QED
    BY <2>1, <2>2, <2>3, <2>4, <2>5, <2>6, <2>7, <2>8 DEF TypeOK
<1>5. ASSUME NEW n \in Node, Prepared(n) PROVE TypeOK'
  BY <1>5, LeaseAssumption DEF Prepared, GoTo, Ask, TypeOK, Calls, Stray
<1>6. ASSUME NEW n \in Node, Unprepared(n) PROVE TypeOK'
  BY <1>6, LeaseAssumption DEF Unprepared, GoTo, TypeOK, Calls, Stray
<1>7. ASSUME NEW n \in Node, Wake(n) PROVE TypeOK'
  BY <1>7, LeaseAssumption DEF Wake, GoTo, TypeOK, Calls, Stray
<1>8. ASSUME NEW n \in Node, Accept(n) PROVE TypeOK'
  <2>1. lease' \in [name : Names, holder : Node \union {NoNode}, epoch : Nat, left : 0 .. LeaseMs]
    BY <1>8, LeaseAssumption DEF Accept, GoTo, Hangs, NoCall, Sent, Release, Budget, InTime, Answerable, TypeOK, Calls, Stray
  <2>2. pc' \in [Node -> {"down", "top", "preparing", "acquiring", "starting", "leading", "renewing", "refreshing", "standby", "done"}]
    BY <1>8 DEF Accept, GoTo, TypeOK
  <2>3. epoch' \in [Node -> Nat]
    BY <1>8, LeaseAssumption DEF Accept, GoTo, Hangs, NoCall, Sent, Release, Budget, InTime, Answerable, TypeOK, Calls, Stray
  <2>4. left' \in [Node -> 0 .. FailSafeMs]
    BY <1>8, LeaseAssumption DEF Accept, GoTo, Hangs, NoCall, Sent, Release, Budget, InTime, Answerable, TypeOK, Calls, Stray
  <2>5. call' \in [Node -> Calls]
    BY <1>8, LeaseAssumption DEF Accept, GoTo, Hangs, NoCall, Sent, Release, Budget, InTime, Answerable, TypeOK, Calls, Stray
  <2>6. late' \subseteq Stray
    BY <1>8, LeaseAssumption DEF Accept, GoTo, Hangs, NoCall, Sent, Release, Budget, InTime, Answerable, TypeOK, Calls, Stray
  <2>7. work' \in [Node -> {"none", "login", "up"}]
    BY <1>8, LeaseAssumption DEF Accept, GoTo, Hangs, NoCall, Sent, Release, Budget, InTime, Answerable, TypeOK, Calls, Stray
  <2>8. quit' \in [Node -> {"no", "shutdown", "stopped"}]
    BY <1>8, LeaseAssumption DEF Accept, GoTo, Hangs, NoCall, Sent, Release, Budget, InTime, Answerable, TypeOK, Calls, Stray
  <2>9. QED
    BY <2>1, <2>2, <2>3, <2>4, <2>5, <2>6, <2>7, <2>8 DEF TypeOK
<1>9. ASSUME NEW n \in Node, Decline(n) PROVE TypeOK'
  BY <1>9, LeaseAssumption DEF Decline, GoTo, Hangs, NoCall, Sent, Release, InTime, TypeOK, Calls, Stray
<1>10. ASSUME NEW n \in Node, Refused(n) PROVE TypeOK'
  BY <1>10, LeaseAssumption DEF Refused, GoTo, Hangs, NoCall, TypeOK, Calls, Stray
<1>11. ASSUME NEW n \in Node, AbandonAcquire(n) PROVE TypeOK'
  BY <1>11, LeaseAssumption DEF AbandonAcquire, GoTo, Hangs, NoCall, Sent, Leftover, TypeOK, Calls, Stray
<1>12. ASSUME NEW n \in Node, Started(n) PROVE TypeOK'
  BY <1>12, LeaseAssumption DEF Started, GoTo, TypeOK, Calls, Stray
<1>13. ASSUME NEW n \in Node, StartFailed(n) PROVE TypeOK'
  BY <1>13, LeaseAssumption DEF StartFailed, Demote, EndOwnership, Sent, Farewell, Release, GoTo, TypeOK, Calls, Stray
<1>14. ASSUME NEW n \in Node, StartAborted(n) PROVE TypeOK'
  BY <1>14, LeaseAssumption DEF StartAborted, GoTo, TypeOK, Calls, Stray
<1>15. ASSUME NEW n \in Node, RenewAsk(n) PROVE TypeOK'
  <2>1. lease' \in [name : Names, holder : Node \union {NoNode}, epoch : Nat, left : 0 .. LeaseMs]
    BY <1>15, LeaseAssumption DEF RenewAsk, GoTo, Ask, Least, TypeOK, Calls, Stray
  <2>2. pc' \in [Node -> {"down", "top", "preparing", "acquiring", "starting", "leading", "renewing", "refreshing", "standby", "done"}]
    <3>1. \E label \in {"renewing", "top"} : pc' = [pc EXCEPT ![n] = label]
      BY <1>15, Zenon DEF RenewAsk, GoTo
    <3>2. QED
      BY <3>1 DEF TypeOK
  <2>3. epoch' \in [Node -> Nat]
    BY <1>15, LeaseAssumption DEF RenewAsk, GoTo, Ask, Least, TypeOK, Calls, Stray
  <2>4. left' \in [Node -> 0 .. FailSafeMs]
    BY <1>15, LeaseAssumption DEF RenewAsk, GoTo, Ask, Least, TypeOK, Calls, Stray
  <2>5. call' \in [Node -> Calls]
    BY <1>15, LeaseAssumption DEF RenewAsk, GoTo, Ask, Least, TypeOK, Calls, Stray
  <2>6. late' \subseteq Stray
    BY <1>15, LeaseAssumption DEF RenewAsk, GoTo, Ask, Least, TypeOK, Calls, Stray
  <2>7. work' \in [Node -> {"none", "login", "up"}]
    BY <1>15, LeaseAssumption DEF RenewAsk, GoTo, Ask, Least, TypeOK, Calls, Stray
  <2>8. quit' \in [Node -> {"no", "shutdown", "stopped"}]
    BY <1>15, LeaseAssumption DEF RenewAsk, GoTo, Ask, Least, TypeOK, Calls, Stray
  <2>9. QED
    BY <2>1, <2>2, <2>3, <2>4, <2>5, <2>6, <2>7, <2>8 DEF TypeOK
<1>16. ASSUME NEW n \in Node, Renewed(n) PROVE TypeOK'
  BY <1>16, LeaseAssumption DEF Renewed, GoTo, Hangs, NoCall, Budget, InOwnership, TypeOK, Calls, Stray
<1>17. ASSUME NEW n \in Node, RenewRefused(n) PROVE TypeOK'
  BY <1>17, LeaseAssumption DEF RenewRefused, Demote, EndOwnership, Sent, Farewell, Release, GoTo, Hangs, NoCall, TypeOK, Calls, Stray
<1>18. ASSUME NEW n \in Node, RenewStale(n) PROVE TypeOK'
  BY <1>18, LeaseAssumption DEF RenewStale, Sent, Leftover, GoTo, Hangs, NoCall, TypeOK, Calls, Stray
<1>19. ASSUME NEW n \in Node, RenewFailed(n) PROVE TypeOK'
  <2>1. lease' \in [name : Names, holder : Node \union {NoNode}, epoch : Nat, left : 0 .. LeaseMs]
    BY <1>19, LeaseAssumption DEF RenewFailed, TypeOK
  <2>2. pc' \in [Node -> {"down", "top", "preparing", "acquiring", "starting", "leading", "renewing", "refreshing", "standby", "done"}]
    BY <1>19, LeaseAssumption DEF RenewFailed, GoTo, TypeOK
  <2>3. epoch' \in [Node -> Nat]
    BY <1>19, LeaseAssumption DEF RenewFailed, EndOwnership, TypeOK
  <2>4. left' \in [Node -> 0 .. FailSafeMs]
    BY <1>19, LeaseAssumption DEF RenewFailed, TypeOK
  <2>5. call' \in [Node -> Calls]
    BY <1>19, LeaseAssumption DEF RenewFailed, Hangs, NoCall, TypeOK, Calls
  <2>6. late' \subseteq Stray
    BY <1>19, LeaseAssumption DEF RenewFailed, Sent, Leftover, Farewell, Release, TypeOK, Calls, Stray
  <2>7. work' \in [Node -> {"none", "login", "up"}]
    BY <1>19, LeaseAssumption DEF RenewFailed, EndOwnership, TypeOK
  <2>8. quit' \in [Node -> {"no", "shutdown", "stopped"}]
    BY <1>19, LeaseAssumption DEF RenewFailed, TypeOK
  <2>9. QED
    BY <2>1, <2>2, <2>3, <2>4, <2>5, <2>6, <2>7, <2>8 DEF TypeOK
<1>20. ASSUME NEW n \in Node, Refreshed(n) PROVE TypeOK'
  <2>1. lease' \in [name : Names, holder : Node \union {NoNode}, epoch : Nat, left : 0 .. LeaseMs]
    BY <1>20, LeaseAssumption DEF Refreshed, Demote, EndOwnership, Sent, Farewell, Release, GoTo, TypeOK, Calls, Stray
  <2>2. pc' \in [Node -> {"down", "top", "preparing", "acquiring", "starting", "leading", "renewing", "refreshing", "standby", "done"}]
    BY <1>20, LeaseAssumption DEF Refreshed, Demote, EndOwnership, Sent, Farewell, Release, GoTo, TypeOK, Calls, Stray
  <2>3. epoch' \in [Node -> Nat]
    BY <1>20, LeaseAssumption DEF Refreshed, Demote, EndOwnership, Sent, Farewell, Release, GoTo, TypeOK, Calls, Stray
  <2>4. left' \in [Node -> 0 .. FailSafeMs]
    BY <1>20, LeaseAssumption DEF Refreshed, Demote, EndOwnership, Sent, Farewell, Release, GoTo, TypeOK, Calls, Stray
  <2>5. call' \in [Node -> Calls]
    BY <1>20, LeaseAssumption DEF Refreshed, Demote, EndOwnership, Sent, Farewell, Release, GoTo, TypeOK, Calls, Stray
  <2>6. late' \subseteq Stray
    BY <1>20, LeaseAssumption DEF Refreshed, Demote, EndOwnership, Sent, Farewell, Release, GoTo, TypeOK, Calls, Stray
  <2>7. work' \in [Node -> {"none", "login", "up"}]
    BY <1>20, LeaseAssumption DEF Refreshed, Demote, EndOwnership, Sent, Farewell, Release, GoTo, TypeOK, Calls, Stray
  <2>8. quit' \in [Node -> {"no", "shutdown", "stopped"}]
    BY <1>20, LeaseAssumption DEF Refreshed, Demote, EndOwnership, Sent, Farewell, Release, GoTo, TypeOK, Calls, Stray
  <2>9. QED
    BY <2>1, <2>2, <2>3, <2>4, <2>5, <2>6, <2>7, <2>8 DEF TypeOK
<1>21. ASSUME NEW n \in Node, DeadlineTimer(n) PROVE TypeOK'
  BY <1>21, LeaseAssumption DEF DeadlineTimer, TimerDue, Demote, EndOwnership, Sent, Farewell, Release, TypeOK, Calls, Stray
<1>22. ASSUME NEW n \in Node, Join(n) PROVE TypeOK'
  BY <1>22, LeaseAssumption DEF Join, TypeOK, Calls, Stray
<1>23. ASSUME NEW n \in Node, ServeAcquire(n) PROVE TypeOK'
  <2>1. lease' \in [name : Names, holder : Node \union {NoNode}, epoch : Nat, left : 0 .. LeaseMs]
    BY <1>23, LeaseAssumption DEF ServeAcquire, Free, Grant, Answer, TypeOK, Calls, Stray
  <2>2. pc' \in [Node -> {"down", "top", "preparing", "acquiring", "starting", "leading", "renewing", "refreshing", "standby", "done"}]
    BY <1>23, LeaseAssumption DEF ServeAcquire, Free, Grant, Answer, TypeOK, Calls, Stray
  <2>3. epoch' \in [Node -> Nat]
    BY <1>23, LeaseAssumption DEF ServeAcquire, Free, Grant, Answer, TypeOK, Calls, Stray
  <2>4. left' \in [Node -> 0 .. FailSafeMs]
    BY <1>23, LeaseAssumption DEF ServeAcquire, Free, Grant, Answer, TypeOK, Calls, Stray
  <2>5. call' \in [Node -> Calls]
    BY <1>23, LeaseAssumption DEF ServeAcquire, Free, Grant, Answer, TypeOK, Calls, Stray
  <2>6. late' \subseteq Stray
    BY <1>23, LeaseAssumption DEF ServeAcquire, Free, Grant, Answer, TypeOK, Calls, Stray
  <2>7. work' \in [Node -> {"none", "login", "up"}]
    BY <1>23, LeaseAssumption DEF ServeAcquire, Free, Grant, Answer, TypeOK, Calls, Stray
  <2>8. quit' \in [Node -> {"no", "shutdown", "stopped"}]
    BY <1>23, LeaseAssumption DEF ServeAcquire, Free, Grant, Answer, TypeOK, Calls, Stray
  <2>9. QED
    BY <2>1, <2>2, <2>3, <2>4, <2>5, <2>6, <2>7, <2>8 DEF TypeOK
<1>24. ASSUME NEW n \in Node, ServeRenew(n) PROVE TypeOK'
  <2>1. lease' \in [name : Names, holder : Node \union {NoNode}, epoch : Nat, left : 0 .. LeaseMs]
    BY <1>24, LeaseAssumption DEF ServeRenew, Extend, TypeOK
  <2>2. pc' \in [Node -> {"down", "top", "preparing", "acquiring", "starting", "leading", "renewing", "refreshing", "standby", "done"}]
    BY <1>24, LeaseAssumption DEF ServeRenew, TypeOK
  <2>3. epoch' \in [Node -> Nat]
    BY <1>24, LeaseAssumption DEF ServeRenew, TypeOK
  <2>4. left' \in [Node -> 0 .. FailSafeMs]
    BY <1>24, LeaseAssumption DEF ServeRenew, TypeOK
  <2>5. call' \in [Node -> Calls]
    BY <1>24, LeaseAssumption DEF ServeRenew, Answer, TypeOK, Calls
  <2>6. late' \subseteq Stray
    BY <1>24, LeaseAssumption DEF ServeRenew, TypeOK
  <2>7. work' \in [Node -> {"none", "login", "up"}]
    BY <1>24, LeaseAssumption DEF ServeRenew, TypeOK
  <2>8. quit' \in [Node -> {"no", "shutdown", "stopped"}]
    BY <1>24, LeaseAssumption DEF ServeRenew, TypeOK
  <2>9. QED
    BY <2>1, <2>2, <2>3, <2>4, <2>5, <2>6, <2>7, <2>8 DEF TypeOK
<1>25. ASSUME NEW n \in Node, Shutdown(n) PROVE TypeOK'
  BY <1>25, LeaseAssumption DEF Shutdown, TypeOK, Calls, Stray
<1>26. ASSUME NEW n \in Node, Stop(n) PROVE TypeOK'
  BY <1>26, LeaseAssumption DEF Stop, Demote, EndOwnership, Sent, Farewell, Release, TypeOK, Calls, Stray
<1>27. ASSUME NEW n \in Node, Crash(n) PROVE TypeOK'
  BY <1>27, LeaseAssumption DEF Crash, EndOwnership, Leftover, GoTo, Hangs, NoCall, TypeOK, Calls, Stray
<1>28. ASSUME NEW n \in Node, Restart(n) PROVE TypeOK'
  BY <1>28, LeaseAssumption DEF Restart, GoTo, TypeOK, Calls, Stray
<1>29. ASSUME NEW m \in late, ServeLate(m) PROVE TypeOK'
  BY <1>29, LeaseAssumption DEF ServeLate, Free, Grant, Renewable, Holds, Extend, Releases, TypeOK, Calls, Stray
<1>30. ASSUME NEW m \in late, Lose(m) PROVE TypeOK'
  BY <1>30, LeaseAssumption DEF Lose, TypeOK, Calls, Stray
<1>31. ASSUME NEW m \in late, LateGrant(m) PROVE TypeOK'
  BY <1>31, LeaseAssumption DEF LateGrant, Release, TypeOK, Calls, Stray
<1>32. CASE UNCHANGED vars
  BY <1>32 DEF vars, TypeOK, Calls, Stray
<1>33. QED
  BY <1>1, <1>2, <1>3, <1>4, <1>5, <1>6, <1>7, <1>8, <1>9, <1>10, <1>11, <1>12, <1>13, <1>14, <1>15, <1>16, <1>17, <1>18, <1>19, <1>20, <1>21, <1>22, <1>23, <1>24, <1>25, <1>26, <1>27, <1>28, <1>29, <1>30, <1>31, <1>32 DEF Next, Loop

LEMMA WaitingOwnsNothingStep == TypeOK /\ TypeOK' /\ WaitingOwnsNothing /\ [Next]_vars => WaitingOwnsNothing'
<1> SUFFICES ASSUME TypeOK, TypeOK', WaitingOwnsNothing, [Next]_vars PROVE WaitingOwnsNothing'
  OBVIOUS
<1>1. CASE Tick
  BY <1>1, LeaseAssumption DEF Tick, Less, TimerDue, Waiting, WaitingOwnsNothing, TypeOK, Calls, Stray
<1>2. ASSUME NEW n \in Node, Exit(n) PROVE WaitingOwnsNothing'
  BY <1>2, LeaseAssumption DEF Exit, Demote, EndOwnership, Sent, Farewell, Release, GoTo, Waiting, WaitingOwnsNothing, TypeOK, Calls, Stray
<1>3. ASSUME NEW n \in Node, Lead(n) PROVE WaitingOwnsNothing'
  BY <1>3, LeaseAssumption DEF Lead, GoTo, Waiting, WaitingOwnsNothing, TypeOK, Calls, Stray
<1>4. ASSUME NEW n \in Node, Stand(n) PROVE WaitingOwnsNothing'
  BY <1>4, LeaseAssumption DEF Stand, Demote, EndOwnership, Sent, Farewell, Release, GoTo, Ask, Waiting, WaitingOwnsNothing, TypeOK, Calls, Stray
<1>5. ASSUME NEW n \in Node, Prepared(n) PROVE WaitingOwnsNothing'
  BY <1>5, LeaseAssumption DEF Prepared, GoTo, Ask, Waiting, WaitingOwnsNothing, TypeOK, Calls, Stray
<1>6. ASSUME NEW n \in Node, Unprepared(n) PROVE WaitingOwnsNothing'
  BY <1>6, LeaseAssumption DEF Unprepared, GoTo, Waiting, WaitingOwnsNothing, TypeOK, Calls, Stray
<1>7. ASSUME NEW n \in Node, Wake(n) PROVE WaitingOwnsNothing'
  BY <1>7, LeaseAssumption DEF Wake, GoTo, Waiting, WaitingOwnsNothing, TypeOK, Calls, Stray
<1>8. ASSUME NEW n \in Node, Accept(n) PROVE WaitingOwnsNothing'
  BY <1>8, LeaseAssumption DEF Accept, GoTo, Hangs, NoCall, Sent, Release, Budget, InTime, Answerable, Waiting, WaitingOwnsNothing, TypeOK, Calls, Stray
<1>9. ASSUME NEW n \in Node, Decline(n) PROVE WaitingOwnsNothing'
  BY <1>9, LeaseAssumption DEF Decline, GoTo, Hangs, NoCall, Sent, Release, InTime, Waiting, WaitingOwnsNothing, TypeOK, Calls, Stray
<1>10. ASSUME NEW n \in Node, Refused(n) PROVE WaitingOwnsNothing'
  BY <1>10, LeaseAssumption DEF Refused, GoTo, Hangs, NoCall, Waiting, WaitingOwnsNothing, TypeOK, Calls, Stray
<1>11. ASSUME NEW n \in Node, AbandonAcquire(n) PROVE WaitingOwnsNothing'
  BY <1>11, LeaseAssumption DEF AbandonAcquire, GoTo, Hangs, NoCall, Sent, Leftover, Waiting, WaitingOwnsNothing, TypeOK, Calls, Stray
<1>12. ASSUME NEW n \in Node, Started(n) PROVE WaitingOwnsNothing'
  BY <1>12, LeaseAssumption DEF Started, GoTo, Waiting, WaitingOwnsNothing, TypeOK, Calls, Stray
<1>13. ASSUME NEW n \in Node, StartFailed(n) PROVE WaitingOwnsNothing'
  BY <1>13, LeaseAssumption DEF StartFailed, Demote, EndOwnership, Sent, Farewell, Release, GoTo, Waiting, WaitingOwnsNothing, TypeOK, Calls, Stray
<1>14. ASSUME NEW n \in Node, StartAborted(n) PROVE WaitingOwnsNothing'
  BY <1>14, LeaseAssumption DEF StartAborted, GoTo, Waiting, WaitingOwnsNothing, TypeOK, Calls, Stray
<1>15. ASSUME NEW n \in Node, RenewAsk(n) PROVE WaitingOwnsNothing'
  BY <1>15, LeaseAssumption DEF RenewAsk, GoTo, Ask, Least, Waiting, WaitingOwnsNothing, TypeOK, Calls, Stray
<1>16. ASSUME NEW n \in Node, Renewed(n) PROVE WaitingOwnsNothing'
  BY <1>16, LeaseAssumption DEF Renewed, GoTo, Hangs, NoCall, Budget, InOwnership, Waiting, WaitingOwnsNothing, TypeOK, Calls, Stray
<1>17. ASSUME NEW n \in Node, RenewRefused(n) PROVE WaitingOwnsNothing'
  BY <1>17, LeaseAssumption DEF RenewRefused, Demote, EndOwnership, Sent, Farewell, Release, GoTo, Hangs, NoCall, Waiting, WaitingOwnsNothing, TypeOK, Calls, Stray
<1>18. ASSUME NEW n \in Node, RenewStale(n) PROVE WaitingOwnsNothing'
  BY <1>18, LeaseAssumption DEF RenewStale, Sent, Leftover, GoTo, Hangs, NoCall, Waiting, WaitingOwnsNothing, TypeOK, Calls, Stray
<1>19. ASSUME NEW n \in Node, RenewFailed(n) PROVE WaitingOwnsNothing'
  BY <1>19, LeaseAssumption DEF RenewFailed, EndOwnership, Sent, Leftover, Farewell, Release, GoTo, Hangs, NoCall, Waiting, WaitingOwnsNothing, TypeOK, Calls, Stray
<1>20. ASSUME NEW n \in Node, Refreshed(n) PROVE WaitingOwnsNothing'
  BY <1>20, LeaseAssumption DEF Refreshed, Demote, EndOwnership, Sent, Farewell, Release, GoTo, Waiting, WaitingOwnsNothing, TypeOK, Calls, Stray
<1>21. ASSUME NEW n \in Node, DeadlineTimer(n) PROVE WaitingOwnsNothing'
  BY <1>21, LeaseAssumption DEF DeadlineTimer, TimerDue, Demote, EndOwnership, Sent, Farewell, Release, Waiting, WaitingOwnsNothing, TypeOK, Calls, Stray
<1>22. ASSUME NEW n \in Node, Join(n) PROVE WaitingOwnsNothing'
  BY <1>22, LeaseAssumption DEF Join, Waiting, WaitingOwnsNothing, TypeOK, Calls, Stray
<1>23. ASSUME NEW n \in Node, ServeAcquire(n) PROVE WaitingOwnsNothing'
  BY <1>23, LeaseAssumption DEF ServeAcquire, Free, Grant, Answer, Waiting, WaitingOwnsNothing, TypeOK, Calls, Stray
<1>24. ASSUME NEW n \in Node, ServeRenew(n) PROVE WaitingOwnsNothing'
  BY <1>24, LeaseAssumption DEF ServeRenew, Renewable, Holds, Extend, Answer, Waiting, WaitingOwnsNothing, TypeOK, Calls, Stray
<1>25. ASSUME NEW n \in Node, Shutdown(n) PROVE WaitingOwnsNothing'
  BY <1>25, LeaseAssumption DEF Shutdown, Waiting, WaitingOwnsNothing, TypeOK, Calls, Stray
<1>26. ASSUME NEW n \in Node, Stop(n) PROVE WaitingOwnsNothing'
  BY <1>26, LeaseAssumption DEF Stop, Demote, EndOwnership, Sent, Farewell, Release, Waiting, WaitingOwnsNothing, TypeOK, Calls, Stray
<1>27. ASSUME NEW n \in Node, Crash(n) PROVE WaitingOwnsNothing'
  BY <1>27, LeaseAssumption DEF Crash, EndOwnership, Leftover, GoTo, Hangs, NoCall, Waiting, WaitingOwnsNothing, TypeOK, Calls, Stray
<1>28. ASSUME NEW n \in Node, Restart(n) PROVE WaitingOwnsNothing'
  BY <1>28, LeaseAssumption DEF Restart, GoTo, Waiting, WaitingOwnsNothing, TypeOK, Calls, Stray
<1>29. ASSUME NEW m \in late, ServeLate(m) PROVE WaitingOwnsNothing'
  BY <1>29, LeaseAssumption DEF ServeLate, Free, Grant, Renewable, Holds, Extend, Releases, Waiting, WaitingOwnsNothing, TypeOK, Calls, Stray
<1>30. ASSUME NEW m \in late, Lose(m) PROVE WaitingOwnsNothing'
  BY <1>30, LeaseAssumption DEF Lose, Waiting, WaitingOwnsNothing, TypeOK, Calls, Stray
<1>31. ASSUME NEW m \in late, LateGrant(m) PROVE WaitingOwnsNothing'
  BY <1>31, LeaseAssumption DEF LateGrant, Release, Waiting, WaitingOwnsNothing, TypeOK, Calls, Stray
<1>32. CASE UNCHANGED vars
  BY <1>32 DEF vars, Waiting, WaitingOwnsNothing, TypeOK, Calls, Stray
<1>33. QED
  BY <1>1, <1>2, <1>3, <1>4, <1>5, <1>6, <1>7, <1>8, <1>9, <1>10, <1>11, <1>12, <1>13, <1>14, <1>15, <1>16, <1>17, <1>18, <1>19, <1>20, <1>21, <1>22, <1>23, <1>24, <1>25, <1>26, <1>27, <1>28, <1>29, <1>30, <1>31, <1>32 DEF Next, Loop

LEMMA CoveredStep == TypeOK /\ TypeOK' /\ WaitingOwnsNothing /\ Covered /\ GrantCovered /\ RenewCovered /\ EpochsBounded /\ Retired /\ [Next]_vars => Covered'
<1> SUFFICES ASSUME TypeOK, TypeOK', WaitingOwnsNothing, Covered, GrantCovered, RenewCovered, EpochsBounded, Retired, [Next]_vars PROVE Covered'
  OBVIOUS
<1>1. CASE Tick
  BY <1>1, LeaseAssumption DEF Tick, Less, TimerDue, Covered, EpochsBounded, GrantCovered, Granted, Holds, IsLeader, Owning, RenewCovered, Retired, Returns, Waiting, WaitingOwnsNothing, TypeOK, Calls, Stray
<1>2. ASSUME NEW n \in Node, Exit(n) PROVE Covered'
  BY <1>2, LeaseAssumption DEF Exit, Demote, EndOwnership, Sent, Farewell, Release, GoTo, Covered, EpochsBounded, GrantCovered, Granted, Holds, IsLeader, Owning, RenewCovered, Retired, Returns, Waiting, WaitingOwnsNothing, TypeOK, Calls, Stray
<1>3. ASSUME NEW n \in Node, Lead(n) PROVE Covered'
  BY <1>3, LeaseAssumption DEF Lead, GoTo, Covered, EpochsBounded, GrantCovered, Granted, Holds, IsLeader, Owning, RenewCovered, Retired, Returns, Waiting, WaitingOwnsNothing, TypeOK, Calls, Stray
<1>4. ASSUME NEW n \in Node, Stand(n) PROVE Covered'
  BY <1>4, LeaseAssumption DEF Stand, Demote, EndOwnership, Sent, Farewell, Release, GoTo, Ask, Covered, EpochsBounded, GrantCovered, Granted, Holds, IsLeader, Owning, RenewCovered, Retired, Returns, Waiting, WaitingOwnsNothing, TypeOK, Calls, Stray
<1>5. ASSUME NEW n \in Node, Prepared(n) PROVE Covered'
  BY <1>5, LeaseAssumption DEF Prepared, GoTo, Ask, Covered, EpochsBounded, GrantCovered, Granted, Holds, IsLeader, Owning, RenewCovered, Retired, Returns, Waiting, WaitingOwnsNothing, TypeOK, Calls, Stray
<1>6. ASSUME NEW n \in Node, Unprepared(n) PROVE Covered'
  BY <1>6, LeaseAssumption DEF Unprepared, GoTo, Covered, EpochsBounded, GrantCovered, Granted, Holds, IsLeader, Owning, RenewCovered, Retired, Returns, Waiting, WaitingOwnsNothing, TypeOK, Calls, Stray
<1>7. ASSUME NEW n \in Node, Wake(n) PROVE Covered'
  BY <1>7, LeaseAssumption DEF Wake, GoTo, Covered, EpochsBounded, GrantCovered, Granted, Holds, IsLeader, Owning, RenewCovered, Retired, Returns, Waiting, WaitingOwnsNothing, TypeOK, Calls, Stray
<1>8. ASSUME NEW n \in Node, Accept(n) PROVE Covered'
  BY <1>8, LeaseAssumption DEF Accept, GoTo, Hangs, NoCall, Sent, Release, Budget, InTime, Answerable, Covered, EpochsBounded, GrantCovered, Granted, Holds, IsLeader, Owning, RenewCovered, Retired, Returns, Waiting, WaitingOwnsNothing, TypeOK, Calls, Stray
<1>9. ASSUME NEW n \in Node, Decline(n) PROVE Covered'
  BY <1>9, LeaseAssumption DEF Decline, GoTo, Hangs, NoCall, Sent, Release, InTime, Covered, EpochsBounded, GrantCovered, Granted, Holds, IsLeader, Owning, RenewCovered, Retired, Returns, Waiting, WaitingOwnsNothing, TypeOK, Calls, Stray
<1>10. ASSUME NEW n \in Node, Refused(n) PROVE Covered'
  BY <1>10, LeaseAssumption DEF Refused, GoTo, Hangs, NoCall, Covered, EpochsBounded, GrantCovered, Granted, Holds, IsLeader, Owning, RenewCovered, Retired, Returns, Waiting, WaitingOwnsNothing, TypeOK, Calls, Stray
<1>11. ASSUME NEW n \in Node, AbandonAcquire(n) PROVE Covered'
  BY <1>11, LeaseAssumption DEF AbandonAcquire, GoTo, Hangs, NoCall, Sent, Leftover, Covered, EpochsBounded, GrantCovered, Granted, Holds, IsLeader, Owning, RenewCovered, Retired, Returns, Waiting, WaitingOwnsNothing, TypeOK, Calls, Stray
<1>12. ASSUME NEW n \in Node, Started(n) PROVE Covered'
  BY <1>12, LeaseAssumption DEF Started, GoTo, Covered, EpochsBounded, GrantCovered, Granted, Holds, IsLeader, Owning, RenewCovered, Retired, Returns, Waiting, WaitingOwnsNothing, TypeOK, Calls, Stray
<1>13. ASSUME NEW n \in Node, StartFailed(n) PROVE Covered'
  BY <1>13, LeaseAssumption DEF StartFailed, Demote, EndOwnership, Sent, Farewell, Release, GoTo, Covered, EpochsBounded, GrantCovered, Granted, Holds, IsLeader, Owning, RenewCovered, Retired, Returns, Waiting, WaitingOwnsNothing, TypeOK, Calls, Stray
<1>14. ASSUME NEW n \in Node, StartAborted(n) PROVE Covered'
  BY <1>14, LeaseAssumption DEF StartAborted, GoTo, Covered, EpochsBounded, GrantCovered, Granted, Holds, IsLeader, Owning, RenewCovered, Retired, Returns, Waiting, WaitingOwnsNothing, TypeOK, Calls, Stray
<1>15. ASSUME NEW n \in Node, RenewAsk(n) PROVE Covered'
  BY <1>15, LeaseAssumption DEF RenewAsk, GoTo, Ask, Least, Covered, EpochsBounded, GrantCovered, Granted, Holds, IsLeader, Owning, RenewCovered, Retired, Returns, Waiting, WaitingOwnsNothing, TypeOK, Calls, Stray
<1>16. ASSUME NEW n \in Node, Renewed(n) PROVE Covered'
  BY <1>16, LeaseAssumption DEF Renewed, GoTo, Hangs, NoCall, Budget, InOwnership, Covered, EpochsBounded, GrantCovered, Granted, Holds, IsLeader, Owning, RenewCovered, Retired, Returns, Waiting, WaitingOwnsNothing, TypeOK, Calls, Stray
<1>17. ASSUME NEW n \in Node, RenewRefused(n) PROVE Covered'
  BY <1>17, LeaseAssumption DEF RenewRefused, Demote, EndOwnership, Sent, Farewell, Release, GoTo, Hangs, NoCall, Covered, EpochsBounded, GrantCovered, Granted, Holds, IsLeader, Owning, RenewCovered, Retired, Returns, Waiting, WaitingOwnsNothing, TypeOK, Calls, Stray
<1>18. ASSUME NEW n \in Node, RenewStale(n) PROVE Covered'
  BY <1>18, LeaseAssumption DEF RenewStale, Sent, Leftover, GoTo, Hangs, NoCall, Covered, EpochsBounded, GrantCovered, Granted, Holds, IsLeader, Owning, RenewCovered, Retired, Returns, Waiting, WaitingOwnsNothing, TypeOK, Calls, Stray
<1>19. ASSUME NEW n \in Node, RenewFailed(n) PROVE Covered'
  BY <1>19, LeaseAssumption DEF RenewFailed, EndOwnership, Sent, Leftover, Farewell, Release, GoTo, Hangs, NoCall, Covered, EpochsBounded, GrantCovered, Granted, Holds, IsLeader, Owning, RenewCovered, Retired, Returns, Waiting, WaitingOwnsNothing, TypeOK, Calls, Stray
<1>20. ASSUME NEW n \in Node, Refreshed(n) PROVE Covered'
  BY <1>20, LeaseAssumption DEF Refreshed, Demote, EndOwnership, Sent, Farewell, Release, GoTo, Covered, EpochsBounded, GrantCovered, Granted, Holds, IsLeader, Owning, RenewCovered, Retired, Returns, Waiting, WaitingOwnsNothing, TypeOK, Calls, Stray
<1>21. ASSUME NEW n \in Node, DeadlineTimer(n) PROVE Covered'
  BY <1>21, LeaseAssumption DEF DeadlineTimer, TimerDue, Demote, EndOwnership, Sent, Farewell, Release, Covered, EpochsBounded, GrantCovered, Granted, Holds, IsLeader, Owning, RenewCovered, Retired, Returns, Waiting, WaitingOwnsNothing, TypeOK, Calls, Stray
<1>22. ASSUME NEW n \in Node, Join(n) PROVE Covered'
  BY <1>22, LeaseAssumption DEF Join, Covered, EpochsBounded, GrantCovered, Granted, Holds, IsLeader, Owning, RenewCovered, Retired, Returns, Waiting, WaitingOwnsNothing, TypeOK, Calls, Stray
<1>23. ASSUME NEW n \in Node, ServeAcquire(n) PROVE Covered'
  BY <1>23, LeaseAssumption DEF ServeAcquire, Free, Grant, Answer, Covered, EpochsBounded, GrantCovered, Granted, Holds, IsLeader, Owning, RenewCovered, Retired, Returns, Waiting, WaitingOwnsNothing, TypeOK, Calls, Stray
<1>24. ASSUME NEW n \in Node, ServeRenew(n) PROVE Covered'
  BY <1>24, LeaseAssumption DEF ServeRenew, Renewable, Holds, Extend, Answer, Covered, EpochsBounded, GrantCovered, Granted, IsLeader, Owning, RenewCovered, Retired, Returns, Waiting, WaitingOwnsNothing, TypeOK, Calls, Stray
<1>25. ASSUME NEW n \in Node, Shutdown(n) PROVE Covered'
  BY <1>25, LeaseAssumption DEF Shutdown, Covered, EpochsBounded, GrantCovered, Granted, Holds, IsLeader, Owning, RenewCovered, Retired, Returns, Waiting, WaitingOwnsNothing, TypeOK, Calls, Stray
<1>26. ASSUME NEW n \in Node, Stop(n) PROVE Covered'
  BY <1>26, LeaseAssumption DEF Stop, Demote, EndOwnership, Sent, Farewell, Release, Covered, EpochsBounded, GrantCovered, Granted, Holds, IsLeader, Owning, RenewCovered, Retired, Returns, Waiting, WaitingOwnsNothing, TypeOK, Calls, Stray
<1>27. ASSUME NEW n \in Node, Crash(n) PROVE Covered'
  BY <1>27, LeaseAssumption DEF Crash, EndOwnership, Leftover, GoTo, Hangs, NoCall, Covered, EpochsBounded, GrantCovered, Granted, Holds, IsLeader, Owning, RenewCovered, Retired, Returns, Waiting, WaitingOwnsNothing, TypeOK, Calls, Stray
<1>28. ASSUME NEW n \in Node, Restart(n) PROVE Covered'
  BY <1>28, LeaseAssumption DEF Restart, GoTo, Covered, EpochsBounded, GrantCovered, Granted, Holds, IsLeader, Owning, RenewCovered, Retired, Returns, Waiting, WaitingOwnsNothing, TypeOK, Calls, Stray
<1>29. ASSUME NEW m \in late, ServeLate(m) PROVE Covered'
  BY <1>29, LeaseAssumption DEF ServeLate, Free, Grant, Renewable, Holds, Extend, Releases, Covered, EpochsBounded, GrantCovered, Granted, IsLeader, Owning, RenewCovered, Retired, Returns, Waiting, WaitingOwnsNothing, TypeOK, Calls, Stray
<1>30. ASSUME NEW m \in late, Lose(m) PROVE Covered'
  BY <1>30, LeaseAssumption DEF Lose, Covered, EpochsBounded, GrantCovered, Granted, Holds, IsLeader, Owning, RenewCovered, Retired, Returns, Waiting, WaitingOwnsNothing, TypeOK, Calls, Stray
<1>31. ASSUME NEW m \in late, LateGrant(m) PROVE Covered'
  BY <1>31, LeaseAssumption DEF LateGrant, Release, Covered, EpochsBounded, GrantCovered, Granted, Holds, IsLeader, Owning, RenewCovered, Retired, Returns, Waiting, WaitingOwnsNothing, TypeOK, Calls, Stray
<1>32. CASE UNCHANGED vars
  BY <1>32 DEF vars, Covered, EpochsBounded, GrantCovered, Granted, Holds, IsLeader, Owning, RenewCovered, Retired, Returns, Waiting, WaitingOwnsNothing, TypeOK, Calls, Stray
<1>33. QED
  BY <1>1, <1>2, <1>3, <1>4, <1>5, <1>6, <1>7, <1>8, <1>9, <1>10, <1>11, <1>12, <1>13, <1>14, <1>15, <1>16, <1>17, <1>18, <1>19, <1>20, <1>21, <1>22, <1>23, <1>24, <1>25, <1>26, <1>27, <1>28, <1>29, <1>30, <1>31, <1>32 DEF Next, Loop

LEMMA GrantCoveredStep == TypeOK /\ TypeOK' /\ WaitingOwnsNothing /\ Covered /\ GrantCovered /\ EpochsBounded /\ Retired /\ [Next]_vars => GrantCovered'
<1> SUFFICES ASSUME TypeOK, TypeOK', WaitingOwnsNothing, Covered, GrantCovered, EpochsBounded, Retired, [Next]_vars PROVE GrantCovered'
  OBVIOUS
<1>1. CASE Tick
  BY <1>1, LeaseAssumption DEF Tick, Less, TimerDue, Covered, EpochsBounded, GrantCovered, Granted, Holds, IsLeader, Owning, Retired, Returns, Waiting, WaitingOwnsNothing, TypeOK, Calls, Stray
<1>2. ASSUME NEW n \in Node, Exit(n) PROVE GrantCovered'
  BY <1>2, LeaseAssumption DEF Exit, Demote, EndOwnership, Sent, Farewell, Release, GoTo, Covered, EpochsBounded, GrantCovered, Granted, Holds, IsLeader, Owning, Retired, Returns, Waiting, WaitingOwnsNothing, TypeOK, Calls, Stray
<1>3. ASSUME NEW n \in Node, Lead(n) PROVE GrantCovered'
  BY <1>3, LeaseAssumption DEF Lead, GoTo, Covered, EpochsBounded, GrantCovered, Granted, Holds, IsLeader, Owning, Retired, Returns, Waiting, WaitingOwnsNothing, TypeOK, Calls, Stray
<1>4. ASSUME NEW n \in Node, Stand(n) PROVE GrantCovered'
  BY <1>4, LeaseAssumption DEF Stand, Demote, EndOwnership, Sent, Farewell, Release, GoTo, Ask, Covered, EpochsBounded, GrantCovered, Granted, Holds, IsLeader, Owning, Retired, Returns, Waiting, WaitingOwnsNothing, TypeOK, Calls, Stray
<1>5. ASSUME NEW n \in Node, Prepared(n) PROVE GrantCovered'
  BY <1>5, LeaseAssumption DEF Prepared, GoTo, Ask, Covered, EpochsBounded, GrantCovered, Granted, Holds, IsLeader, Owning, Retired, Returns, Waiting, WaitingOwnsNothing, TypeOK, Calls, Stray
<1>6. ASSUME NEW n \in Node, Unprepared(n) PROVE GrantCovered'
  BY <1>6, LeaseAssumption DEF Unprepared, GoTo, Covered, EpochsBounded, GrantCovered, Granted, Holds, IsLeader, Owning, Retired, Returns, Waiting, WaitingOwnsNothing, TypeOK, Calls, Stray
<1>7. ASSUME NEW n \in Node, Wake(n) PROVE GrantCovered'
  BY <1>7, LeaseAssumption DEF Wake, GoTo, Covered, EpochsBounded, GrantCovered, Granted, Holds, IsLeader, Owning, Retired, Returns, Waiting, WaitingOwnsNothing, TypeOK, Calls, Stray
<1>8. ASSUME NEW n \in Node, Accept(n) PROVE GrantCovered'
  BY <1>8, LeaseAssumption DEF Accept, GoTo, Hangs, NoCall, Sent, Release, Budget, InTime, Answerable, Covered, EpochsBounded, GrantCovered, Granted, Holds, IsLeader, Owning, Retired, Returns, Waiting, WaitingOwnsNothing, TypeOK, Calls, Stray
<1>9. ASSUME NEW n \in Node, Decline(n) PROVE GrantCovered'
  BY <1>9, LeaseAssumption DEF Decline, GoTo, Hangs, NoCall, Sent, Release, InTime, Covered, EpochsBounded, GrantCovered, Granted, Holds, IsLeader, Owning, Retired, Returns, Waiting, WaitingOwnsNothing, TypeOK, Calls, Stray
<1>10. ASSUME NEW n \in Node, Refused(n) PROVE GrantCovered'
  BY <1>10, LeaseAssumption DEF Refused, GoTo, Hangs, NoCall, Covered, EpochsBounded, GrantCovered, Granted, Holds, IsLeader, Owning, Retired, Returns, Waiting, WaitingOwnsNothing, TypeOK, Calls, Stray
<1>11. ASSUME NEW n \in Node, AbandonAcquire(n) PROVE GrantCovered'
  BY <1>11, LeaseAssumption DEF AbandonAcquire, GoTo, Hangs, NoCall, Sent, Leftover, Covered, EpochsBounded, GrantCovered, Granted, Holds, IsLeader, Owning, Retired, Returns, Waiting, WaitingOwnsNothing, TypeOK, Calls, Stray
<1>12. ASSUME NEW n \in Node, Started(n) PROVE GrantCovered'
  BY <1>12, LeaseAssumption DEF Started, GoTo, Covered, EpochsBounded, GrantCovered, Granted, Holds, IsLeader, Owning, Retired, Returns, Waiting, WaitingOwnsNothing, TypeOK, Calls, Stray
<1>13. ASSUME NEW n \in Node, StartFailed(n) PROVE GrantCovered'
  BY <1>13, LeaseAssumption DEF StartFailed, Demote, EndOwnership, Sent, Farewell, Release, GoTo, Covered, EpochsBounded, GrantCovered, Granted, Holds, IsLeader, Owning, Retired, Returns, Waiting, WaitingOwnsNothing, TypeOK, Calls, Stray
<1>14. ASSUME NEW n \in Node, StartAborted(n) PROVE GrantCovered'
  BY <1>14, LeaseAssumption DEF StartAborted, GoTo, Covered, EpochsBounded, GrantCovered, Granted, Holds, IsLeader, Owning, Retired, Returns, Waiting, WaitingOwnsNothing, TypeOK, Calls, Stray
<1>15. ASSUME NEW n \in Node, RenewAsk(n) PROVE GrantCovered'
  BY <1>15, LeaseAssumption DEF RenewAsk, GoTo, Ask, Least, Covered, EpochsBounded, GrantCovered, Granted, Holds, IsLeader, Owning, Retired, Returns, Waiting, WaitingOwnsNothing, TypeOK, Calls, Stray
<1>16. ASSUME NEW n \in Node, Renewed(n) PROVE GrantCovered'
  BY <1>16, LeaseAssumption DEF Renewed, GoTo, Hangs, NoCall, Budget, InOwnership, Covered, EpochsBounded, GrantCovered, Granted, Holds, IsLeader, Owning, Retired, Returns, Waiting, WaitingOwnsNothing, TypeOK, Calls, Stray
<1>17. ASSUME NEW n \in Node, RenewRefused(n) PROVE GrantCovered'
  BY <1>17, LeaseAssumption DEF RenewRefused, Demote, EndOwnership, Sent, Farewell, Release, GoTo, Hangs, NoCall, Covered, EpochsBounded, GrantCovered, Granted, Holds, IsLeader, Owning, Retired, Returns, Waiting, WaitingOwnsNothing, TypeOK, Calls, Stray
<1>18. ASSUME NEW n \in Node, RenewStale(n) PROVE GrantCovered'
  BY <1>18, LeaseAssumption DEF RenewStale, Sent, Leftover, GoTo, Hangs, NoCall, Covered, EpochsBounded, GrantCovered, Granted, Holds, IsLeader, Owning, Retired, Returns, Waiting, WaitingOwnsNothing, TypeOK, Calls, Stray
<1>19. ASSUME NEW n \in Node, RenewFailed(n) PROVE GrantCovered'
  BY <1>19, LeaseAssumption DEF RenewFailed, EndOwnership, Sent, Leftover, Farewell, Release, GoTo, Hangs, NoCall, Covered, EpochsBounded, GrantCovered, Granted, Holds, IsLeader, Owning, Retired, Returns, Waiting, WaitingOwnsNothing, TypeOK, Calls, Stray
<1>20. ASSUME NEW n \in Node, Refreshed(n) PROVE GrantCovered'
  BY <1>20, LeaseAssumption DEF Refreshed, Demote, EndOwnership, Sent, Farewell, Release, GoTo, Covered, EpochsBounded, GrantCovered, Granted, Holds, IsLeader, Owning, Retired, Returns, Waiting, WaitingOwnsNothing, TypeOK, Calls, Stray
<1>21. ASSUME NEW n \in Node, DeadlineTimer(n) PROVE GrantCovered'
  BY <1>21, LeaseAssumption DEF DeadlineTimer, TimerDue, Demote, EndOwnership, Sent, Farewell, Release, Covered, EpochsBounded, GrantCovered, Granted, Holds, IsLeader, Owning, Retired, Returns, Waiting, WaitingOwnsNothing, TypeOK, Calls, Stray
<1>22. ASSUME NEW n \in Node, Join(n) PROVE GrantCovered'
  BY <1>22, LeaseAssumption DEF Join, Covered, EpochsBounded, GrantCovered, Granted, Holds, IsLeader, Owning, Retired, Returns, Waiting, WaitingOwnsNothing, TypeOK, Calls, Stray
<1>23. ASSUME NEW n \in Node, ServeAcquire(n) PROVE GrantCovered'
  BY <1>23, LeaseAssumption DEF ServeAcquire, Free, Grant, Answer, Covered, EpochsBounded, GrantCovered, Granted, Holds, IsLeader, Owning, Retired, Returns, Waiting, WaitingOwnsNothing, TypeOK, Calls, Stray
<1>24. ASSUME NEW n \in Node, ServeRenew(n) PROVE GrantCovered'
  BY <1>24, LeaseAssumption DEF ServeRenew, Renewable, Holds, Extend, Answer, Covered, EpochsBounded, GrantCovered, Granted, IsLeader, Owning, Retired, Returns, Waiting, WaitingOwnsNothing, TypeOK, Calls, Stray
<1>25. ASSUME NEW n \in Node, Shutdown(n) PROVE GrantCovered'
  BY <1>25, LeaseAssumption DEF Shutdown, Covered, EpochsBounded, GrantCovered, Granted, Holds, IsLeader, Owning, Retired, Returns, Waiting, WaitingOwnsNothing, TypeOK, Calls, Stray
<1>26. ASSUME NEW n \in Node, Stop(n) PROVE GrantCovered'
  BY <1>26, LeaseAssumption DEF Stop, Demote, EndOwnership, Sent, Farewell, Release, Covered, EpochsBounded, GrantCovered, Granted, Holds, IsLeader, Owning, Retired, Returns, Waiting, WaitingOwnsNothing, TypeOK, Calls, Stray
<1>27. ASSUME NEW n \in Node, Crash(n) PROVE GrantCovered'
  BY <1>27, LeaseAssumption DEF Crash, EndOwnership, Leftover, GoTo, Hangs, NoCall, Covered, EpochsBounded, GrantCovered, Granted, Holds, IsLeader, Owning, Retired, Returns, Waiting, WaitingOwnsNothing, TypeOK, Calls, Stray
<1>28. ASSUME NEW n \in Node, Restart(n) PROVE GrantCovered'
  BY <1>28, LeaseAssumption DEF Restart, GoTo, Covered, EpochsBounded, GrantCovered, Granted, Holds, IsLeader, Owning, Retired, Returns, Waiting, WaitingOwnsNothing, TypeOK, Calls, Stray
<1>29. ASSUME NEW m \in late, ServeLate(m) PROVE GrantCovered'
  BY <1>29, LeaseAssumption DEF ServeLate, Free, Grant, Renewable, Holds, Extend, Releases, Covered, EpochsBounded, GrantCovered, Granted, IsLeader, Owning, Retired, Returns, Waiting, WaitingOwnsNothing, TypeOK, Calls, Stray
<1>30. ASSUME NEW m \in late, Lose(m) PROVE GrantCovered'
  BY <1>30, LeaseAssumption DEF Lose, Covered, EpochsBounded, GrantCovered, Granted, Holds, IsLeader, Owning, Retired, Returns, Waiting, WaitingOwnsNothing, TypeOK, Calls, Stray
<1>31. ASSUME NEW m \in late, LateGrant(m) PROVE GrantCovered'
  BY <1>31, LeaseAssumption DEF LateGrant, Release, Covered, EpochsBounded, GrantCovered, Granted, Holds, IsLeader, Owning, Retired, Returns, Waiting, WaitingOwnsNothing, TypeOK, Calls, Stray
<1>32. CASE UNCHANGED vars
  BY <1>32 DEF vars, Covered, EpochsBounded, GrantCovered, Granted, Holds, IsLeader, Owning, Retired, Returns, Waiting, WaitingOwnsNothing, TypeOK, Calls, Stray
<1>33. QED
  BY <1>1, <1>2, <1>3, <1>4, <1>5, <1>6, <1>7, <1>8, <1>9, <1>10, <1>11, <1>12, <1>13, <1>14, <1>15, <1>16, <1>17, <1>18, <1>19, <1>20, <1>21, <1>22, <1>23, <1>24, <1>25, <1>26, <1>27, <1>28, <1>29, <1>30, <1>31, <1>32 DEF Next, Loop

LEMMA RenewCoveredStep == TypeOK /\ TypeOK' /\ Covered /\ RenewCovered /\ EpochsBounded /\ Retired /\ [Next]_vars => RenewCovered'
<1> SUFFICES ASSUME TypeOK, TypeOK', Covered, RenewCovered, EpochsBounded, Retired, [Next]_vars PROVE RenewCovered'
  OBVIOUS
<1>1. CASE Tick
  BY <1>1, LeaseAssumption DEF Tick, Less, TimerDue, Covered, EpochsBounded, Granted, Holds, IsLeader, Owning, RenewCovered, TypeOK, Calls, Stray
<1>2. ASSUME NEW n \in Node, Exit(n) PROVE RenewCovered'
  BY <1>2, LeaseAssumption DEF Exit, Demote, EndOwnership, Sent, Farewell, Release, GoTo, Covered, EpochsBounded, Granted, Holds, IsLeader, Owning, RenewCovered, TypeOK, Calls, Stray
<1>3. ASSUME NEW n \in Node, Lead(n) PROVE RenewCovered'
  BY <1>3, LeaseAssumption DEF Lead, GoTo, Covered, EpochsBounded, Granted, Holds, IsLeader, Owning, RenewCovered, TypeOK, Calls, Stray
<1>4. ASSUME NEW n \in Node, Stand(n) PROVE RenewCovered'
  BY <1>4, LeaseAssumption DEF Stand, Demote, EndOwnership, Sent, Farewell, Release, GoTo, Ask, Covered, EpochsBounded, Granted, Holds, IsLeader, Owning, RenewCovered, TypeOK, Calls, Stray
<1>5. ASSUME NEW n \in Node, Prepared(n) PROVE RenewCovered'
  BY <1>5, LeaseAssumption DEF Prepared, GoTo, Ask, Covered, EpochsBounded, Granted, Holds, IsLeader, Owning, RenewCovered, TypeOK, Calls, Stray
<1>6. ASSUME NEW n \in Node, Unprepared(n) PROVE RenewCovered'
  BY <1>6, LeaseAssumption DEF Unprepared, GoTo, Covered, EpochsBounded, Granted, Holds, IsLeader, Owning, RenewCovered, TypeOK, Calls, Stray
<1>7. ASSUME NEW n \in Node, Wake(n) PROVE RenewCovered'
  BY <1>7, LeaseAssumption DEF Wake, GoTo, Covered, EpochsBounded, Granted, Holds, IsLeader, Owning, RenewCovered, TypeOK, Calls, Stray
<1>8. ASSUME NEW n \in Node, Accept(n) PROVE RenewCovered'
  BY <1>8, LeaseAssumption DEF Accept, GoTo, Hangs, NoCall, Sent, Release, Budget, InTime, Answerable, Covered, EpochsBounded, Granted, Holds, IsLeader, Owning, RenewCovered, TypeOK, Calls, Stray
<1>9. ASSUME NEW n \in Node, Decline(n) PROVE RenewCovered'
  BY <1>9, LeaseAssumption DEF Decline, GoTo, Hangs, NoCall, Sent, Release, InTime, Covered, EpochsBounded, Granted, Holds, IsLeader, Owning, RenewCovered, TypeOK, Calls, Stray
<1>10. ASSUME NEW n \in Node, Refused(n) PROVE RenewCovered'
  BY <1>10, LeaseAssumption DEF Refused, GoTo, Hangs, NoCall, Covered, EpochsBounded, Granted, Holds, IsLeader, Owning, RenewCovered, TypeOK, Calls, Stray
<1>11. ASSUME NEW n \in Node, AbandonAcquire(n) PROVE RenewCovered'
  BY <1>11, LeaseAssumption DEF AbandonAcquire, GoTo, Hangs, NoCall, Sent, Leftover, Covered, EpochsBounded, Granted, Holds, IsLeader, Owning, RenewCovered, TypeOK, Calls, Stray
<1>12. ASSUME NEW n \in Node, Started(n) PROVE RenewCovered'
  BY <1>12, LeaseAssumption DEF Started, GoTo, Covered, EpochsBounded, Granted, Holds, IsLeader, Owning, RenewCovered, TypeOK, Calls, Stray
<1>13. ASSUME NEW n \in Node, StartFailed(n) PROVE RenewCovered'
  BY <1>13, LeaseAssumption DEF StartFailed, Demote, EndOwnership, Sent, Farewell, Release, GoTo, Covered, EpochsBounded, Granted, Holds, IsLeader, Owning, RenewCovered, TypeOK, Calls, Stray
<1>14. ASSUME NEW n \in Node, StartAborted(n) PROVE RenewCovered'
  BY <1>14, LeaseAssumption DEF StartAborted, GoTo, Covered, EpochsBounded, Granted, Holds, IsLeader, Owning, RenewCovered, TypeOK, Calls, Stray
<1>15. ASSUME NEW n \in Node, RenewAsk(n) PROVE RenewCovered'
  BY <1>15, LeaseAssumption DEF RenewAsk, GoTo, Ask, Least, Covered, EpochsBounded, Granted, Holds, IsLeader, Owning, RenewCovered, TypeOK, Calls, Stray
<1>16. ASSUME NEW n \in Node, Renewed(n) PROVE RenewCovered'
  BY <1>16, LeaseAssumption DEF Renewed, GoTo, Hangs, NoCall, Budget, InOwnership, Covered, EpochsBounded, Granted, Holds, IsLeader, Owning, RenewCovered, TypeOK, Calls, Stray
<1>17. ASSUME NEW n \in Node, RenewRefused(n) PROVE RenewCovered'
  BY <1>17, LeaseAssumption DEF RenewRefused, Demote, EndOwnership, Sent, Farewell, Release, GoTo, Hangs, NoCall, Covered, EpochsBounded, Granted, Holds, IsLeader, Owning, RenewCovered, TypeOK, Calls, Stray
<1>18. ASSUME NEW n \in Node, RenewStale(n) PROVE RenewCovered'
  BY <1>18, LeaseAssumption DEF RenewStale, Sent, Leftover, GoTo, Hangs, NoCall, Covered, EpochsBounded, Granted, Holds, IsLeader, Owning, RenewCovered, TypeOK, Calls, Stray
<1>19. ASSUME NEW n \in Node, RenewFailed(n) PROVE RenewCovered'
  BY <1>19, LeaseAssumption DEF RenewFailed, EndOwnership, Sent, Leftover, Farewell, Release, GoTo, Hangs, NoCall, Covered, EpochsBounded, Granted, Holds, IsLeader, Owning, RenewCovered, TypeOK, Calls, Stray
<1>20. ASSUME NEW n \in Node, Refreshed(n) PROVE RenewCovered'
  BY <1>20, LeaseAssumption DEF Refreshed, Demote, EndOwnership, Sent, Farewell, Release, GoTo, Covered, EpochsBounded, Granted, Holds, IsLeader, Owning, RenewCovered, TypeOK, Calls, Stray
<1>21. ASSUME NEW n \in Node, DeadlineTimer(n) PROVE RenewCovered'
  BY <1>21, LeaseAssumption DEF DeadlineTimer, TimerDue, Demote, EndOwnership, Sent, Farewell, Release, Covered, EpochsBounded, Granted, Holds, IsLeader, Owning, RenewCovered, TypeOK, Calls, Stray
<1>22. ASSUME NEW n \in Node, Join(n) PROVE RenewCovered'
  BY <1>22, LeaseAssumption DEF Join, Covered, EpochsBounded, Granted, Holds, IsLeader, Owning, RenewCovered, TypeOK, Calls, Stray
<1>23. ASSUME NEW n \in Node, ServeAcquire(n) PROVE RenewCovered'
  BY <1>23, LeaseAssumption DEF ServeAcquire, Free, Grant, Answer, Covered, EpochsBounded, Granted, Holds, IsLeader, Owning, RenewCovered, TypeOK, Calls, Stray
<1>24. ASSUME NEW n \in Node, ServeRenew(n) PROVE RenewCovered'
  BY <1>24, LeaseAssumption DEF ServeRenew, Renewable, Holds, Extend, Answer, Covered, EpochsBounded, Granted, IsLeader, Owning, RenewCovered, TypeOK, Calls, Stray
<1>25. ASSUME NEW n \in Node, Shutdown(n) PROVE RenewCovered'
  BY <1>25, LeaseAssumption DEF Shutdown, Covered, EpochsBounded, Granted, Holds, IsLeader, Owning, RenewCovered, TypeOK, Calls, Stray
<1>26. ASSUME NEW n \in Node, Stop(n) PROVE RenewCovered'
  BY <1>26, LeaseAssumption DEF Stop, Demote, EndOwnership, Sent, Farewell, Release, Covered, EpochsBounded, Granted, Holds, IsLeader, Owning, RenewCovered, TypeOK, Calls, Stray
<1>27. ASSUME NEW n \in Node, Crash(n) PROVE RenewCovered'
  BY <1>27, LeaseAssumption DEF Crash, EndOwnership, Leftover, GoTo, Hangs, NoCall, Covered, EpochsBounded, Granted, Holds, IsLeader, Owning, RenewCovered, TypeOK, Calls, Stray
<1>28. ASSUME NEW n \in Node, Restart(n) PROVE RenewCovered'
  BY <1>28, LeaseAssumption DEF Restart, GoTo, Covered, EpochsBounded, Granted, Holds, IsLeader, Owning, RenewCovered, TypeOK, Calls, Stray
<1>29. ASSUME NEW m \in late, ServeLate(m) PROVE RenewCovered'
  BY <1>29, LeaseAssumption DEF ServeLate, Free, Grant, Renewable, Holds, Extend, Releases, Covered, EpochsBounded, Granted, IsLeader, Owning, RenewCovered, Retired, Returns, TypeOK, Calls, Stray
<1>30. ASSUME NEW m \in late, Lose(m) PROVE RenewCovered'
  BY <1>30, LeaseAssumption DEF Lose, Covered, EpochsBounded, Granted, Holds, IsLeader, Owning, RenewCovered, TypeOK, Calls, Stray
<1>31. ASSUME NEW m \in late, LateGrant(m) PROVE RenewCovered'
  BY <1>31, LeaseAssumption DEF LateGrant, Release, Covered, EpochsBounded, Granted, Holds, IsLeader, Owning, RenewCovered, TypeOK, Calls, Stray
<1>32. CASE UNCHANGED vars
  BY <1>32 DEF vars, Covered, EpochsBounded, Granted, Holds, IsLeader, Owning, RenewCovered, TypeOK, Calls, Stray
<1>33. QED
  BY <1>1, <1>2, <1>3, <1>4, <1>5, <1>6, <1>7, <1>8, <1>9, <1>10, <1>11, <1>12, <1>13, <1>14, <1>15, <1>16, <1>17, <1>18, <1>19, <1>20, <1>21, <1>22, <1>23, <1>24, <1>25, <1>26, <1>27, <1>28, <1>29, <1>30, <1>31, <1>32 DEF Next, Loop

LEMMA EpochsBoundedStep == TypeOK /\ TypeOK' /\ EpochsBounded /\ WaitingOwnsNothing /\ [Next]_vars => EpochsBounded'
<1> SUFFICES ASSUME TypeOK, TypeOK', EpochsBounded, WaitingOwnsNothing, [Next]_vars PROVE EpochsBounded'
  OBVIOUS
<1>1. CASE Tick
  BY <1>1, LeaseAssumption DEF Tick, Less, TimerDue, EpochsBounded, Granted, Waiting, WaitingOwnsNothing, TypeOK, Calls, Stray
<1>2. ASSUME NEW n \in Node, Exit(n) PROVE EpochsBounded'
  BY <1>2, LeaseAssumption DEF Exit, Demote, EndOwnership, Sent, Farewell, Release, GoTo, EpochsBounded, Granted, Waiting, WaitingOwnsNothing, TypeOK, Calls, Stray
<1>3. ASSUME NEW n \in Node, Lead(n) PROVE EpochsBounded'
  BY <1>3, LeaseAssumption DEF Lead, GoTo, EpochsBounded, Granted, Waiting, WaitingOwnsNothing, TypeOK, Calls, Stray
<1>4. ASSUME NEW n \in Node, Stand(n) PROVE EpochsBounded'
  BY <1>4, LeaseAssumption DEF Stand, Demote, EndOwnership, Sent, Farewell, Release, GoTo, Ask, EpochsBounded, Granted, Waiting, WaitingOwnsNothing, TypeOK, Calls, Stray
<1>5. ASSUME NEW n \in Node, Prepared(n) PROVE EpochsBounded'
  BY <1>5, LeaseAssumption DEF Prepared, GoTo, Ask, EpochsBounded, Granted, Waiting, WaitingOwnsNothing, TypeOK, Calls, Stray
<1>6. ASSUME NEW n \in Node, Unprepared(n) PROVE EpochsBounded'
  BY <1>6, LeaseAssumption DEF Unprepared, GoTo, EpochsBounded, Granted, Waiting, WaitingOwnsNothing, TypeOK, Calls, Stray
<1>7. ASSUME NEW n \in Node, Wake(n) PROVE EpochsBounded'
  BY <1>7, LeaseAssumption DEF Wake, GoTo, EpochsBounded, Granted, Waiting, WaitingOwnsNothing, TypeOK, Calls, Stray
<1>8. ASSUME NEW n \in Node, Accept(n) PROVE EpochsBounded'
  BY <1>8, LeaseAssumption DEF Accept, GoTo, Hangs, NoCall, Sent, Release, Budget, InTime, Answerable, EpochsBounded, Granted, Waiting, WaitingOwnsNothing, TypeOK, Calls, Stray
<1>9. ASSUME NEW n \in Node, Decline(n) PROVE EpochsBounded'
  BY <1>9, LeaseAssumption DEF Decline, GoTo, Hangs, NoCall, Sent, Release, InTime, EpochsBounded, Granted, Waiting, WaitingOwnsNothing, TypeOK, Calls, Stray
<1>10. ASSUME NEW n \in Node, Refused(n) PROVE EpochsBounded'
  BY <1>10, LeaseAssumption DEF Refused, GoTo, Hangs, NoCall, EpochsBounded, Granted, Waiting, WaitingOwnsNothing, TypeOK, Calls, Stray
<1>11. ASSUME NEW n \in Node, AbandonAcquire(n) PROVE EpochsBounded'
  BY <1>11, LeaseAssumption DEF AbandonAcquire, GoTo, Hangs, NoCall, Sent, Leftover, EpochsBounded, Granted, Waiting, WaitingOwnsNothing, TypeOK, Calls, Stray
<1>12. ASSUME NEW n \in Node, Started(n) PROVE EpochsBounded'
  BY <1>12, LeaseAssumption DEF Started, GoTo, EpochsBounded, Granted, Waiting, WaitingOwnsNothing, TypeOK, Calls, Stray
<1>13. ASSUME NEW n \in Node, StartFailed(n) PROVE EpochsBounded'
  BY <1>13, LeaseAssumption DEF StartFailed, Demote, EndOwnership, Sent, Farewell, Release, GoTo, EpochsBounded, Granted, Waiting, WaitingOwnsNothing, TypeOK, Calls, Stray
<1>14. ASSUME NEW n \in Node, StartAborted(n) PROVE EpochsBounded'
  BY <1>14, LeaseAssumption DEF StartAborted, GoTo, EpochsBounded, Granted, Waiting, WaitingOwnsNothing, TypeOK, Calls, Stray
<1>15. ASSUME NEW n \in Node, RenewAsk(n) PROVE EpochsBounded'
  BY <1>15, LeaseAssumption DEF RenewAsk, GoTo, Ask, Least, EpochsBounded, Granted, Waiting, WaitingOwnsNothing, TypeOK, Calls, Stray
<1>16. ASSUME NEW n \in Node, Renewed(n) PROVE EpochsBounded'
  BY <1>16, LeaseAssumption DEF Renewed, GoTo, Hangs, NoCall, Budget, InOwnership, EpochsBounded, Granted, Waiting, WaitingOwnsNothing, TypeOK, Calls, Stray
<1>17. ASSUME NEW n \in Node, RenewRefused(n) PROVE EpochsBounded'
  BY <1>17, LeaseAssumption DEF RenewRefused, Demote, EndOwnership, Sent, Farewell, Release, GoTo, Hangs, NoCall, EpochsBounded, Granted, Waiting, WaitingOwnsNothing, TypeOK, Calls, Stray
<1>18. ASSUME NEW n \in Node, RenewStale(n) PROVE EpochsBounded'
  BY <1>18, LeaseAssumption DEF RenewStale, Sent, Leftover, GoTo, Hangs, NoCall, EpochsBounded, Granted, Waiting, WaitingOwnsNothing, TypeOK, Calls, Stray
<1>19. ASSUME NEW n \in Node, RenewFailed(n) PROVE EpochsBounded'
  BY <1>19, LeaseAssumption DEF RenewFailed, EndOwnership, Sent, Leftover, Farewell, Release, GoTo, Hangs, NoCall, EpochsBounded, Granted, Waiting, WaitingOwnsNothing, TypeOK, Calls, Stray
<1>20. ASSUME NEW n \in Node, Refreshed(n) PROVE EpochsBounded'
  BY <1>20, LeaseAssumption DEF Refreshed, Demote, EndOwnership, Sent, Farewell, Release, GoTo, EpochsBounded, Granted, Waiting, WaitingOwnsNothing, TypeOK, Calls, Stray
<1>21. ASSUME NEW n \in Node, DeadlineTimer(n) PROVE EpochsBounded'
  BY <1>21, LeaseAssumption DEF DeadlineTimer, TimerDue, Demote, EndOwnership, Sent, Farewell, Release, EpochsBounded, Granted, Waiting, WaitingOwnsNothing, TypeOK, Calls, Stray
<1>22. ASSUME NEW n \in Node, Join(n) PROVE EpochsBounded'
  BY <1>22, LeaseAssumption DEF Join, EpochsBounded, Granted, Waiting, WaitingOwnsNothing, TypeOK, Calls, Stray
<1>23. ASSUME NEW n \in Node, ServeAcquire(n) PROVE EpochsBounded'
  BY <1>23, LeaseAssumption DEF ServeAcquire, Free, Grant, Answer, EpochsBounded, Granted, Waiting, WaitingOwnsNothing, TypeOK, Calls, Stray
<1>24. ASSUME NEW n \in Node, ServeRenew(n) PROVE EpochsBounded'
  <2>1. PICK stage \in {"granted", "lost", "refused"} : Answer(n, stage, call[n].epoch)
    BY <1>24 DEF ServeRenew
  <2>2. lease'.epoch = lease.epoch
    BY <1>24 DEF ServeRenew, Extend, TypeOK
  <2>3. epoch' = epoch /\ pc' = pc /\ pc[n] = "renewing"
    BY <1>24 DEF ServeRenew
  <2>4. QED
    BY <2>1, <2>2, <2>3 DEF Answer, EpochsBounded, Granted, TypeOK, Calls
<1>25. ASSUME NEW n \in Node, Shutdown(n) PROVE EpochsBounded'
  BY <1>25, LeaseAssumption DEF Shutdown, EpochsBounded, Granted, Waiting, WaitingOwnsNothing, TypeOK, Calls, Stray
<1>26. ASSUME NEW n \in Node, Stop(n) PROVE EpochsBounded'
  BY <1>26, LeaseAssumption DEF Stop, Demote, EndOwnership, Sent, Farewell, Release, EpochsBounded, Granted, Waiting, WaitingOwnsNothing, TypeOK, Calls, Stray
<1>27. ASSUME NEW n \in Node, Crash(n) PROVE EpochsBounded'
  BY <1>27, LeaseAssumption DEF Crash, EndOwnership, Leftover, GoTo, Hangs, NoCall, EpochsBounded, Granted, Waiting, WaitingOwnsNothing, TypeOK, Calls, Stray
<1>28. ASSUME NEW n \in Node, Restart(n) PROVE EpochsBounded'
  BY <1>28, LeaseAssumption DEF Restart, GoTo, EpochsBounded, Granted, Waiting, WaitingOwnsNothing, TypeOK, Calls, Stray
<1>29. ASSUME NEW m \in late, ServeLate(m) PROVE EpochsBounded'
  BY <1>29, LeaseAssumption DEF ServeLate, Free, Grant, Renewable, Holds, Extend, Releases, EpochsBounded, Granted, Waiting, WaitingOwnsNothing, TypeOK, Calls, Stray
<1>30. ASSUME NEW m \in late, Lose(m) PROVE EpochsBounded'
  BY <1>30, LeaseAssumption DEF Lose, EpochsBounded, Granted, Waiting, WaitingOwnsNothing, TypeOK, Calls, Stray
<1>31. ASSUME NEW m \in late, LateGrant(m) PROVE EpochsBounded'
  BY <1>31, LeaseAssumption DEF LateGrant, Release, EpochsBounded, Granted, Waiting, WaitingOwnsNothing, TypeOK, Calls, Stray
<1>32. CASE UNCHANGED vars
  BY <1>32 DEF vars, EpochsBounded, Granted, Waiting, WaitingOwnsNothing, TypeOK, Calls, Stray
<1>33. QED
  BY <1>1, <1>2, <1>3, <1>4, <1>5, <1>6, <1>7, <1>8, <1>9, <1>10, <1>11, <1>12, <1>13, <1>14, <1>15, <1>16, <1>17, <1>18, <1>19, <1>20, <1>21, <1>22, <1>23, <1>24, <1>25, <1>26, <1>27, <1>28, <1>29, <1>30, <1>31, <1>32 DEF Next, Loop

LEMMA RetiredStep == TypeOK /\ TypeOK' /\ Retired /\ EpochsBounded /\ WaitingOwnsNothing /\ [Next]_vars => Retired'
<1> SUFFICES ASSUME TypeOK, TypeOK', Retired, EpochsBounded, WaitingOwnsNothing, [Next]_vars PROVE Retired'
  OBVIOUS
<1>1. CASE Tick
  BY <1>1, LeaseAssumption DEF Tick, Less, TimerDue, EpochsBounded, Granted, Retired, Returns, Waiting, WaitingOwnsNothing, TypeOK, Calls, Stray
<1>2. ASSUME NEW n \in Node, Exit(n) PROVE Retired'
  BY <1>2, LeaseAssumption DEF Exit, Demote, EndOwnership, Sent, Farewell, Release, GoTo, EpochsBounded, Granted, Retired, Returns, Waiting, WaitingOwnsNothing, TypeOK, Calls, Stray
<1>3. ASSUME NEW n \in Node, Lead(n) PROVE Retired'
  BY <1>3, LeaseAssumption DEF Lead, GoTo, EpochsBounded, Granted, Retired, Returns, Waiting, WaitingOwnsNothing, TypeOK, Calls, Stray
<1>4. ASSUME NEW n \in Node, Stand(n) PROVE Retired'
  BY <1>4, LeaseAssumption DEF Stand, Demote, EndOwnership, Sent, Farewell, Release, GoTo, Ask, EpochsBounded, Granted, Retired, Returns, Waiting, WaitingOwnsNothing, TypeOK, Calls, Stray
<1>5. ASSUME NEW n \in Node, Prepared(n) PROVE Retired'
  BY <1>5, LeaseAssumption DEF Prepared, GoTo, Ask, EpochsBounded, Granted, Retired, Returns, Waiting, WaitingOwnsNothing, TypeOK, Calls, Stray
<1>6. ASSUME NEW n \in Node, Unprepared(n) PROVE Retired'
  BY <1>6, LeaseAssumption DEF Unprepared, GoTo, EpochsBounded, Granted, Retired, Returns, Waiting, WaitingOwnsNothing, TypeOK, Calls, Stray
<1>7. ASSUME NEW n \in Node, Wake(n) PROVE Retired'
  BY <1>7, LeaseAssumption DEF Wake, GoTo, EpochsBounded, Granted, Retired, Returns, Waiting, WaitingOwnsNothing, TypeOK, Calls, Stray
<1>8. ASSUME NEW n \in Node, Accept(n) PROVE Retired'
  BY <1>8, LeaseAssumption DEF Accept, GoTo, Hangs, NoCall, Sent, Release, Budget, InTime, Answerable, EpochsBounded, Granted, Retired, Returns, Waiting, WaitingOwnsNothing, TypeOK, Calls, Stray
<1>9. ASSUME NEW n \in Node, Decline(n) PROVE Retired'
  BY <1>9, LeaseAssumption DEF Decline, GoTo, Hangs, NoCall, Sent, Release, InTime, EpochsBounded, Granted, Retired, Returns, Waiting, WaitingOwnsNothing, TypeOK, Calls, Stray
<1>10. ASSUME NEW n \in Node, Refused(n) PROVE Retired'
  BY <1>10, LeaseAssumption DEF Refused, GoTo, Hangs, NoCall, EpochsBounded, Granted, Retired, Returns, Waiting, WaitingOwnsNothing, TypeOK, Calls, Stray
<1>11. ASSUME NEW n \in Node, AbandonAcquire(n) PROVE Retired'
  BY <1>11, LeaseAssumption DEF AbandonAcquire, GoTo, Hangs, NoCall, Sent, Leftover, EpochsBounded, Granted, Retired, Returns, Waiting, WaitingOwnsNothing, TypeOK, Calls, Stray
<1>12. ASSUME NEW n \in Node, Started(n) PROVE Retired'
  BY <1>12, LeaseAssumption DEF Started, GoTo, EpochsBounded, Granted, Retired, Returns, Waiting, WaitingOwnsNothing, TypeOK, Calls, Stray
<1>13. ASSUME NEW n \in Node, StartFailed(n) PROVE Retired'
  BY <1>13, LeaseAssumption DEF StartFailed, Demote, EndOwnership, Sent, Farewell, Release, GoTo, EpochsBounded, Granted, Retired, Returns, Waiting, WaitingOwnsNothing, TypeOK, Calls, Stray
<1>14. ASSUME NEW n \in Node, StartAborted(n) PROVE Retired'
  BY <1>14, LeaseAssumption DEF StartAborted, GoTo, EpochsBounded, Granted, Retired, Returns, Waiting, WaitingOwnsNothing, TypeOK, Calls, Stray
<1>15. ASSUME NEW n \in Node, RenewAsk(n) PROVE Retired'
  BY <1>15, LeaseAssumption DEF RenewAsk, GoTo, Ask, Least, EpochsBounded, Granted, Retired, Returns, Waiting, WaitingOwnsNothing, TypeOK, Calls, Stray
<1>16. ASSUME NEW n \in Node, Renewed(n) PROVE Retired'
  BY <1>16, LeaseAssumption DEF Renewed, GoTo, Hangs, NoCall, Budget, InOwnership, EpochsBounded, Granted, Retired, Returns, Waiting, WaitingOwnsNothing, TypeOK, Calls, Stray
<1>17. ASSUME NEW n \in Node, RenewRefused(n) PROVE Retired'
  BY <1>17, LeaseAssumption DEF RenewRefused, Demote, EndOwnership, Sent, Farewell, Release, GoTo, Hangs, NoCall, EpochsBounded, Granted, Retired, Returns, Waiting, WaitingOwnsNothing, TypeOK, Calls, Stray
<1>18. ASSUME NEW n \in Node, RenewStale(n) PROVE Retired'
  BY <1>18, LeaseAssumption DEF RenewStale, Sent, Leftover, GoTo, Hangs, NoCall, EpochsBounded, Granted, Retired, Returns, Waiting, WaitingOwnsNothing, TypeOK, Calls, Stray
<1>19. ASSUME NEW n \in Node, RenewFailed(n) PROVE Retired'
  BY <1>19, LeaseAssumption DEF RenewFailed, EndOwnership, Sent, Leftover, Farewell, Release, GoTo, Hangs, NoCall, EpochsBounded, Granted, Retired, Returns, Waiting, WaitingOwnsNothing, TypeOK, Calls, Stray
<1>20. ASSUME NEW n \in Node, Refreshed(n) PROVE Retired'
  BY <1>20, LeaseAssumption DEF Refreshed, Demote, EndOwnership, Sent, Farewell, Release, GoTo, EpochsBounded, Granted, Retired, Returns, Waiting, WaitingOwnsNothing, TypeOK, Calls, Stray
<1>21. ASSUME NEW n \in Node, DeadlineTimer(n) PROVE Retired'
  BY <1>21, LeaseAssumption DEF DeadlineTimer, TimerDue, Demote, EndOwnership, Sent, Farewell, Release, EpochsBounded, Granted, Retired, Returns, Waiting, WaitingOwnsNothing, TypeOK, Calls, Stray
<1>22. ASSUME NEW n \in Node, Join(n) PROVE Retired'
  BY <1>22, LeaseAssumption DEF Join, EpochsBounded, Granted, Retired, Returns, Waiting, WaitingOwnsNothing, TypeOK, Calls, Stray
<1>23. ASSUME NEW n \in Node, ServeAcquire(n) PROVE Retired'
  <2> SUFFICES ASSUME NEW m \in late, Returns(m)
               PROVE /\ m.epoch # 0 /\ m.epoch <= lease'.epoch
                     /\ epoch[m.node] # m.epoch
                     /\ Granted(m.node)' => call'[m.node].epoch # m.epoch
    BY <1>23 DEF ServeAcquire, Retired, Returns
  <2>1. CASE Grant(n) /\ \E stage \in {"granted", "lost"} : Answer(n, stage, lease.epoch + 1)
    <3>1. lease'.epoch = lease.epoch + 1
      BY <2>1 DEF Grant
    <3>2. m.node # n => call'[m.node] = call[m.node]
      BY <2>1 DEF Answer, TypeOK, Stray
    <3>3. m.node = n => call'[m.node].epoch = lease.epoch + 1
      BY <2>1 DEF Answer, TypeOK, Stray
    <3>4. QED
      BY <1>23, <3>1, <3>2, <3>3 DEF ServeAcquire, Retired, Granted, TypeOK, Stray
  <2>2. CASE UNCHANGED lease /\ Answer(n, "refused", 0)
    BY <1>23, <2>2 DEF ServeAcquire, Answer, Retired, Granted, TypeOK, Stray
  <2>3. QED
    BY <1>23, <2>1, <2>2 DEF ServeAcquire
<1>24. ASSUME NEW n \in Node, ServeRenew(n) PROVE Retired'
  <2>1. lease'.epoch = lease.epoch /\ epoch' = epoch /\ late' = late /\ pc' = pc
    BY <1>24 DEF ServeRenew, Extend, TypeOK
  <2>2. \A k \in Node : call'[k].epoch = call[k].epoch /\ (call'[k].stage = "granted" /\ pc[k] = "acquiring" => call[k].stage = "granted" /\ call'[k].epoch = call[k].epoch)
    BY <1>24 DEF ServeRenew, Answer, TypeOK, Calls
  <2>3. QED
    BY <2>1, <2>2 DEF Retired, Granted, Returns, TypeOK, Stray
<1>25. ASSUME NEW n \in Node, Shutdown(n) PROVE Retired'
  BY <1>25, LeaseAssumption DEF Shutdown, EpochsBounded, Granted, Retired, Returns, Waiting, WaitingOwnsNothing, TypeOK, Calls, Stray
<1>26. ASSUME NEW n \in Node, Stop(n) PROVE Retired'
  BY <1>26, LeaseAssumption DEF Stop, Demote, EndOwnership, Sent, Farewell, Release, EpochsBounded, Granted, Retired, Returns, Waiting, WaitingOwnsNothing, TypeOK, Calls, Stray
<1>27. ASSUME NEW n \in Node, Crash(n) PROVE Retired'
  BY <1>27, LeaseAssumption DEF Crash, EndOwnership, Leftover, GoTo, Hangs, NoCall, EpochsBounded, Granted, Retired, Returns, Waiting, WaitingOwnsNothing, TypeOK, Calls, Stray
<1>28. ASSUME NEW n \in Node, Restart(n) PROVE Retired'
  BY <1>28, LeaseAssumption DEF Restart, GoTo, EpochsBounded, Granted, Retired, Returns, Waiting, WaitingOwnsNothing, TypeOK, Calls, Stray
<1>29. ASSUME NEW m \in late, ServeLate(m) PROVE Retired'
  BY <1>29, LeaseAssumption DEF ServeLate, Free, Grant, Renewable, Holds, Extend, Releases, EpochsBounded, Granted, Retired, Returns, Waiting, WaitingOwnsNothing, TypeOK, Calls, Stray
<1>30. ASSUME NEW m \in late, Lose(m) PROVE Retired'
  BY <1>30, LeaseAssumption DEF Lose, EpochsBounded, Granted, Retired, Returns, Waiting, WaitingOwnsNothing, TypeOK, Calls, Stray
<1>31. ASSUME NEW m \in late, LateGrant(m) PROVE Retired'
  BY <1>31, LeaseAssumption DEF LateGrant, Release, EpochsBounded, Granted, Retired, Returns, Waiting, WaitingOwnsNothing, TypeOK, Calls, Stray
<1>32. CASE UNCHANGED vars
  BY <1>32 DEF vars, EpochsBounded, Granted, Retired, Returns, Waiting, WaitingOwnsNothing, TypeOK, Calls, Stray
<1>33. QED
  BY <1>1, <1>2, <1>3, <1>4, <1>5, <1>6, <1>7, <1>8, <1>9, <1>10, <1>11, <1>12, <1>13, <1>14, <1>15, <1>16, <1>17, <1>18, <1>19, <1>20, <1>21, <1>22, <1>23, <1>24, <1>25, <1>26, <1>27, <1>28, <1>29, <1>30, <1>31, <1>32 DEF Next, Loop

LEMMA WorkIsOwnedStep == TypeOK /\ TypeOK' /\ EpochsBounded /\ WorkIsOwned /\ [Next]_vars => WorkIsOwned'
<1> SUFFICES ASSUME TypeOK, TypeOK', EpochsBounded, WorkIsOwned, [Next]_vars PROVE WorkIsOwned'
  OBVIOUS
<1>1. CASE Tick
  BY <1>1, LeaseAssumption DEF Tick, Less, TimerDue, WorkIsOwned, TypeOK, Calls, Stray
<1>2. ASSUME NEW n \in Node, Exit(n) PROVE WorkIsOwned'
  BY <1>2, LeaseAssumption DEF Exit, Demote, EndOwnership, Sent, Farewell, Release, GoTo, WorkIsOwned, TypeOK, Calls, Stray
<1>3. ASSUME NEW n \in Node, Lead(n) PROVE WorkIsOwned'
  BY <1>3, LeaseAssumption DEF Lead, GoTo, WorkIsOwned, TypeOK, Calls, Stray
<1>4. ASSUME NEW n \in Node, Stand(n) PROVE WorkIsOwned'
  BY <1>4, LeaseAssumption DEF Stand, Demote, EndOwnership, Sent, Farewell, Release, GoTo, Ask, WorkIsOwned, TypeOK, Calls, Stray
<1>5. ASSUME NEW n \in Node, Prepared(n) PROVE WorkIsOwned'
  BY <1>5, LeaseAssumption DEF Prepared, GoTo, Ask, WorkIsOwned, TypeOK, Calls, Stray
<1>6. ASSUME NEW n \in Node, Unprepared(n) PROVE WorkIsOwned'
  BY <1>6, LeaseAssumption DEF Unprepared, GoTo, WorkIsOwned, TypeOK, Calls, Stray
<1>7. ASSUME NEW n \in Node, Wake(n) PROVE WorkIsOwned'
  BY <1>7, LeaseAssumption DEF Wake, GoTo, WorkIsOwned, TypeOK, Calls, Stray
<1>8. ASSUME NEW n \in Node, Accept(n) PROVE WorkIsOwned'
  BY <1>8, LeaseAssumption DEF Accept, GoTo, Hangs, NoCall, Sent, Release, Budget, InTime, Answerable, EpochsBounded, Granted, WorkIsOwned, TypeOK, Calls, Stray
<1>9. ASSUME NEW n \in Node, Decline(n) PROVE WorkIsOwned'
  BY <1>9, LeaseAssumption DEF Decline, GoTo, Hangs, NoCall, Sent, Release, InTime, WorkIsOwned, TypeOK, Calls, Stray
<1>10. ASSUME NEW n \in Node, Refused(n) PROVE WorkIsOwned'
  BY <1>10, LeaseAssumption DEF Refused, GoTo, Hangs, NoCall, WorkIsOwned, TypeOK, Calls, Stray
<1>11. ASSUME NEW n \in Node, AbandonAcquire(n) PROVE WorkIsOwned'
  BY <1>11, LeaseAssumption DEF AbandonAcquire, GoTo, Hangs, NoCall, Sent, Leftover, WorkIsOwned, TypeOK, Calls, Stray
<1>12. ASSUME NEW n \in Node, Started(n) PROVE WorkIsOwned'
  BY <1>12, LeaseAssumption DEF Started, GoTo, WorkIsOwned, TypeOK, Calls, Stray
<1>13. ASSUME NEW n \in Node, StartFailed(n) PROVE WorkIsOwned'
  BY <1>13, LeaseAssumption DEF StartFailed, Demote, EndOwnership, Sent, Farewell, Release, GoTo, WorkIsOwned, TypeOK, Calls, Stray
<1>14. ASSUME NEW n \in Node, StartAborted(n) PROVE WorkIsOwned'
  BY <1>14, LeaseAssumption DEF StartAborted, GoTo, WorkIsOwned, TypeOK, Calls, Stray
<1>15. ASSUME NEW n \in Node, RenewAsk(n) PROVE WorkIsOwned'
  BY <1>15, LeaseAssumption DEF RenewAsk, GoTo, Ask, Least, WorkIsOwned, TypeOK, Calls, Stray
<1>16. ASSUME NEW n \in Node, Renewed(n) PROVE WorkIsOwned'
  BY <1>16, LeaseAssumption DEF Renewed, GoTo, Hangs, NoCall, Budget, InOwnership, WorkIsOwned, TypeOK, Calls, Stray
<1>17. ASSUME NEW n \in Node, RenewRefused(n) PROVE WorkIsOwned'
  BY <1>17, LeaseAssumption DEF RenewRefused, Demote, EndOwnership, Sent, Farewell, Release, GoTo, Hangs, NoCall, WorkIsOwned, TypeOK, Calls, Stray
<1>18. ASSUME NEW n \in Node, RenewStale(n) PROVE WorkIsOwned'
  BY <1>18, LeaseAssumption DEF RenewStale, Sent, Leftover, GoTo, Hangs, NoCall, WorkIsOwned, TypeOK, Calls, Stray
<1>19. ASSUME NEW n \in Node, RenewFailed(n) PROVE WorkIsOwned'
  BY <1>19, LeaseAssumption DEF RenewFailed, EndOwnership, Sent, Leftover, Farewell, Release, GoTo, Hangs, NoCall, WorkIsOwned, TypeOK, Calls, Stray
<1>20. ASSUME NEW n \in Node, Refreshed(n) PROVE WorkIsOwned'
  BY <1>20, LeaseAssumption DEF Refreshed, Demote, EndOwnership, Sent, Farewell, Release, GoTo, WorkIsOwned, TypeOK, Calls, Stray
<1>21. ASSUME NEW n \in Node, DeadlineTimer(n) PROVE WorkIsOwned'
  BY <1>21, LeaseAssumption DEF DeadlineTimer, TimerDue, Demote, EndOwnership, Sent, Farewell, Release, WorkIsOwned, TypeOK, Calls, Stray
<1>22. ASSUME NEW n \in Node, Join(n) PROVE WorkIsOwned'
  BY <1>22, LeaseAssumption DEF Join, IsLeader, WorkIsOwned, TypeOK, Calls, Stray
<1>23. ASSUME NEW n \in Node, ServeAcquire(n) PROVE WorkIsOwned'
  BY <1>23, LeaseAssumption DEF ServeAcquire, Free, Grant, Answer, WorkIsOwned, TypeOK, Calls, Stray
<1>24. ASSUME NEW n \in Node, ServeRenew(n) PROVE WorkIsOwned'
  BY <1>24, LeaseAssumption DEF ServeRenew, Renewable, Holds, Extend, Answer, WorkIsOwned, TypeOK, Calls, Stray
<1>25. ASSUME NEW n \in Node, Shutdown(n) PROVE WorkIsOwned'
  BY <1>25, LeaseAssumption DEF Shutdown, WorkIsOwned, TypeOK, Calls, Stray
<1>26. ASSUME NEW n \in Node, Stop(n) PROVE WorkIsOwned'
  BY <1>26, LeaseAssumption DEF Stop, Demote, EndOwnership, Sent, Farewell, Release, WorkIsOwned, TypeOK, Calls, Stray
<1>27. ASSUME NEW n \in Node, Crash(n) PROVE WorkIsOwned'
  BY <1>27, LeaseAssumption DEF Crash, EndOwnership, Leftover, GoTo, Hangs, NoCall, WorkIsOwned, TypeOK, Calls, Stray
<1>28. ASSUME NEW n \in Node, Restart(n) PROVE WorkIsOwned'
  BY <1>28, LeaseAssumption DEF Restart, GoTo, WorkIsOwned, TypeOK, Calls, Stray
<1>29. ASSUME NEW m \in late, ServeLate(m) PROVE WorkIsOwned'
  BY <1>29, LeaseAssumption DEF ServeLate, Free, Grant, Renewable, Holds, Extend, Releases, WorkIsOwned, TypeOK, Calls, Stray
<1>30. ASSUME NEW m \in late, Lose(m) PROVE WorkIsOwned'
  BY <1>30, LeaseAssumption DEF Lose, WorkIsOwned, TypeOK, Calls, Stray
<1>31. ASSUME NEW m \in late, LateGrant(m) PROVE WorkIsOwned'
  BY <1>31, LeaseAssumption DEF LateGrant, Release, WorkIsOwned, TypeOK, Calls, Stray
<1>32. CASE UNCHANGED vars
  BY <1>32 DEF vars, WorkIsOwned, TypeOK, Calls, Stray
<1>33. QED
  BY <1>1, <1>2, <1>3, <1>4, <1>5, <1>6, <1>7, <1>8, <1>9, <1>10, <1>11, <1>12, <1>13, <1>14, <1>15, <1>16, <1>17, <1>18, <1>19, <1>20, <1>21, <1>22, <1>23, <1>24, <1>25, <1>26, <1>27, <1>28, <1>29, <1>30, <1>31, <1>32 DEF Next, Loop

LEMMA StoppedOwnsNothingStep == TypeOK /\ TypeOK' /\ StoppedOwnsNothing /\ [Next]_vars => StoppedOwnsNothing'
<1> SUFFICES ASSUME TypeOK, TypeOK', StoppedOwnsNothing, [Next]_vars PROVE StoppedOwnsNothing'
  OBVIOUS
<1>1. CASE Tick
  BY <1>1, LeaseAssumption DEF Tick, Less, TimerDue, StoppedOwnsNothing, TypeOK, Calls, Stray
<1>2. ASSUME NEW n \in Node, Exit(n) PROVE StoppedOwnsNothing'
  BY <1>2, LeaseAssumption DEF Exit, Demote, EndOwnership, Sent, Farewell, Release, GoTo, StoppedOwnsNothing, TypeOK, Calls, Stray
<1>3. ASSUME NEW n \in Node, Lead(n) PROVE StoppedOwnsNothing'
  BY <1>3, LeaseAssumption DEF Lead, GoTo, StoppedOwnsNothing, TypeOK, Calls, Stray
<1>4. ASSUME NEW n \in Node, Stand(n) PROVE StoppedOwnsNothing'
  BY <1>4, LeaseAssumption DEF Stand, Demote, EndOwnership, Sent, Farewell, Release, GoTo, Ask, StoppedOwnsNothing, TypeOK, Calls, Stray
<1>5. ASSUME NEW n \in Node, Prepared(n) PROVE StoppedOwnsNothing'
  BY <1>5, LeaseAssumption DEF Prepared, GoTo, Ask, StoppedOwnsNothing, TypeOK, Calls, Stray
<1>6. ASSUME NEW n \in Node, Unprepared(n) PROVE StoppedOwnsNothing'
  BY <1>6, LeaseAssumption DEF Unprepared, GoTo, StoppedOwnsNothing, TypeOK, Calls, Stray
<1>7. ASSUME NEW n \in Node, Wake(n) PROVE StoppedOwnsNothing'
  BY <1>7, LeaseAssumption DEF Wake, GoTo, StoppedOwnsNothing, TypeOK, Calls, Stray
<1>8. ASSUME NEW n \in Node, Accept(n) PROVE StoppedOwnsNothing'
  BY <1>8, LeaseAssumption DEF Accept, GoTo, Hangs, NoCall, Sent, Release, Budget, InTime, Answerable, StoppedOwnsNothing, TypeOK, Calls, Stray
<1>9. ASSUME NEW n \in Node, Decline(n) PROVE StoppedOwnsNothing'
  BY <1>9, LeaseAssumption DEF Decline, GoTo, Hangs, NoCall, Sent, Release, InTime, StoppedOwnsNothing, TypeOK, Calls, Stray
<1>10. ASSUME NEW n \in Node, Refused(n) PROVE StoppedOwnsNothing'
  BY <1>10, LeaseAssumption DEF Refused, GoTo, Hangs, NoCall, StoppedOwnsNothing, TypeOK, Calls, Stray
<1>11. ASSUME NEW n \in Node, AbandonAcquire(n) PROVE StoppedOwnsNothing'
  BY <1>11, LeaseAssumption DEF AbandonAcquire, GoTo, Hangs, NoCall, Sent, Leftover, StoppedOwnsNothing, TypeOK, Calls, Stray
<1>12. ASSUME NEW n \in Node, Started(n) PROVE StoppedOwnsNothing'
  BY <1>12, LeaseAssumption DEF Started, GoTo, StoppedOwnsNothing, TypeOK, Calls, Stray
<1>13. ASSUME NEW n \in Node, StartFailed(n) PROVE StoppedOwnsNothing'
  BY <1>13, LeaseAssumption DEF StartFailed, Demote, EndOwnership, Sent, Farewell, Release, GoTo, StoppedOwnsNothing, TypeOK, Calls, Stray
<1>14. ASSUME NEW n \in Node, StartAborted(n) PROVE StoppedOwnsNothing'
  BY <1>14, LeaseAssumption DEF StartAborted, GoTo, StoppedOwnsNothing, TypeOK, Calls, Stray
<1>15. ASSUME NEW n \in Node, RenewAsk(n) PROVE StoppedOwnsNothing'
  BY <1>15, LeaseAssumption DEF RenewAsk, GoTo, Ask, Least, StoppedOwnsNothing, TypeOK, Calls, Stray
<1>16. ASSUME NEW n \in Node, Renewed(n) PROVE StoppedOwnsNothing'
  BY <1>16, LeaseAssumption DEF Renewed, GoTo, Hangs, NoCall, Budget, InOwnership, StoppedOwnsNothing, TypeOK, Calls, Stray
<1>17. ASSUME NEW n \in Node, RenewRefused(n) PROVE StoppedOwnsNothing'
  BY <1>17, LeaseAssumption DEF RenewRefused, Demote, EndOwnership, Sent, Farewell, Release, GoTo, Hangs, NoCall, StoppedOwnsNothing, TypeOK, Calls, Stray
<1>18. ASSUME NEW n \in Node, RenewStale(n) PROVE StoppedOwnsNothing'
  BY <1>18, LeaseAssumption DEF RenewStale, Sent, Leftover, GoTo, Hangs, NoCall, StoppedOwnsNothing, TypeOK, Calls, Stray
<1>19. ASSUME NEW n \in Node, RenewFailed(n) PROVE StoppedOwnsNothing'
  BY <1>19, LeaseAssumption DEF RenewFailed, EndOwnership, Sent, Leftover, Farewell, Release, GoTo, Hangs, NoCall, StoppedOwnsNothing, TypeOK, Calls, Stray
<1>20. ASSUME NEW n \in Node, Refreshed(n) PROVE StoppedOwnsNothing'
  BY <1>20, LeaseAssumption DEF Refreshed, Demote, EndOwnership, Sent, Farewell, Release, GoTo, StoppedOwnsNothing, TypeOK, Calls, Stray
<1>21. ASSUME NEW n \in Node, DeadlineTimer(n) PROVE StoppedOwnsNothing'
  BY <1>21, LeaseAssumption DEF DeadlineTimer, TimerDue, Demote, EndOwnership, Sent, Farewell, Release, StoppedOwnsNothing, TypeOK, Calls, Stray
<1>22. ASSUME NEW n \in Node, Join(n) PROVE StoppedOwnsNothing'
  BY <1>22, LeaseAssumption DEF Join, StoppedOwnsNothing, TypeOK, Calls, Stray
<1>23. ASSUME NEW n \in Node, ServeAcquire(n) PROVE StoppedOwnsNothing'
  BY <1>23, LeaseAssumption DEF ServeAcquire, Free, Grant, Answer, StoppedOwnsNothing, TypeOK, Calls, Stray
<1>24. ASSUME NEW n \in Node, ServeRenew(n) PROVE StoppedOwnsNothing'
  BY <1>24, LeaseAssumption DEF ServeRenew, Renewable, Holds, Extend, Answer, StoppedOwnsNothing, TypeOK, Calls, Stray
<1>25. ASSUME NEW n \in Node, Shutdown(n) PROVE StoppedOwnsNothing'
  BY <1>25, LeaseAssumption DEF Shutdown, StoppedOwnsNothing, TypeOK, Calls, Stray
<1>26. ASSUME NEW n \in Node, Stop(n) PROVE StoppedOwnsNothing'
  BY <1>26, LeaseAssumption DEF Stop, Demote, EndOwnership, Sent, Farewell, Release, StoppedOwnsNothing, TypeOK, Calls, Stray
<1>27. ASSUME NEW n \in Node, Crash(n) PROVE StoppedOwnsNothing'
  BY <1>27, LeaseAssumption DEF Crash, EndOwnership, Leftover, GoTo, Hangs, NoCall, StoppedOwnsNothing, TypeOK, Calls, Stray
<1>28. ASSUME NEW n \in Node, Restart(n) PROVE StoppedOwnsNothing'
  BY <1>28, LeaseAssumption DEF Restart, GoTo, StoppedOwnsNothing, TypeOK, Calls, Stray
<1>29. ASSUME NEW m \in late, ServeLate(m) PROVE StoppedOwnsNothing'
  BY <1>29, LeaseAssumption DEF ServeLate, Free, Grant, Renewable, Holds, Extend, Releases, StoppedOwnsNothing, TypeOK, Calls, Stray
<1>30. ASSUME NEW m \in late, Lose(m) PROVE StoppedOwnsNothing'
  BY <1>30, LeaseAssumption DEF Lose, StoppedOwnsNothing, TypeOK, Calls, Stray
<1>31. ASSUME NEW m \in late, LateGrant(m) PROVE StoppedOwnsNothing'
  BY <1>31, LeaseAssumption DEF LateGrant, Release, StoppedOwnsNothing, TypeOK, Calls, Stray
<1>32. CASE UNCHANGED vars
  BY <1>32 DEF vars, StoppedOwnsNothing, TypeOK, Calls, Stray
<1>33. QED
  BY <1>1, <1>2, <1>3, <1>4, <1>5, <1>6, <1>7, <1>8, <1>9, <1>10, <1>11, <1>12, <1>13, <1>14, <1>15, <1>16, <1>17, <1>18, <1>19, <1>20, <1>21, <1>22, <1>23, <1>24, <1>25, <1>26, <1>27, <1>28, <1>29, <1>30, <1>31, <1>32 DEF Next, Loop

-----------------------------------------------------------------------------
(* The theorems.                                                            *)

LEMMA InvInit == Init => IInv
  BY LeaseAssumption
     DEF Init, IInv, TypeOK, Calls, Stray, NoCall, WaitingOwnsNothing, Covered, Owning, IsLeader,
         GrantCovered, Granted, RenewCovered, EpochsBounded, Retired, WorkIsOwned,
         StoppedOwnsNothing

LEMMA InvStep == IInv /\ [Next]_vars => IInv'
<1> SUFFICES ASSUME IInv, [Next]_vars PROVE IInv'
  OBVIOUS
<1>1. TypeOK'
  BY TypeStep DEF IInv
<1>2. QED
  BY <1>1, WaitingOwnsNothingStep, CoveredStep, GrantCoveredStep, RenewCoveredStep,
     EpochsBoundedStep, RetiredStep, WorkIsOwnedStep, StoppedOwnsNothingStep DEF IInv

LEMMA Inductive == Spec => []IInv
  BY InvInit, InvStep, PTL DEF Spec

\* Every variable keeps its type (the store's row, the loops, the calls).
THEOREM TypeCorrect == Spec => []TypeOK
<1>1. IInv => TypeOK
  BY DEF IInv
<1>2. QED
  BY <1>1, Inductive, PTL

\* A leader is covered by the row of the lease, which outlasts its deadline.
THEOREM LeadersAreCovered == Spec => []LeaderCovered
<1>1. IInv => LeaderCovered
  BY DEF IInv, LeaderCovered, Covered, Owning
<1>2. QED
  BY <1>1, Inductive, PTL

LEMMA CoveredIsUnique == IInv => OneLeader
  BY DEF IInv, OneLeader, Covered, Owning, Holds

\* At most one process is the leader (isLeader), for any number of
\* processes and any FailSafeMs < LeaseMs, whatever is late or lost.
THEOREM MutualExclusion == Spec => []OneLeader
  BY CoveredIsUnique, Inductive, PTL

\* No gateway or voice connection outlives its ownership.
THEOREM WorkNeedsOwnership == Spec => []WorkIsOwned
<1>1. IInv => WorkIsOwned
  BY DEF IInv
<1>2. QED
  BY <1>1, Inductive, PTL

\* Two processes run the workload at once only beside an overdue deadline timer.
THEOREM ExclusiveWorkload == Spec => []OneWorkload
<1>1. ASSUME IInv, NEW n \in Node, NEW m \in Node, work[n] # "none", work[m] # "none", n # m
      PROVE ~Punctual /\ (TimerDue(n) \/ TimerDue(m))
  <2>1. epoch[n] # 0 /\ epoch[m] # 0
    BY <1>1 DEF IInv, WorkIsOwned
  <2>2. ~Owning(n) \/ ~Owning(m)
    BY <1>1 DEF IInv, Covered, Holds
  <2>3. ~Punctual
    BY <2>1, <2>2 DEF Owning
  <2>4. \A k \in Node : epoch[k] # 0 /\ ~IsLeader(k) => TimerDue(k)
    BY <1>1 DEF IInv, TypeOK, IsLeader, TimerDue
  <2>5. QED
    BY <2>1, <2>2, <2>3, <2>4 DEF Owning
<1>2. IInv => OneWorkload
  BY <1>1 DEF OneWorkload
<1>3. QED
  BY <1>2, Inductive, PTL

\* Late results never restore an ownership whose deadline has passed.
THEOREM NoResurrection == Spec => ExpiredStaysExpired
<1> DEFINE Kept == \A n \in Node : TimerDue(n) => epoch'[n] = 0 \/ left'[n] = 0
<1>1. IInv /\ [Next]_vars => [Kept]_vars
  <2> SUFFICES ASSUME IInv, [Next]_vars, NEW n \in Node, TimerDue(n), ~(vars' = vars)
               PROVE epoch'[n] = 0 \/ left'[n] = 0
    OBVIOUS
  <2>1. CASE left' = left
    BY <2>1 DEF TimerDue
  <2>2. CASE Tick
    BY <2>2 DEF Tick, Less, TimerDue, IInv, TypeOK
  <2>3. ASSUME NEW m \in Node, Accept(m) PROVE epoch'[n] = 0 \/ left'[n] = 0
    BY <2>3 DEF Accept, TimerDue, IInv, WaitingOwnsNothing, Waiting, TypeOK
  <2>4. ASSUME NEW m \in Node, Renewed(m) PROVE epoch'[n] = 0 \/ left'[n] = 0
    BY <2>4 DEF Renewed, InOwnership, IsLeader, TimerDue, IInv, TypeOK
  <2>5. ASSUME NEW m \in Node, Crash(m) PROVE epoch'[n] = 0 \/ left'[n] = 0
    BY <2>5 DEF Crash, TimerDue, IInv, TypeOK
  <2>6. left' = left \/ Tick \/ \E m \in Node : Accept(m) \/ Renewed(m) \/ Crash(m)
    BY DEF Next, Loop, Exit, Lead, Stand, Prepared, Unprepared, Wake, Decline, Refused,
           AbandonAcquire, Started, StartFailed, StartAborted, RenewAsk, RenewRefused, RenewStale,
           RenewFailed, Refreshed, DeadlineTimer, Join, ServeAcquire, ServeRenew, Shutdown, Stop,
           Restart, ServeLate, Lose, LateGrant, vars
  <2>7. QED
    BY <2>1, <2>2, <2>3, <2>4, <2>5, <2>6
<1>2. QED
  BY <1>1, Inductive, PTL DEF Spec, ExpiredStaysExpired

\* After stop() no answer that is still on its way starts an ownership.
THEOREM StopIsFinal == Spec => StoppedStaysStopped
<1>1. IInv /\ IInv' /\ [Next]_vars =>
        [\A n \in Node : quit[n] = "stopped" => epoch'[n] = 0]_vars
  <2> SUFFICES ASSUME IInv, IInv', [Next]_vars, NEW n \in Node, quit[n] = "stopped"
               PROVE epoch'[n] = 0
    OBVIOUS
  <2>1. epoch[n] = 0
    BY DEF IInv, StoppedOwnsNothing
  <2>2. CASE epoch' = epoch
    BY <2>1, <2>2
  <2>3. CASE quit' = quit
    BY <2>3 DEF IInv, StoppedOwnsNothing
  <2>4. ASSUME NEW m \in Node, Crash(m) PROVE epoch'[n] = 0
    BY <2>1, <2>4 DEF Crash, EndOwnership, IInv, TypeOK
  <2>5. ASSUME NEW m \in Node, Stop(m) PROVE epoch'[n] = 0
    BY <2>1, <2>5 DEF Stop, Demote, EndOwnership, IInv, TypeOK
  <2>6. epoch' = epoch \/ quit' = quit \/ \E m \in Node : Crash(m) \/ Stop(m)
    BY DEF Next, Loop, Tick, Exit, Lead, Stand, Prepared, Unprepared, Wake, Accept, Decline,
           Refused, AbandonAcquire, Started, StartFailed, StartAborted, RenewAsk, Renewed,
           RenewRefused, RenewStale, RenewFailed, Refreshed, DeadlineTimer, Join, ServeAcquire,
           ServeRenew, Shutdown, Restart, ServeLate, Lose, LateGrant, vars
  <2>7. QED
    BY <2>2, <2>3, <2>4, <2>5, <2>6
<1>2. QED
  BY <1>1, Inductive, PTL DEF Spec, StoppedStaysStopped

-----------------------------------------------------------------------------
(* LeaseElector implements FencedOwner.                                     *)

Owners == {[node |-> n, term |-> epoch[n]] : n \in {m \in Node : IsLeader(m)}}

LEMMA OwnersUnique ==
    ASSUME IInv, NEW n \in Node, IsLeader(n)
    PROVE  Owners = {[node |-> n, term |-> epoch[n]]}
<1>1. \A m \in Node : IsLeader(m) => m = n
  BY CoveredIsUnique DEF OneLeader
<1>2. QED
  BY <1>1 DEF Owners

\* A step that gives nobody an ownership keeps the owner or ends it.
LEMMA OwnersShrink ==
    ASSUME IInv, lease'.epoch = lease.epoch,
           \A m \in Node : IsLeader(m)' => IsLeader(m) /\ epoch'[m] = epoch[m]
    PROVE  [Abs!Next]_(Abs!vars)
<1>1. CASE Owners = {}
  <2>1. \A m \in Node : ~IsLeader(m)
    BY <1>1 DEF Owners
  <2>2. Owners' = {}
    BY <2>1 DEF Owners
  <2>3. QED
    BY <1>1, <2>2 DEF Owners, Abs!vars
<1>2. CASE Owners # {}
  <2>1. PICK n \in Node : IsLeader(n)
    BY <1>2 DEF Owners
  <2>2. Owners = {[node |-> n, term |-> epoch[n]]}
    BY <2>1, OwnersUnique
  <2>3. \A m \in Node : m # n => ~IsLeader(m)'
    BY <2>1, CoveredIsUnique DEF OneLeader
  <2>4. CASE IsLeader(n)'
    <3>1. Owners' = {[node |-> n, term |-> epoch[n]]}
      BY <2>3, <2>4 DEF Owners
    <3>2. QED
      BY <2>2, <3>1 DEF Owners, Abs!vars
  <2>5. CASE ~IsLeader(n)'
    <3>1. Owners' = {}
      BY <2>3, <2>5 DEF Owners
    <3>2. QED
      BY <1>2, <3>1 DEF Owners, Abs!Next, Abs!Yield
  <2>6. QED
    BY <2>4, <2>5
<1>3. QED
  BY <1>1, <1>2

\* While the server grants the lease, nobody leads.
LEMMA FreeMeansNoOwner == IInv /\ Free => Owners = {}
<1> SUFFICES ASSUME IInv, Free, NEW n \in Node, IsLeader(n) PROVE FALSE
  BY DEF Owners
<1>1. left[n] < lease.left /\ lease.left = 0 /\ left[n] \in Nat
  BY DEF IInv, Covered, Owning, Free, TypeOK
<1>2. QED
  BY <1>1

LEMMA GrantIssues ==
    ASSUME IInv, Free, NEW n \in Node, Grant(n), UNCHANGED <<epoch, left>>
    PROVE  Abs!Issue
<1>1. Owners = {}
  BY FreeMeansNoOwner
<1>2. Owners' = Owners
  BY DEF Owners, IsLeader
<1>3. lease'.epoch = lease.epoch + 1
  BY DEF Grant
<1>4. QED
  BY <1>1, <1>2, <1>3 DEF Owners, Abs!Issue

\* An accepted grant is the newest epoch, and nobody else leads.
LEMMA AcceptTakes ==
    ASSUME IInv, NEW n \in Node, Accept(n), epoch' # epoch
    PROVE  Abs!Take(n)
<1>1. epoch[n] = 0 /\ call[n].own > 0 /\ Holds(n, call[n].epoch) /\ call[n].epoch # 0
  BY DEF IInv, WaitingOwnsNothing, Waiting, Accept, GrantCovered, Granted, EpochsBounded, InTime,
         TypeOK, Calls
<1>2. \A m \in Node : ~IsLeader(m)
  BY <1>1 DEF IInv, Covered, Owning, IsLeader, Holds
<1>3. Owners = {}
  BY <1>2 DEF Owners
<1>4. epoch' = [epoch EXCEPT ![n] = lease.epoch] /\ left' = [left EXCEPT ![n] = call[n].own]
  BY <1>1 DEF Accept, Budget, Holds
<1>5. epoch'[n] = lease.epoch /\ lease.epoch # 0 /\ left'[n] = call[n].own
  BY <1>1, <1>4 DEF IInv, TypeOK, Holds
<1>6. \A m \in Node : IsLeader(m)' <=> m = n
  BY <1>1, <1>2, <1>4, <1>5 DEF IsLeader, IInv, TypeOK, Calls
<1>7. Owners' = {[node |-> n, term |-> lease.epoch]}
  BY <1>5, <1>6 DEF Owners
<1>8. lease' = lease
  BY DEF Accept
<1>9. QED
  BY <1>3, <1>7, <1>8 DEF Owners, Abs!Take

LEMMA RefinementStep == IInv /\ [Next]_vars => [Abs!Next]_(Abs!vars)
<1> SUFFICES ASSUME IInv, [Next]_vars PROVE [Abs!Next]_(Abs!vars)
  OBVIOUS
<1> DEFINE Shrinks == /\ lease'.epoch = lease.epoch
                      /\ \A m \in Node : IsLeader(m)' => IsLeader(m) /\ epoch'[m] = epoch[m]
<1>1. ASSUME Shrinks PROVE [Abs!Next]_(Abs!vars)
  BY <1>1, OwnersShrink
<1>2. CASE Tick
  <2>1. lease'.epoch = lease.epoch /\ epoch' = epoch
    BY <1>2 DEF Tick, IInv, TypeOK
  <2>2. \A m \in Node : left'[m] > 0 => left[m] > 0
    BY <1>2 DEF Tick, Less, IInv, TypeOK
  <2>3. QED
    BY <1>1, <2>1, <2>2 DEF IsLeader
<1>3. ASSUME NEW n \in Node, Accept(n) PROVE [Abs!Next]_(Abs!vars)
  <2>1. CASE epoch' # epoch
    BY <1>3, <2>1, AcceptTakes DEF Abs!Next
  <2>2. CASE epoch' = epoch
    <3>1. epoch[n] = 0 /\ \A m \in Node : m # n => left'[m] = left[m]
      BY <1>3 DEF Accept, IInv, WaitingOwnsNothing, Waiting, TypeOK
    <3>2. lease' = lease
      BY <1>3 DEF Accept
    <3>3. QED
      BY <1>1, <2>2, <3>1, <3>2 DEF IsLeader
  <2>3. QED
    BY <2>1, <2>2
<1>4. ASSUME NEW n \in Node, ServeAcquire(n) PROVE [Abs!Next]_(Abs!vars)
  <2>1. CASE Free /\ Grant(n)
    BY <1>4, <2>1, GrantIssues DEF ServeAcquire, Abs!Next
  <2>2. CASE UNCHANGED lease
    BY <1>1, <1>4, <2>2 DEF ServeAcquire, IsLeader
  <2>3. QED
    BY <1>4, <2>1, <2>2 DEF ServeAcquire
<1>5. ASSUME NEW m \in late, ServeLate(m) PROVE [Abs!Next]_(Abs!vars)
  <2>1. m.node \in Node
    BY DEF IInv, TypeOK, Stray
  <2>2. CASE Free /\ Grant(m.node)
    BY <1>5, <2>1, <2>2, GrantIssues DEF ServeLate, Abs!Next
  <2>3. CASE lease'.epoch = lease.epoch
    BY <1>1, <1>5, <2>3 DEF ServeLate, IsLeader
  <2>4. QED
    BY <1>5, <2>2, <2>3 DEF ServeLate, Extend, IInv, TypeOK
<1>6. ASSUME NEW n \in Node, Renewed(n) PROVE [Abs!Next]_(Abs!vars)
  <2>1. IsLeader(n) /\ epoch' = epoch /\ lease' = lease
    BY <1>6 DEF Renewed, InOwnership
  <2>2. \A m \in Node : m # n => left'[m] = left[m]
    BY <1>6 DEF Renewed, IInv, TypeOK
  <2>3. QED
    BY <1>1, <2>1, <2>2 DEF IsLeader
<1>7. ASSUME NEW n \in Node, ServeRenew(n) PROVE [Abs!Next]_(Abs!vars)
  <2>1. lease'.epoch = lease.epoch /\ UNCHANGED <<epoch, left>>
    BY <1>7 DEF ServeRenew, Extend, IInv, TypeOK
  <2>2. QED
    BY <1>1, <2>1 DEF IsLeader
<1>8. ASSUME NEW n \in Node, Crash(n) PROVE [Abs!Next]_(Abs!vars)
  <2>1. epoch'[n] = 0 /\ lease' = lease
    BY <1>8 DEF Crash, EndOwnership, IInv, TypeOK
  <2>2. \A m \in Node : m # n => epoch'[m] = epoch[m] /\ left'[m] = left[m]
    BY <1>8 DEF Crash, EndOwnership, IInv, TypeOK
  <2>3. QED
    BY <1>1, <2>1, <2>2 DEF IsLeader
<1>9. ASSUME lease' = lease, left' = left,
             \/ epoch' = epoch
             \/ \E n \in Node : epoch' = [epoch EXCEPT ![n] = 0]
      PROVE [Abs!Next]_(Abs!vars)
  <2>1. \A m \in Node : epoch'[m] = epoch[m] \/ epoch'[m] = 0
    BY <1>9 DEF IInv, TypeOK
  <2>2. QED
    BY <1>1, <1>9, <2>1 DEF IsLeader
<1>10. ASSUME NEW n \in Node,
              \/ Exit(n) \/ Stand(n) \/ StartFailed(n) \/ RenewRefused(n) \/ RenewFailed(n)
              \/ Refreshed(n) \/ DeadlineTimer(n) \/ Stop(n)
       PROVE [Abs!Next]_(Abs!vars)
  <2>1. epoch' = epoch \/ epoch' = [epoch EXCEPT ![n] = 0]
    BY <1>10 DEF Exit, Stand, StartFailed, RenewRefused, RenewFailed, Refreshed, DeadlineTimer,
                 Stop, Demote, EndOwnership
  <2>2. lease' = lease /\ left' = left
    BY <1>10 DEF Exit, Stand, StartFailed, RenewRefused, RenewFailed, Refreshed, DeadlineTimer,
                 Stop
  <2>3. QED
    BY <1>9, <2>1, <2>2
<1>11. CASE UNCHANGED <<lease, epoch, left>>
  BY <1>9, <1>11
<1>12. QED
  BY <1>2, <1>3, <1>4, <1>5, <1>6, <1>7, <1>8, <1>10, <1>11
     DEF Next, Loop, Lead, Prepared, Unprepared, Wake, Decline, Refused, AbandonAcquire, Started,
         StartAborted, RenewAsk, RenewStale, Join, Shutdown, Restart, Lose, LateGrant, vars

\* One owner at a time under the newest term, whatever the network does.
THEOREM Refinement == Spec => ImplementsFencedOwner
<1>1. Init => Abs!Init
  BY DEF Init, Abs!Init, IsLeader
<1>2. QED
  BY <1>1, Inductive, RefinementStep, PTL DEF Spec, ImplementsFencedOwner, Abs!Spec
=============================================================================
