-------------------------- MODULE AsyncSourceProofs --------------------------
(***************************************************************************)
(* Proofs about AsyncSource, for every set of profiles and waiting         *)
(* threads, with or without a cleanup callback.                            *)
(***************************************************************************)
EXTENDS AsyncSource, TLAPS

\* What a waiting request and a running fetch carry: without it the values
\* TakeRequest and Publish store would have no type.
Carried == /\ pending => key \in Keys /\ revision > 0
           /\ worker = "fetch" => fetchKey \in Keys /\ fetchRev > 0

Typed == TypeOK /\ Carried

LEMMA Bound == MaxRevision \in Nat /\ None \notin Keys /\ None \notin [key : Keys, rev : Nat]
BY SourceAssumption DEF SourceAssumption

LEMMA FlagsInit == Init => FlagsOK
BY DEF Init, FlagsOK

LEMMA FlagsStep == FlagsOK /\ [Next]_vars => FlagsOK'
BY SourceAssumption, ZenonT(60) DEF SourceAssumption, FlagsOK, Next, Caller, Worker, Stopper, vars, control, slot, published, epoch, workerVars, waitVars,
  Request, Accept, CleanupDue, RequestWithoutThread, WaitBegins, CancelPending, Retire, Forget, StopBegins,
  Sleep, TakeCleanup, TakeRequest, Cleanup, Publish, Discard, Announce, Wake, StopNotifies, StopJoins, Elapse, WaitChecks, WaitTimesOut

\* Types, and what a request carries, hold together at every step.
LEMMA TypedInvariant == Spec => []Typed
<1>1. Init => Typed
  BY Bound, FlagsInit DEF Init, Typed, TypeOK, DataOK, Carried, WorkerStates
<1>2. Typed /\ [Next]_vars => Typed'
  <2> SUFFICES ASSUME Typed, [Next]_vars PROVE DataOK' /\ Carried'
    BY FlagsStep DEF Typed, TypeOK
  <2> USE Bound DEF Typed, TypeOK, DataOK, Carried, WorkerStates
  <2>1. ASSUME NEW k \in Keys, NEW i \in BOOLEAN, NEW f \in BOOLEAN, Request(k, i, f)
        PROVE  DataOK' /\ Carried'
    BY <2>1 DEF Request, Accept, WakeWaiters, WakeWorker, published
  <2>2. ASSUME NEW k \in Keys, RequestWithoutThread(k) PROVE DataOK' /\ Carried'
    BY <2>2 DEF RequestWithoutThread, Accept, workerVars, waitVars
  <2>3. ASSUME NEW k \in Keys, NEW w \in Waiters, WaitBegins(w, k) PROVE DataOK' /\ Carried'
    BY <2>3 DEF WaitBegins, control, slot, published, workerVars
  <2>4. CASE CancelPending
    BY <2>4 DEF CancelPending, Retire, Forget, NotifyAll, WakeWaiters, WakeWorker
  <2>5. CASE StopBegins
    BY <2>5 DEF StopBegins, slot, published, workerVars, waitVars
  <2>6. CASE Sleep
    BY <2>6 DEF Sleep, control, slot, published, waitVars
  <2>7. CASE TakeCleanup
    BY <2>7 DEF TakeCleanup, control, slot, published, waitVars
  <2>8. CASE TakeRequest
    BY <2>8 DEF TakeRequest, control, published, waitVars
  <2>9. CASE Cleanup
    BY <2>9 DEF Cleanup, control, slot, published, waitVars
  <2>10. CASE Publish
    BY <2>10 DEF Publish, control, waitVars, Values
  <2>11. CASE Discard
    BY <2>11 DEF Discard, control, published, waitVars
  <2>12. CASE Announce
    BY <2>12 DEF Announce, WakeWaiters, control, slot, published
  <2>13. CASE Wake
    BY <2>13 DEF Wake, control, slot, published, waitVars
  <2>14. CASE StopNotifies
    BY <2>14 DEF StopNotifies, NotifyAll, WakeWaiters, WakeWorker, control, slot, published
  <2>15. CASE StopJoins
    BY <2>15 DEF StopJoins, control, slot, published, waitVars
  <2>16. CASE Elapse
    BY <2>16 DEF Elapse, control, published, workerVars, waitVars
  <2>17. ASSUME NEW w \in Waiters, WaitChecks(w) PROVE DataOK' /\ Carried'
    BY <2>17 DEF WaitChecks, control, slot, published, workerVars
  <2>18. ASSUME NEW w \in Waiters, WaitTimesOut(w) PROVE DataOK' /\ Carried'
    BY <2>18 DEF WaitTimesOut, control, slot, published, workerVars
  <2>19. CASE UNCHANGED vars
    BY <2>19 DEF vars, control, slot, published, workerVars, waitVars
  <2>20. QED
    BY <2>1, <2>2, <2>3, <2>4, <2>5, <2>6, <2>7, <2>8, <2>9, <2>10, <2>11, <2>12,
       <2>13, <2>14, <2>15, <2>16, <2>17, <2>18, <2>19 DEF Next, Caller, Worker, Stopper
<1>3. QED
  BY <1>1, <1>2, PTL DEF Spec

\* The state of the source, its worker, its waiters and its stopper is well
\* typed, so no answer is ever stored under an empty profile.
THEOREM TypeCorrect == Spec => []TypeOK
<1>1. Typed => TypeOK
  BY DEF Typed
<1>2. QED
  BY <1>1, TypedInvariant, PTL
-----------------------------------------------------------------------------
(***************************************************************************)
(* The inductive invariant.  Each part says what one of the properties     *)
(* needs to survive every step; none of the properties is inductive alone. *)
(***************************************************************************)

\* Where the worker is decides busy; before it exists nothing is pending.
WorkerShape ==
    /\ busy <=> worker = "fetch"
    /\ worker = "none" => ~pending
    /\ stop <=> stopper # "idle"

\* A fetch whose revision is still current is a fetch for the current profile.
FetchIsCurrent ==
    /\ fetchRev <= revision
    /\ worker = "fetch" /\ fetchRev = revision => fetchKey = key /\ key # None

\* The profile in force was accepted after the last CancelPending.
ClearedBefore ==
    /\ cleared <= revision
    /\ key # None => cleared < revision

\* NoStrandedRequest, with the reason a running fetch counts.
Served == key # None /\ ~stop =>
    pending \/ resultKey = key \/ (worker = "fetch" /\ fetchRev = revision)

\* Open resources belong to the epoch's profile, and a change of profile
\* leaves a cleanup pending until they are released.
EpochShape ==
    HasCleanup =>
      /\ epochActive => /\ worker \notin {"none", "cleanup", "cleanupLast", "exited", "joined"}
                        /\ held = {fetchKey}
      /\ cleanupPending => epochActive
      /\ epochActive /\ ~cleanupPending => (key = fetchKey)
      /\ ~epochActive => held = {} \/ worker \in {"cleanup", "cleanupLast"}
      /\ worker = "fetch" => epochActive

\* A waiting thread always has a profile to wait for.
WaitingFor == \A w \in Waiters : waiting[w] # "idle" => waitKey[w] \in Keys

Core == /\ WorkerShape /\ FetchIsCurrent /\ ClearedBefore /\ Served
        /\ NothingFromBeforeClear

Wakeups == WaitingFor /\ NoLostWakeup

IInv == Core /\ EpochShape /\ Wakeups

LEMMA InvInit == Init => IInv
BY SourceAssumption
   DEF Init, IInv, Core, WorkerShape, FetchIsCurrent, ClearedBefore, Served,
       NothingFromBeforeClear, EpochShape, Wakeups, WaitingFor, NoLostWakeup

\* Requests, fetches and answers: who is served by what.
LEMMA CoreStep == Typed /\ Core /\ [Next]_vars => Core'
<1> SUFFICES ASSUME Typed, Core, [Next]_vars PROVE Core'
  OBVIOUS
<1> USE Bound DEF Core, WorkerShape, FetchIsCurrent, ClearedBefore, Served,
    NothingFromBeforeClear, Typed, TypeOK, DataOK, Carried
<1>1. ASSUME NEW k \in Keys, NEW i \in BOOLEAN, NEW f \in BOOLEAN, Request(k, i, f) PROVE Core'
  BY <1>1 DEF Request, Accept, WakeWorker, published
<1>2. ASSUME NEW k \in Keys, RequestWithoutThread(k) PROVE Core'
  BY <1>2 DEF RequestWithoutThread, Accept, workerVars
<1>3. CASE CancelPending
  BY <1>3 DEF CancelPending, Retire, Forget, NotifyAll, WakeWorker
<1>4. CASE TakeRequest
  BY <1>4 DEF TakeRequest, control, published
<1>5. CASE Publish
  BY <1>5 DEF Publish, Canceled, control
<1>6. CASE Discard
  BY <1>6 DEF Discard, Canceled, control, published
<1>7. CASE Sleep \/ Wake \/ Announce \/ Cleanup \/ TakeCleanup
  BY <1>7 DEF Sleep, Wake, Announce, Cleanup, TakeCleanup, control, slot, published
<1>8. CASE StopBegins \/ Stopper
  BY <1>8 DEF StopBegins, Stopper, StopNotifies, StopJoins, NotifyAll, WakeWorker,
              control, slot, published, workerVars
<1>9. ASSUME \/ Elapse \/ UNCHANGED vars
             \/ \E w \in Waiters : WaitChecks(w) \/ WaitTimesOut(w) \/ \E k \in Keys : WaitBegins(w, k)
      PROVE  Core'
  BY <1>9 DEF Elapse, WaitChecks, WaitTimesOut, WaitBegins, vars, control, slot, published, workerVars
<1>10. QED
  BY <1>1, <1>2, <1>3, <1>4, <1>5, <1>6, <1>7, <1>8, <1>9 DEF Next, Caller, Worker, Stopper

\* Worker-local resources: whose they are and when they are released.
LEMMA EpochStep == Typed /\ Core /\ EpochShape /\ [Next]_vars => EpochShape'
<1> SUFFICES ASSUME Typed, Core, EpochShape, [Next]_vars, HasCleanup PROVE EpochShape'
  BY DEF EpochShape
<1> USE Bound DEF EpochShape, Core, WorkerShape, Typed, TypeOK, DataOK, Carried, WorkerStates
<1>1. ASSUME NEW k \in Keys, NEW i \in BOOLEAN, NEW f \in BOOLEAN, Request(k, i, f) PROVE EpochShape'
  BY <1>1 DEF Request, Accept, CleanupDue, WakeWorker
<1>2. ASSUME NEW k \in Keys, RequestWithoutThread(k) PROVE EpochShape'
  BY <1>2 DEF RequestWithoutThread, Accept, CleanupDue, workerVars
<1>3. CASE CancelPending
  BY <1>3 DEF CancelPending, NotifyAll, WakeWorker
<1>4. CASE TakeRequest
  BY <1>4 DEF TakeRequest
<1>5. CASE TakeCleanup \/ Cleanup
  BY <1>5 DEF TakeCleanup, Cleanup, slot, epoch
<1>6. CASE Publish \/ Discard \/ Sleep \/ Wake \/ Announce
  BY <1>6 DEF Publish, Discard, Sleep, Wake, Announce, slot, epoch
<1>7. CASE StopBegins \/ Stopper
  BY <1>7 DEF StopBegins, Stopper, StopNotifies, StopJoins, NotifyAll, WakeWorker, slot, epoch, workerVars
<1>8. ASSUME \/ Elapse \/ UNCHANGED vars
             \/ \E w \in Waiters : WaitChecks(w) \/ WaitTimesOut(w) \/ \E k \in Keys : WaitBegins(w, k)
      PROVE  EpochShape'
  BY <1>8 DEF Elapse, WaitChecks, WaitTimesOut, WaitBegins, vars, slot, epoch, workerVars
<1>9. QED
  BY <1>1, <1>2, <1>3, <1>4, <1>5, <1>6, <1>7, <1>8 DEF Next, Caller, Worker, Stopper

\* Sleepers: every step that could concern one wakes it, or is followed by a
\* step that will.
LEMMA WakeupStep == Typed /\ Core /\ Wakeups /\ [Next]_vars => Wakeups'
<1> SUFFICES ASSUME Typed, Core, Wakeups, [Next]_vars PROVE Wakeups'
  OBVIOUS
<1> USE Bound DEF Wakeups, WaitingFor, NoLostWakeup, WorkReady, WaitOver, Core, WorkerShape,
    Typed, TypeOK, DataOK, Carried
<1>1. ASSUME NEW k \in Keys, NEW i \in BOOLEAN, NEW f \in BOOLEAN, Request(k, i, f) PROVE Wakeups'
  BY <1>1 DEF Request, WakeWaiters, WakeWorker
<1>2. ASSUME NEW k \in Keys, RequestWithoutThread(k) PROVE Wakeups'
  \* Nobody can be asleep: with no worker the profile in force is answered.
  BY <1>2 DEF RequestWithoutThread, Accept, Served, workerVars, waitVars
<1>3. CASE CancelPending
  BY <1>3 DEF CancelPending, NotifyAll, WakeWaiters, WakeWorker
<1>4. CASE TakeRequest
  BY <1>4 DEF TakeRequest, control, published, waitVars
<1>5. CASE Publish \/ Discard
  BY <1>5 DEF Publish, Discard, control, epoch, waitVars
<1>6. CASE Announce
  BY <1>6 DEF Announce, WakeWaiters, control, slot, published, epoch
<1>7. CASE Sleep \/ Wake \/ Cleanup \/ TakeCleanup
  BY <1>7 DEF Sleep, Wake, Cleanup, TakeCleanup, control, slot, published, epoch, waitVars
<1>8. CASE StopBegins
  BY <1>8 DEF StopBegins, slot, published, epoch, workerVars, waitVars
<1>9. CASE Stopper
  BY <1>9 DEF Stopper, StopNotifies, StopJoins, NotifyAll, WakeWaiters, WakeWorker, control, slot,
              published, epoch, waitVars
<1>10. ASSUME NEW w \in Waiters,
              WaitChecks(w) \/ WaitTimesOut(w) \/ \E k \in Keys : WaitBegins(w, k)
       PROVE  Wakeups'
  BY <1>10 DEF WaitChecks, WaitTimesOut, WaitBegins, control, slot, published, epoch, workerVars
<1>11. CASE Elapse \/ UNCHANGED vars
  BY <1>11 DEF Elapse, vars, control, slot, published, epoch, workerVars, waitVars
<1>12. QED
  BY <1>1, <1>2, <1>3, <1>4, <1>5, <1>6, <1>7, <1>8, <1>9, <1>10, <1>11 DEF Next, Caller, Worker, Stopper

LEMMA InvInvariant == Spec => [](Typed /\ IInv)
<1>1. Typed /\ IInv /\ [Next]_vars => IInv'
  BY CoreStep, EpochStep, WakeupStep DEF IInv
<1>2. QED
  BY <1>1, InvInit, TypedInvariant, PTL DEF Spec
-----------------------------------------------------------------------------
\* An accepted profile is waiting, being fetched or answered until the source
\* stops, whatever requests, failures and cancellations came between.
THEOREM NeverStranded == Spec => []NoStrandedRequest
<1>1. IInv => NoStrandedRequest
  BY DEF IInv, Core, Served, WorkerShape, NoStrandedRequest
<1>2. QED
  BY <1>1, InvInvariant, PTL

\* No thread sleeps through a change it waits for: neither the worker, nor a
\* caller of Wait.
THEOREM NeverAsleepForWork == Spec => []NoLostWakeup
<1>1. IInv => NoLostWakeup
  BY DEF IInv, Wakeups
<1>2. QED
  BY <1>1, InvInvariant, PTL

\* Worker-local resources never cross profiles and never outlive the worker.
THEOREM ResourcesReleased == Spec => []ResourcesOfOneProfile
<1>1. Typed /\ IInv => ResourcesOfOneProfile
  BY DEF IInv, EpochShape, ResourcesOfOneProfile
<1>2. QED
  BY <1>1, InvInvariant, PTL

\* CancelPending is final: nothing fetched before it can be read after it.
THEOREM ClearIsFinal == Spec => []NothingFromBeforeClear
<1>1. IInv => NothingFromBeforeClear
  BY DEF IInv, Core
<1>2. QED
  BY <1>1, InvInvariant, PTL

\* AsyncSource implements LatestAnswer: whatever the interleaving of callers
\* and worker, only the latest request is answered, and under its profile.
THEOREM Refinement == Spec => ImplementsPromise
<1> DEFINE request == IF key = None THEN None ELSE [key |-> key, rev |-> revision]
           answer == IF resultKey = None THEN None ELSE [key |-> resultKey, value |-> result]
<1> USE Bound
<1>1. Init => Promise!Init
  BY DEF Init, Promise!Init
<1>2. Typed /\ IInv /\ [Next]_vars => [Promise!Next]_(Promise!vars)
  <2> SUFFICES ASSUME Typed, IInv, [Next]_vars
               PROVE  Promise!Next \/ (request' = request /\ answer' = answer /\ stop' = stop)
    BY DEF Promise!vars
  <2>0. key \in Keys \cup {None} /\ revision \in Nat /\ revision + 1 \in Nat
    BY DEF Typed, TypeOK, DataOK
  <2>1. ASSUME NEW k \in Keys, NEW i \in BOOLEAN, NEW f \in BOOLEAN, Request(k, i, f)
        PROVE  Promise!Submit
    <3>1. request' \in Promise!Requests
      BY <2>0, <2>1 DEF Request, Accept, Promise!Requests
    <3>2. ~stop /\ answer' = answer /\ stop' = stop
      BY <2>1 DEF Request, Accept, published
    <3>3. QED
      BY <3>1, <3>2 DEF Promise!Submit
  <2>2. ASSUME NEW k \in Keys, RequestWithoutThread(k) PROVE Promise!Refuse
    <3>1. request' \in Promise!Requests /\ request'.key = k
      BY <2>0, <2>2 DEF RequestWithoutThread, Accept, Promise!Requests
    <3>2. ~stop /\ answer' = [key |-> k, value |-> None] /\ stop' = stop
      BY <2>2 DEF RequestWithoutThread, Accept
    <3>3. QED
      BY <3>1, <3>2 DEF Promise!Refuse
  <2>3. CASE CancelPending
    BY <2>3 DEF CancelPending, Forget, Promise!Clear, Promise!Next
  <2>4. CASE StopBegins
    BY <2>4 DEF StopBegins, slot, published, Promise!Close, Promise!Next
  <2>5. CASE Publish
    <3>1. fetchKey = key /\ fetchRev = revision /\ key # None
      BY <2>5 DEF Publish, Canceled, IInv, Core, FetchIsCurrent
    <3>2. request = [key |-> key, rev |-> revision]
      BY <3>1
    <3>3. [key |-> key, rev |-> revision] # None
      BY <2>0, <3>1
    <3>4. \/ answer' = [key |-> key, value |-> [key |-> key, rev |-> revision]]
          \/ answer' = [key |-> key, value |-> None]
      BY <2>5, <3>1 DEF Publish
    <3>5. ~stop /\ request' = request /\ stop' = stop
      BY <2>5 DEF Publish, Canceled, control
    <3>6. request.key = key
      BY <3>2
    <3> HIDE DEF request, answer
    <3>7. \/ answer' = [key |-> request.key, value |-> request]
          \/ answer' = [key |-> request.key, value |-> None]
      BY <3>2, <3>4, <3>6
    <3>8. request # None
      BY <3>2, <3>3
    <3> USE DEF request, answer
    <3>9. QED
      BY <3>5, <3>7, <3>8 DEF Promise!Answer, Promise!Next
  <2>6. CASE Sleep \/ TakeCleanup \/ TakeRequest \/ Cleanup \/ Discard \/ Announce \/ Wake
    BY <2>6 DEF Sleep, TakeCleanup, TakeRequest, Cleanup, Discard, Announce, Wake, control, slot, published
  <2>7. CASE Stopper \/ Elapse \/ UNCHANGED vars
    BY <2>7 DEF Stopper, StopNotifies, StopJoins, Elapse, vars, control, slot, published
  <2>8. ASSUME NEW w \in Waiters,
               WaitChecks(w) \/ WaitTimesOut(w) \/ \E k \in Keys : WaitBegins(w, k)
        PROVE  request' = request /\ answer' = answer /\ stop' = stop
    BY <2>8 DEF WaitChecks, WaitTimesOut, WaitBegins, control, slot, published
  <2>9. QED
    BY <2>1, <2>2, <2>3, <2>4, <2>5, <2>6, <2>7, <2>8 DEF Next, Caller, Worker, Promise!Next
<1>3. QED
  BY <1>1, <1>2, InvInvariant, PTL DEF Spec, Promise!Spec, ImplementsPromise
=============================================================================
