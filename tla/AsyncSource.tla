----------------------------- MODULE AsyncSource -----------------------------
(***************************************************************************)
(* dependencies/content_source_host.h, AsyncSource<Result>: the cache and  *)
(* the single worker thread every content source of the tile host runs on. *)
(*                                                                         *)
(* One action is one critical section of mutex_, or one step of a thread   *)
(* outside it.  The fetch and the cleanup callback run outside the mutex,  *)
(* so requests, cancellations and Stop interleave with them.  The value a  *)
(* fetch returns is abstracted to the request it was computed for; the     *)
(* deadline next_ to the boolean due; an interval to whether it differs    *)
(* from the last one; error_ to a published answer that has no value.      *)
(***************************************************************************)
EXTENDS Naturals, FiniteSets

CONSTANTS Keys,         \* profiles: the nonempty key strings hosts ask for
          Waiters,      \* threads that may block in Wait
          None,         \* the empty key, the empty optional
          HasCleanup,   \* the source was built with a workerCleanup callback
          MaxRevision   \* bound on control_->revision

ASSUME SourceAssumption ==
    /\ None \notin Keys /\ None \notin [key : Keys, rev : Nat]
    /\ HasCleanup \in BOOLEAN
    /\ MaxRevision \in Nat

VARIABLES
    stop, revision,                     \* the shared Control
    pending, busy,                      \* one latest request waits, one runs
    key, due,                           \* key_, and Clock::now() >= next_
    resultKey, result,                  \* the published answer
    epochActive, cleanupPending,        \* worker-local resources
    worker, fetchKey, fetchRev,         \* Run(): where it is, what it took
    waiting, waitKey,                   \* Wait(): where it is, its argument
    stopper,                            \* Stop(): where it is
    held,                               \* profiles with open worker resources
    cleared                             \* revision of the last CancelPending

control    == <<stop, revision>>
slot       == <<pending, busy, key, due>>
published  == <<resultKey, result>>
epoch      == <<epochActive, cleanupPending>>
workerVars == <<worker, fetchKey, fetchRev, held>>
waitVars   == <<waiting, waitKey>>
vars == <<control, slot, published, epoch, workerVars, waitVars, stopper, cleared>>

WorkerStates == {"none", "check", "asleep", "cleanup", "cleanupLast", "fetch",
                 "published", "discarded", "wake", "exited", "joined"}
Values == [key : Keys, rev : 1..MaxRevision]

FlagsOK ==
    /\ stop \in BOOLEAN /\ pending \in BOOLEAN /\ busy \in BOOLEAN /\ due \in BOOLEAN
    /\ epochActive \in BOOLEAN /\ cleanupPending \in BOOLEAN

DataOK ==
    /\ revision \in 0..MaxRevision /\ cleared \in 0..MaxRevision
    /\ key \in Keys \cup {None} /\ resultKey \in Keys \cup {None}
    /\ result \in Values \cup {None}
    /\ worker \in WorkerStates
    /\ fetchKey \in Keys \cup {None} /\ fetchRev \in 0..MaxRevision
    /\ waiting \in [Waiters -> {"idle", "check", "asleep"}]
    /\ waitKey \in [Waiters -> Keys \cup {None}]
    /\ stopper \in {"idle", "notify", "join", "done"}
    /\ held \subseteq Keys

\* The state of the source, its worker, its waiters and its stopper is well
\* typed: no fetch runs for, and no answer is stored under, an empty profile.
TypeOK == FlagsOK /\ DataOK

Init ==
    /\ stop = FALSE /\ revision = 0
    /\ pending = FALSE /\ busy = FALSE /\ key = None /\ due = TRUE
    /\ resultKey = None /\ result = None
    /\ epochActive = FALSE /\ cleanupPending = FALSE
    /\ worker = "none" /\ fetchKey = None /\ fetchRev = 0
    /\ waiting = [w \in Waiters |-> "idle"]
    /\ waitKey = [w \in Waiters |-> None]
    /\ stopper = "idle"
    /\ held = {} /\ cleared = 0
------------------------------------------------------------------------------
\* The definitions named Bug* are seeded mistakes: each is a wrong form of the
\* definition after it, kept to show that a property would notice it.

\* changed_.notify_all(): every thread asleep on the condition re-evaluates it.
WakeWaiters == waiting' = [w \in Waiters |-> IF waiting[w] = "asleep" THEN "check" ELSE waiting[w]]

BugNoWakeWorker(w) == w
WakeWorker(w) == IF w = "asleep" THEN "check" ELSE w

NotifyAll == /\ WakeWaiters
             /\ worker' = WakeWorker(worker)
             /\ UNCHANGED waitKey

\* The predicate the worker waits for.
WorkReady == stop \/ pending \/ cleanupPending

\* The predicate Wait(k) waits for.
BugWaitOver(k) == stop \/ (~busy /\ ~pending /\ resultKey = k)
WaitOver(k) == stop \/ key # k \/ (~busy /\ ~pending /\ resultKey = k)

\* The Cancel functor given to the running fetch.
BugCanceled == stop
Canceled == stop \/ revision # fetchRev

------------------------------------------------------------------------------
\* Request returns early: the same profile and interval, no force, and the
\* request is running, waiting or still fresh.  It changes nothing.
Refreshed(k, newInterval, force) ==
    k # key \/ newInterval \/ force \/ (~busy /\ ~pending /\ due)

\* A change of profile retires the resources its fetches opened.
BugCleanupDue(k) == k # key /\ epochActive /\ HasCleanup /\ ~busy
CleanupDue(k) == k # key /\ epochActive /\ HasCleanup

Accept(k) ==
    /\ ~stop
    /\ revision < MaxRevision
    /\ cleanupPending' = (cleanupPending \/ CleanupDue(k))
    /\ key' = k
    /\ revision' = revision + 1

\* Request is accepted; the first one starts the worker.
Request(k, newInterval, force) ==
    /\ Refreshed(k, newInterval, force)
    /\ Accept(k)
    /\ pending' = TRUE
    /\ due' = FALSE
    /\ worker' = IF worker = "none" THEN "check" ELSE WakeWorker(worker)
    /\ WakeWaiters
    /\ UNCHANGED <<stop, busy, published, epochActive, fetchKey, fetchRev, held, waitKey, stopper, cleared>>

\* std::thread's constructor throws: the request ends in a published failure.
\* This path returns without notifying anyone.
RequestWithoutThread(k) ==
    /\ worker = "none"
    /\ Refreshed(k, FALSE, FALSE)
    /\ Accept(k)
    /\ pending' = FALSE
    /\ due' = TRUE
    /\ resultKey' = k /\ result' = None
    /\ UNCHANGED <<stop, busy, epochActive, workerVars, waitVars, stopper, cleared>>

Forget == pending' = FALSE /\ key' = None /\ resultKey' = None /\ result' = None

Retire == revision' = revision + 1

CancelPending ==
    /\ revision < MaxRevision
    /\ cleanupPending' = (cleanupPending \/ (epochActive /\ HasCleanup))
    /\ Retire
    /\ Forget
    /\ cleared' = revision'
    /\ NotifyAll
    /\ UNCHANGED <<stop, busy, due, epochActive, fetchKey, fetchRev, held, stopper>>

\* The steady clock passes next_.
Elapse == ~due /\ due' = TRUE
          /\ UNCHANGED <<control, pending, busy, key, published, epoch, workerVars, waitVars, stopper, cleared>>
------------------------------------------------------------------------------
\* Wait(k, timeout) takes the mutex, then sleeps until its predicate holds.
WaitBegins(w, k) ==
    /\ waiting[w] = "idle"
    /\ waiting' = [waiting EXCEPT ![w] = "check"]
    /\ waitKey' = [waitKey EXCEPT ![w] = k]
    /\ UNCHANGED <<control, slot, published, epoch, workerVars, stopper, cleared>>

WaitChecks(w) ==
    /\ waiting[w] = "check"
    /\ waiting' = [waiting EXCEPT ![w] = IF WaitOver(waitKey[w]) THEN "idle" ELSE "asleep"]
    /\ UNCHANGED <<control, slot, published, epoch, workerVars, waitKey, stopper, cleared>>

WaitTimesOut(w) ==
    /\ waiting[w] = "asleep"
    /\ waiting' = [waiting EXCEPT ![w] = "idle"]
    /\ UNCHANGED <<control, slot, published, epoch, workerVars, waitKey, stopper, cleared>>
------------------------------------------------------------------------------
\* Run(): the critical section at the head of the loop.
Sleep ==
    /\ worker = "check" /\ ~WorkReady
    /\ worker' = "asleep"
    /\ UNCHANGED <<control, slot, published, epoch, fetchKey, fetchRev, held, waitVars, stopper, cleared>>

\* A stop or a pending cleanup goes before any request.
TakeCleanup ==
    /\ worker = "check"
    /\ stop \/ cleanupPending
    /\ worker' = IF epochActive /\ HasCleanup
                 THEN IF stop THEN "cleanupLast" ELSE "cleanup"
                 ELSE IF stop THEN "exited" ELSE "check"
    /\ epochActive' = FALSE /\ cleanupPending' = FALSE
    /\ UNCHANGED <<control, slot, published, fetchKey, fetchRev, held, waitVars, stopper, cleared>>

TakeRequest ==
    /\ worker = "check"
    /\ pending /\ ~stop /\ ~cleanupPending
    /\ worker' = "fetch"
    /\ fetchKey' = key /\ fetchRev' = revision
    /\ pending' = FALSE /\ busy' = TRUE /\ epochActive' = TRUE
    /\ held' = held \cup {key}
    /\ UNCHANGED <<control, key, due, published, cleanupPending, waitVars, stopper, cleared>>

\* workerCleanup_() releases what the fetches of this epoch opened.
Cleanup ==
    /\ worker \in {"cleanup", "cleanupLast"}
    /\ held' = {}
    /\ worker' = IF worker = "cleanupLast" THEN "exited" ELSE "check"
    /\ UNCHANGED <<control, slot, published, epoch, fetchKey, fetchRev, waitVars, stopper, cleared>>

\* The fetch returned or threw; the worker publishes unless it was canceled.
Publish ==
    /\ worker = "fetch" /\ ~Canceled
    /\ busy' = FALSE
    /\ resultKey' = fetchKey
    /\ result' \in {[key |-> fetchKey, rev |-> fetchRev], None}
    /\ worker' = "published"
    /\ UNCHANGED <<control, pending, key, due, epoch, fetchKey, fetchRev, held, waitVars, stopper, cleared>>

Discard ==
    /\ worker = "fetch" /\ Canceled
    /\ busy' = FALSE
    /\ worker' = "discarded"
    /\ UNCHANGED <<control, pending, key, due, published, epoch, fetchKey, fetchRev, held, waitVars, stopper, cleared>>

\* changed_.notify_all() after the mutex is released, then the wake callback.
Announce ==
    /\ worker \in {"published", "discarded"}
    /\ WakeWaiters
    /\ worker' = IF worker = "published" THEN "wake" ELSE "check"
    /\ UNCHANGED <<control, slot, published, epoch, fetchKey, fetchRev, held, waitKey, stopper, cleared>>

Wake ==
    /\ worker = "wake"
    /\ worker' = "check"
    /\ UNCHANGED <<control, slot, published, epoch, fetchKey, fetchRev, held, waitVars, stopper, cleared>>
------------------------------------------------------------------------------
\* Stop(): set under the mutex, notify without it, join.
StopBegins ==
    /\ stopper = "idle"
    /\ stop' = TRUE
    /\ stopper' = "notify"
    /\ UNCHANGED <<revision, slot, published, epoch, workerVars, waitVars, cleared>>

StopNotifies ==
    /\ stopper = "notify"
    /\ NotifyAll
    /\ stopper' = "join"
    /\ UNCHANGED <<control, slot, published, epoch, fetchKey, fetchRev, held, cleared>>

StopJoins ==
    /\ stopper = "join"
    /\ worker \in {"none", "exited"}
    /\ worker' = IF worker = "exited" THEN "joined" ELSE worker
    /\ stopper' = "done"
    /\ UNCHANGED <<control, slot, published, epoch, fetchKey, fetchRev, held, waitVars, cleared>>
------------------------------------------------------------------------------
Caller == \/ \E k \in Keys : \/ \E i, f \in BOOLEAN : Request(k, i, f)
                             \/ RequestWithoutThread(k)
                             \/ \E w \in Waiters : WaitBegins(w, k)
          \/ CancelPending
          \/ StopBegins

Worker == Sleep \/ TakeCleanup \/ TakeRequest \/ Cleanup \/ Publish \/ Discard \/ Announce \/ Wake

Stopper == StopNotifies \/ StopJoins

Next == \/ Caller \/ Worker \/ Stopper \/ Elapse
        \/ \E w \in Waiters : WaitChecks(w) \/ WaitTimesOut(w)

Spec == Init /\ [][Next]_vars

\* The threads are scheduled and a fetch ends ("fetchers own their I/O
\* deadline"); nothing is assumed of callers, of the clock or of timeouts.
Fairness == /\ WF_vars(Worker)
            /\ WF_vars(Stopper)
            /\ \A w \in Waiters : WF_vars(WaitChecks(w))

FairSpec == Spec /\ Fairness
------------------------------------------------------------------------------
(***************************************************************************)
(* Properties.                                                             *)
(***************************************************************************)

\* A profile that was accepted is never forgotten: until the source stops it
\* is waiting, being fetched, or answered, whatever requests, failures and
\* cancellations came between.
NoStrandedRequest == key # None /\ ~stop => pending \/ busy \/ resultKey = key

\* No wake-up is lost: a thread asleep on changed_ either has nothing to do,
\* or some thread has yet to call notify_all for the change that concerns it.
\* Request's failure path, which notifies nobody, is no exception.
NoLostWakeup ==
    /\ worker = "asleep" => ~WorkReady \/ stopper = "notify"
    /\ \A w \in Waiters : waiting[w] = "asleep" =>
          \/ ~WaitOver(waitKey[w])
          \/ worker \in {"published", "discarded"} \/ stopper = "notify"

\* "Cleanup follows the canceled fetch and precedes the replacement fetch":
\* with a cleanup callback, a fetch never finds resources another profile's
\* fetch opened, and the worker never exits with any open.
ResourcesOfOneProfile ==
    HasCleanup => /\ worker = "fetch" => held = {fetchKey}
                  /\ worker \in {"exited", "joined"} => held = {}

\* What can be read belongs to the profile it is stored under and was
\* requested after the last CancelPending, even when the fetch CancelPending
\* cancelled returns later.
NothingFromBeforeClear == result # None => result.key = resultKey /\ result.rev > cleared

\* The source implements the latest-answer promise (LatestAnswer): only the
\* latest request is ever answered, under its own profile, and nothing is
\* answered once the source is stopped.
Promise == INSTANCE LatestAnswer WITH
    request <- IF key = None THEN None ELSE [key |-> key, rev |-> revision],
    answer  <- IF resultKey = None THEN None ELSE [key |-> resultKey, value |-> result],
    closed  <- stop
ImplementsPromise == Promise!Spec

\* Every accepted request is answered, superseded, cancelled or stopped.  A
\* host that keeps forcing refreshes supersedes its own requests: the bound
\* on revisions is what ends that here.
Answered == \A k \in Keys, r \in 1..MaxRevision :
    (key = k /\ revision = r) ~> (revision # r \/ stop \/ (resultKey = k /\ ~busy /\ ~pending))

\* Stop always returns, from whatever state it finds the worker in.
StopReturns == (stopper # "idle") ~> (stopper = "done")

\* Wait returns even when its timeout never fires.
WaitReturns == \A w \in Waiters : (waiting[w] # "idle") ~> (waiting[w] = "idle")

\* The two calls that block their caller, Stop and Wait, come back whatever
\* the worker is doing.
BlockingCallsReturn == StopReturns /\ WaitReturns
==============================================================================
