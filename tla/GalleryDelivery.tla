--------------------------- MODULE GalleryDelivery ---------------------------
(***************************************************************************)
(* One gallery tile from its durable pending window to Windows' queue:     *)
(* DesktopStub/ga_gallery_runtime.inc (Coordinator) with the delivery that *)
(* ga_content_state.inc and ga_generation.inc perform for its frames.      *)
(*                                                                         *)
(* Four threads meet here.  The poll thread runs Refresh (op) and hands    *)
(* frames to the generation worker; the worker updates Windows slot by     *)
(* slot and reports each slot; a settings thread suspends publication,     *)
(* rewrites INI, ledger and queue, and resumes; the process may crash.     *)
(* An action is a section under published_, one durable save, or one step  *)
(* of the worker.  Flights and frames are kept per tile, so one tile is    *)
(* modelled; other tiles appear by the one thing they can do to it, a save *)
(* of theirs that fails.                                                   *)
(***************************************************************************)
EXTENDS GalleryEngine, FiniteSets

CONSTANTS Images,       \* the images the tile may own
          Ordered,      \* Ordered[S]: the images of S in the tile's configured order
          Sizes,        \* queue sizes the configuration may ask for
          None,
          SavesMayFail, \* a ledger save may fail or meet a conflict
          MaxTicket,    \* bound on the ledger's delivery tickets
          Budget        \* bound on edits, failures, inventory changes and crashes

Slots == 1..Cardinality(Images)

Contents == [image : Images, version : Nat]
Inventories == [images : SUBSET Images, version : 1..2]
Ledgers == [epoch : Nat, cursor : Nat, ticket : Nat, next : Nat, images : Seq(Images),
            nextTicket : Nat, owned : SUBSET Images]
Flights == [epoch : Nat, ticket : Nat, images : Seq(Images), acked : SUBSET Nat, attempt : Nat,
            retry : {"no", "wait", "due"}, ready : BOOLEAN, pub : Nat]
Frames == [epoch : Nat, ticket : Nat, attempt : Nat, images : Seq(Images), version : Nat, reset : BOOLEAN]
Batches == [frame : Frames, todo : SUBSET Nat]
Windows == [images : Seq(Images), version : Nat]

ASSUME DeliveryAssumption ==
    /\ IsFiniteSet(Images)
    /\ \A S \in SUBSET Images :
          /\ Ordered[S] \in Seq(S) /\ Len(Ordered[S]) = Cardinality(S)
          /\ \A x \in S : \E i \in DOMAIN Ordered[S] : Ordered[S][i] = x
    /\ None \notin Contents \cup Inventories \cup Flights \cup Frames \cup Batches \cup Windows
    /\ Sizes \subseteq Nat \ {0} /\ Sizes # {}
    /\ SavesMayFail \in BOOLEAN
    /\ MaxTicket \in Nat /\ Budget \in Nat

VARIABLES
    ini,            \* queue size in the INI file
    ledger,         \* the durable ledger, as far as it concerns the tile
    win,            \* Windows' notification queue of the tile, slot by slot
    cfg,            \* queueSize of cfg_, 0 before the first refresh
    paths,          \* the adopted inventory, None before the first scan
    ledgerReady,    \* ledger_ was read and is the one this process wrote last
    flight, frames, \* flights_ and frames_, protected by published_
    attempts,       \* attemptSequence_
    lastCount,      \* lastQueueCount_, 0 when unknown
    elapsed,        \* refreshSeconds passed since lastAccepted_
    confirmed,      \* confirmedWindows_
    planned,        \* planCached_ and nothing it was planned for has changed
    asked,          \* refreshRequested_, reloadRequested_
    suspended,      \* suspended_
    backoff,        \* now < retryAfter_
    op, force,      \* Refresh: where it is, and its local
    queued, running, worker, sent,  \* generation queue, worker, g_secondaryDelivered
    resend,         \* a batch QueueGenerate captured and has not queued yet
    settings,                       \* the settings thread
    unreported,     \* history: Windows' queue was emptied for the flight's attempt, and the
                    \* report of the slot that did it was dropped
    budget

disk     == <<ini, ledger, win>>
polled   == <<cfg, paths, ledgerReady, lastCount, elapsed, confirmed, backoff>>
shared   == <<flight, frames, attempts, planned, unreported>>
opVars   == <<op, force>>
delivery == <<queued, running, worker, sent, resend>>
vars == <<disk, polled, shared, asked, suspended, opVars, delivery, settings, budget>>
------------------------------------------------------------------------------
NoWindow(l) == [l EXCEPT !.ticket = 0, !.next = 0, !.images = << >>]
EmptyLedger(e, t) == [epoch |-> e, cursor |-> 0, ticket |-> 0, next |-> 0,
                      images |-> << >>, nextTicket |-> t, owned |-> {}]
EmptyQueue == [s \in Slots |-> None]
NeverSent == [s \in Slots |-> 0]

\* The tile's pool: its images that the inventory still finds, in order.
Pool == Ordered[paths.images \cap ledger.owned]

SlotsOf(images) == 1..Len(images)
Content(f, s) == [image |-> f.images[s], version |-> f.version]

\* The flight starts over: an attempt of its own that no slot has reached.
NewAttempt(f) == [f EXCEPT !.attempt = attempts + 1, !.acked = {}, !.ready = FALSE]

\* InvalidateFlights.
Invalidate == /\ flight' = None /\ frames' = None /\ confirmed' = None
              /\ planned' = FALSE /\ unreported' = FALSE

Spend == budget > 0 /\ budget' = budget - 1
------------------------------------------------------------------------------
\* A process that just started; disk, Windows' queue and the budget go on.
Fresh ==
    /\ cfg = 0 /\ paths = None /\ ledgerReady = FALSE
    /\ flight = None /\ frames = None /\ attempts = 0
    /\ lastCount = 0 /\ elapsed = FALSE /\ confirmed = None /\ planned = FALSE
    /\ asked = [refresh |-> TRUE, reload |-> FALSE]
    /\ suspended = FALSE /\ backoff = FALSE
    /\ op = "idle" /\ force = FALSE
    /\ queued = None /\ running = None /\ worker = "idle" /\ sent = NeverSent
    /\ resend = None
    /\ settings = "idle" /\ unreported = FALSE

Init ==
    /\ ini \in Sizes
    /\ ledger = EmptyLedger(0, 1)
    /\ win = EmptyQueue
    /\ budget = Budget
    /\ Fresh
------------------------------------------------------------------------------
(* The poll thread: Refresh, under operation_. *)

\* Refresh up to the collection of complete flights.  It adopts the INI and,
\* when a scan completed, a new inventory; a changed configuration revokes
\* every slot success, dates the publication back (pub 0: of another
\* configuration) and starts a new attempt.
Adopt(inventory) ==
    LET changed == cfg # 0 /\ cfg # ini IN
    /\ cfg' = ini
    /\ paths' = inventory
    /\ force' = (asked.refresh \/ changed)
    /\ asked' = [refresh |-> FALSE, reload |-> FALSE]
    /\ attempts' = IF changed /\ flight # None THEN attempts + 1 ELSE attempts
    /\ IF asked.reload THEN flight' = None /\ frames' = None
       ELSE IF changed
       THEN /\ frames' = None
            /\ flight' = IF flight = None THEN None
                         ELSE [NewAttempt(flight) EXCEPT !.pub = 0]
       ELSE UNCHANGED <<flight, frames>>
    /\ unreported' = (unreported /\ ~asked.reload /\ ~changed)
    /\ confirmed' = IF asked.refresh \/ asked.reload \/ changed THEN None ELSE confirmed
    /\ planned' = (planned /\ ~asked.reload /\ ~changed /\ inventory = paths)

\* Refresh returns before it looks at the ledger: a failed save is backing off.
RefreshWaits(inventory) ==
    /\ op = "idle" /\ ~suspended
    /\ backoff /\ ~asked.reload
    /\ Adopt(inventory)
    /\ UNCHANGED <<disk, ledgerReady, lastCount, elapsed, backoff, suspended, op, delivery, settings>>

\* The ledger cannot be read.  No flight survived to here: whatever forgot the
\* ledger has invalidated them.
RefreshUnread(inventory) ==
    /\ op = "idle" /\ ~suspended /\ SavesMayFail
    /\ ~backoff \/ asked.reload
    /\ ~ledgerReady \/ asked.reload
    /\ Adopt(inventory)
    /\ ledgerReady' = FALSE /\ backoff' = TRUE
    /\ UNCHANGED <<disk, lastCount, elapsed, suspended, op, delivery, settings>>

\* The configuration cannot be captured (INI locked or unreadable): Refresh is
\* called without one, which is a change of context, and so is the next call.
RefreshWithoutConfiguration ==
    /\ op = "idle" /\ ~suspended
    /\ cfg' = 0 /\ paths' = None /\ ledgerReady' = FALSE /\ backoff' = FALSE
    /\ lastCount' = 0 /\ elapsed' = FALSE
    /\ asked' = [refresh |-> TRUE, reload |-> FALSE]
    /\ Invalidate
    /\ Spend
    /\ UNCHANGED <<disk, attempts, suspended, opVars, delivery, settings>>

RefreshBegins(inventory) ==
    /\ op = "idle" /\ ~suspended
    /\ ~backoff \/ asked.reload
    /\ Adopt(inventory)
    /\ ledgerReady' = TRUE /\ backoff' = FALSE
    /\ IF flight' # None /\ flight'.ready
       THEN op' = "commit"
       ELSE op' = "rebuild"
    /\ UNCHANGED <<disk, lastCount, elapsed, suspended, delivery, settings>>

\* Save did not succeed: back off, withdraw the frames; a conflict also
\* forgets the ledger and every flight.  Whether the last plan still stands
\* depends on what was to be saved.
SaveFails(planStands) ==
    /\ SavesMayFail
    /\ backoff' = TRUE /\ op' = "idle"
    /\ \/ frames' = None /\ planned' = planStands /\ UNCHANGED <<flight, confirmed, ledgerReady, unreported>>
       \/ ledgerReady' = FALSE /\ Invalidate
    /\ UNCHANGED <<disk, cfg, paths, attempts, lastCount, elapsed, asked, suspended,
                   force, delivery, settings>>

\* CommitAcknowledgements: the window is complete, its cursor advances.
Commit ==
    /\ op = "commit"
    /\ ledger' = [NoWindow(ledger) EXCEPT !.cursor = ledger.next]
    /\ confirmed' = [images |-> flight.images, version |-> flight.pub]
    /\ lastCount' = Len(flight.images)
    /\ elapsed' = FALSE
    /\ flight' = None /\ frames' = None /\ planned' = FALSE
    /\ op' = "rebuild"
    /\ UNCHANGED <<ini, win, cfg, paths, ledgerReady, backoff, attempts, unreported, asked, suspended,
                   force, delivery, settings, budget>>

CommitFails == op = "commit" /\ SaveFails(planned) /\ Spend

\* Reservations could not be saved, or another tile's acknowledgement; both
\* came after the last plan.
RebuildFails == op = "rebuild" /\ SaveFails(FALSE) /\ Spend

\* No complete inventory yet: the frames are withdrawn.
NotScanned ==
    /\ op = "rebuild" /\ paths = None
    /\ op' = "idle" /\ frames' = None
    /\ UNCHANGED <<disk, polled, flight, attempts, planned, unreported, asked, suspended, force, delivery, settings, budget>>

\* RebuildPools: images nobody owns are reserved for good before they are used.
Rebuild ==
    /\ op = "rebuild" /\ paths # None
    /\ ledger' = [ledger EXCEPT !.owned = @ \cup paths.images]
    /\ planned' = (planned /\ ledger' = ledger)
    /\ op' = "plan"
    /\ UNCHANGED <<ini, win, polled, flight, frames, attempts, unreported, asked, suspended, force, delivery, settings, budget>>
------------------------------------------------------------------------------
(* Prepare. *)

\* CompletePoolAlreadyPublished: the queue already shows the whole pool, in
\* the order the next window would have.
AlreadyPublished ==
    /\ confirmed # None
    /\ Pool # << >> /\ Len(Pool) <= cfg
    /\ ledger.ticket = 0
    /\ confirmed.version = paths.version
    /\ confirmed.images = WindowImages(Pool, ledger.cursor, Len(Pool))

Due == /\ force \/ ledger.ticket # 0 \/ lastCount = 0 \/ elapsed
       /\ ~(~force /\ lastCount # 0 /\ AlreadyPublished)

RetryDue == flight # None /\ flight.retry = "due"

\* Nothing is due, or nothing changed since the same plan was made.
NothingToPlan ==
    /\ op = "plan"
    /\ ~Due \/ (~force /\ ~RetryDue /\ planned)
    /\ planned' = (planned /\ Due)
    /\ op' = "idle"
    /\ UNCHANGED <<disk, polled, flight, frames, attempts, unreported, asked, suspended, force, delivery, settings, budget>>

Plan ==
    /\ op = "plan"
    /\ Due /\ (force \/ RetryDue \/ ~planned)
    /\ op' = "prepare"
    /\ UNCHANGED <<disk, polled, shared, asked, suspended, force, delivery, settings, budget>>

\* PrepareQueueBatch keeps a pending window as long as its images are there
\* and the queue still has room for it.
Retained == /\ \A s \in SlotsOf(ledger.images) : ledger.images[s] \in paths.images
            /\ Len(ledger.images) <= cfg

RetryWindow ==
    /\ op = "prepare"
    /\ IF ledger.ticket = 0 THEN Pool = << >> ELSE Retained
    /\ op' = "publish"
    /\ UNCHANGED <<disk, polled, shared, asked, suspended, force, delivery, settings, budget>>

\* A new window is durable before anything of it can be seen.
NewWindow ==
    /\ op = "prepare" /\ ledger.ticket = 0 /\ Pool # << >>
    /\ ledger.nextTicket <= MaxTicket
    /\ ledger' = [ledger EXCEPT
           !.ticket = ledger.nextTicket,
           !.nextTicket = ledger.nextTicket + 1,
           !.images = WindowImages(Pool, ledger.cursor, cfg),
           !.next = NextCursor(Pool, ledger.cursor, cfg)]
    /\ planned' = FALSE
    /\ op' = "publish"
    /\ UNCHANGED <<ini, win, polled, flight, frames, attempts, unreported, asked, suspended, force, delivery, settings, budget>>

\* A window that lost an image or its room is given up without moving the
\* cursor: saved first, then its flight and frames go and a second pass
\* prepares another.
Release ==
    /\ op = "prepare" /\ ledger.ticket # 0 /\ ~Retained
    /\ ledger' = NoWindow(ledger)
    /\ planned' = FALSE
    /\ op' = "released"
    /\ UNCHANGED <<ini, win, polled, flight, frames, attempts, unreported, asked, suspended, force, delivery, settings, budget>>

Withdraw ==
    /\ op = "released"
    /\ Invalidate
    /\ op' = "prepare"
    /\ UNCHANGED <<disk, cfg, paths, ledgerReady, lastCount, elapsed, backoff, attempts, asked,
                   suspended, force, delivery, settings, budget>>

\* A new window or a release could not be saved, this tile's or another's; a
\* forced pass leaves the plan made before it standing.
PrepareFails == op = "prepare" /\ SaveFails(planned /\ force) /\ Spend

\* The frames of the durable window become visible to generation.
SameWindow == flight # None /\ flight.ticket = ledger.ticket /\ flight.epoch = ledger.epoch

BugContentChanged == FALSE
ContentChanged == SameWindow /\ flight.pub # paths.version

Resets == lastCount # Len(ledger.images)

Publish ==
    /\ op = "publish"
    /\ op' = "idle"
    /\ planned' = TRUE
    /\ IF ledger.ticket = 0 THEN frames' = None /\ UNCHANGED <<flight, attempts, unreported>>
       ELSE LET new == ~SameWindow \/ ContentChanged
                base == IF ~SameWindow
                        THEN [epoch |-> ledger.epoch, ticket |-> ledger.ticket, images |-> ledger.images,
                              acked |-> {}, attempt |-> attempts + 1, retry |-> "no", ready |-> FALSE,
                              pub |-> paths.version]
                        ELSE IF ContentChanged
                        THEN [NewAttempt(flight) EXCEPT !.pub = paths.version]
                        ELSE [flight EXCEPT !.pub = paths.version]
                shown == ~base.ready /\ base.retry # "wait"
            IN /\ attempts' = IF new THEN attempts + 1 ELSE attempts
               /\ unreported' = (unreported /\ ~new)
               /\ flight' = IF shown THEN [base EXCEPT !.retry = "no"] ELSE base
               /\ frames' = IF shown
                            THEN [epoch |-> ledger.epoch, ticket |-> ledger.ticket, attempt |-> base.attempt,
                                  images |-> ledger.images, version |-> paths.version, reset |-> Resets]
                            ELSE None
    /\ UNCHANGED <<disk, polled, asked, suspended, force, delivery, settings, budget>>
------------------------------------------------------------------------------
(* Receipts: Validate, Acknowledge and Fail, called by the worker. *)

BugMatches(f) == ~suspended /\ frames # None /\ frames.ticket = f.ticket /\ frames.epoch = f.epoch
Matches(f) == ~suspended /\ frames # None
              /\ frames.attempt = f.attempt /\ frames.ticket = f.ticket /\ frames.epoch = f.epoch

\* ValidateGalleryFrame: the window still fits the queue size of the INI, and
\* the frame is one of the published ones.
BugValid(f) == Len(f.images) <= ini
Valid(f) == /\ Len(f.images) <= ini
            /\ ~suspended /\ frames = f

Acked(f, s) == IF s = 1 /\ frames.reset THEN {1} ELSE flight.acked \cup {s}

\* A report that no longer matches what is published changes nothing.
Dropped(f, s) ==
    /\ unreported' = (unreported \/ (f.reset /\ s = 1 /\ flight # None /\ flight.attempt = f.attempt))
    /\ UNCHANGED <<flight, frames, attempts, planned>>

Acknowledge(f, s) ==
    IF ~Matches(f) \/ flight = None THEN Dropped(f, s)
    ELSE LET done == Acked(f, s) = SlotsOf(flight.images) IN
         /\ flight' = [flight EXCEPT !.acked = Acked(f, s), !.ready = @ \/ done]
         /\ frames' = IF done THEN None ELSE frames
         /\ planned' = (planned /\ ~done)
         /\ unreported' = (unreported /\ ~(frames.reset /\ s = 1))
         /\ UNCHANGED attempts

BugFailedFlight(f) == [f EXCEPT !.retry = "wait", !.acked = {}, !.ready = FALSE]
FailedFlight(f) == [NewAttempt(f) EXCEPT !.retry = "wait"]

BugFail(f) ==
    IF ~Matches(f) THEN UNCHANGED shared
    ELSE /\ flight' = FailedFlight(flight) /\ attempts' = attempts + 1
         /\ planned' = FALSE /\ unreported' = FALSE /\ UNCHANGED frames
Fail(f) ==
    IF ~Matches(f) THEN UNCHANGED shared
    ELSE /\ flight' = FailedFlight(flight)
         /\ attempts' = attempts + 1
         /\ frames' = None /\ planned' = FALSE /\ unreported' = FALSE
------------------------------------------------------------------------------
(* Generation: one pending batch, one worker, one Windows call at a time. *)

Batch(todo) == [frame |-> frames, todo |-> todo]

\* The poll thread queues the slots it has not yet delivered under the same
\* frame key, when no generation is pending.
Enqueue ==
    /\ op = "idle" /\ ~suspended /\ frames # None
    /\ queued = None /\ running = None
    /\ LET todo == {s \in SlotsOf(frames.images) : sent[s] # frames.attempt} IN
       /\ todo # {}
       /\ IF Valid(frames) THEN queued' = Batch(todo) /\ UNCHANGED shared
          ELSE Fail(frames) /\ UNCHANGED queued
    /\ UNCHANGED <<disk, polled, asked, suspended, opVars, running, worker, sent, resend, settings, budget>>

\* QueueGenerate for everything resends every slot.  It captures the frames,
ResendBegins ==
    /\ frames # None /\ Valid(frames) /\ resend = None
    /\ resend' = Batch(SlotsOf(frames.images))
    /\ Spend
    /\ UNCHANGED <<disk, polled, shared, asked, suspended, opVars, queued, running, worker, sent, settings>>

\* then replaces the pending batch; a window this drops has failed.
ResendQueued ==
    /\ resend # None
    /\ queued' = resend /\ resend' = None
    /\ IF queued # None /\ <<queued.frame.epoch, queued.frame.ticket>> # <<resend.frame.epoch, resend.frame.ticket>>
       THEN Fail(queued.frame) ELSE UNCHANGED shared
    /\ UNCHANGED <<disk, polled, asked, suspended, opVars, running, worker, sent, settings, budget>>

Take ==
    /\ worker = "idle" /\ queued # None
    /\ running' = queued /\ queued' = None
    /\ worker' = "slot"
    /\ UNCHANGED <<disk, polled, shared, asked, suspended, opVars, sent, resend, settings, budget>>

\* Slots are delivered in order.
First(s) == s \in running.todo /\ \A t \in running.todo : s <= t

\* The check made just before the update, with generation held from here to
\* the acknowledgement.
Check ==
    /\ worker = "slot" /\ settings = "idle"
    /\ Valid(running.frame)
    /\ worker' = "update"
    /\ UNCHANGED <<disk, polled, shared, asked, suspended, opVars, queued, running, sent, resend, settings, budget>>

\* A failed slot takes the rest of its destination with it.
Drop == running' = None /\ worker' = "idle"

Stale ==
    /\ worker = "slot" /\ ~Valid(running.frame)
    /\ Fail(running.frame) /\ Drop
    /\ UNCHANGED <<disk, polled, asked, suspended, opVars, queued, sent, resend, settings, budget>>

\* The update fails, when a reset may already have cleared the queue, or the
\* work between a successful update and its receipt does.
UpdateFails(s) ==
    /\ worker \in {"update", "ack"} /\ First(s)
    /\ Spend
    /\ \/ UNCHANGED win
       \/ worker = "update" /\ running.frame.reset /\ s = 1 /\ win' = EmptyQueue
    /\ IF Matches(running.frame) THEN Fail(running.frame) ELSE Dropped(running.frame, s)
    /\ Drop
    /\ UNCHANGED <<ini, ledger, polled, asked, suspended, opVars, queued, sent, resend, settings>>

Update(s) ==
    /\ worker = "update" /\ First(s)
    /\ LET f == running.frame
           base == IF f.reset /\ s = 1 THEN EmptyQueue ELSE win
       IN win' = [base EXCEPT ![s] = Content(f, s)]
    /\ worker' = "ack"
    /\ UNCHANGED <<ini, ledger, polled, shared, asked, suspended, opVars, queued, running, sent, resend, settings, budget>>

\* The gallery receipt first, then the delivered frame key.
Ack(s) ==
    /\ worker = "ack" /\ First(s)
    /\ LET f == running.frame
           base == IF f.reset /\ s = 1 THEN NeverSent ELSE sent
       IN /\ Acknowledge(f, s)
          /\ sent' = [base EXCEPT ![s] = f.attempt]
    /\ IF running.todo = {s} THEN Drop
       ELSE running' = [running EXCEPT !.todo = @ \ {s}] /\ worker' = "slot"
    /\ UNCHANGED <<disk, polled, asked, suspended, opVars, queued, resend, settings, budget>>
------------------------------------------------------------------------------
(* Settings, the clock, and the end of the process. *)

\* An edit of the queue size: from the menu, which asks for a reload, or by
\* another program.
Edit(size) ==
    /\ size # ini /\ settings = "idle"
    /\ ini' = size
    /\ Spend
    /\ \/ asked' = [refresh |-> TRUE, reload |-> TRUE]
       \/ UNCHANGED asked
    /\ UNCHANGED <<ledger, win, polled, shared, suspended, opVars, delivery, settings>>

\* RequestRefresh.
AskRefresh ==
    /\ ~asked.refresh
    /\ \E reload \in {asked.reload, TRUE} : asked' = [refresh |-> TRUE, reload |-> reload]
    /\ Spend
    /\ UNCHANGED <<disk, polled, shared, suspended, opVars, delivery, settings>>

\* Redistribution and recovery hold generation, then Suspend: the flag first,
\* then operation_.
SuspendBegins ==
    /\ settings = "idle" /\ worker \in {"idle", "slot"}
    /\ Spend
    /\ suspended' = TRUE
    /\ settings' = "suspending"
    /\ UNCHANGED <<disk, polled, shared, asked, opVars, delivery>>

SuspendEnds ==
    /\ settings = "suspending" /\ op = "idle"
    /\ Invalidate
    /\ settings' = "suspended"
    /\ UNCHANGED <<disk, cfg, paths, ledgerReady, lastCount, elapsed, backoff, attempts, asked,
                   suspended, opVars, delivery, budget>>

\* ClearGalleryQueuesForRebalance, then a new ownership epoch or the restored
\* old ledger, perhaps with a new configuration.
Redistribute ==
    /\ settings = "suspended"
    /\ win' = EmptyQueue /\ sent' = NeverSent
    /\ \/ UNCHANGED ledger
       \/ ledger' = EmptyLedger(ledger.epoch + 1, 1)
    /\ ini' \in Sizes
    /\ settings' = "resuming"
    /\ UNCHANGED <<polled, shared, asked, suspended, opVars, queued, running, worker, resend, budget>>

Resume ==
    /\ settings \in {"suspended", "resuming"}
    /\ asked' = [refresh |-> TRUE, reload |-> TRUE]
    /\ suspended' = FALSE
    /\ settings' = "idle"
    /\ UNCHANGED <<disk, polled, shared, opVars, delivery, budget>>

RefreshDue ==
    /\ lastCount # 0 /\ ~elapsed
    /\ elapsed' = TRUE
    /\ UNCHANGED <<disk, cfg, paths, ledgerReady, lastCount, confirmed, backoff, shared, asked,
                   suspended, opVars, delivery, settings, budget>>

\* Another tile becomes due, so the next pass has other tiles to plan for.
OtherTileDue ==
    /\ planned /\ planned' = FALSE
    /\ UNCHANGED <<disk, polled, flight, frames, attempts, unreported, asked, suspended, opVars, delivery, settings, budget>>

BackoffEnds ==
    /\ backoff /\ backoff' = FALSE
    /\ UNCHANGED <<disk, cfg, paths, ledgerReady, lastCount, elapsed, confirmed, shared, asked,
                   suspended, opVars, delivery, settings, budget>>

FlightRetryEnds ==
    /\ flight # None /\ flight.retry = "wait"
    /\ flight' = [flight EXCEPT !.retry = "due"]
    /\ UNCHANGED <<disk, polled, frames, attempts, planned, unreported, asked, suspended, opVars, delivery, settings, budget>>

Crash ==
    /\ Spend
    /\ cfg' = 0 /\ paths' = None /\ ledgerReady' = FALSE
    /\ flight' = None /\ frames' = None /\ attempts' = 0
    /\ lastCount' = 0 /\ elapsed' = FALSE /\ confirmed' = None /\ planned' = FALSE
    /\ asked' = [refresh |-> TRUE, reload |-> FALSE]
    /\ suspended' = FALSE /\ backoff' = FALSE
    /\ op' = "idle" /\ force' = FALSE
    /\ queued' = None /\ running' = None /\ worker' = "idle" /\ sent' = NeverSent
    /\ resend' = None
    /\ settings' = "idle" /\ unreported' = FALSE
    /\ UNCHANGED disk
------------------------------------------------------------------------------
Poll ==
    \/ \E inventory \in Inventories \cup {paths} :
          /\ IF inventory = paths \/ paths = None THEN UNCHANGED budget ELSE Spend
          /\ RefreshWaits(inventory) \/ RefreshBegins(inventory)
    \/ \E inventory \in Inventories \cup {paths} : RefreshUnread(inventory) /\ Spend
    \/ RefreshWithoutConfiguration
    \/ Commit \/ CommitFails \/ NotScanned \/ Rebuild \/ RebuildFails
    \/ NothingToPlan \/ Plan \/ RetryWindow \/ NewWindow \/ Release \/ Withdraw \/ PrepareFails \/ Publish
    \/ Enqueue

Generation ==
    \/ Take \/ Check \/ Stale \/ ResendQueued
    \/ \E s \in Slots : UpdateFails(s) \/ Update(s) \/ Ack(s)

Settings == SuspendBegins \/ SuspendEnds \/ Redistribute \/ Resume

Clock == RefreshDue \/ OtherTileDue \/ BackoffEnds \/ FlightRetryEnds

Environment == (\E size \in Sizes : Edit(size)) \/ AskRefresh \/ ResendBegins \/ Crash

Next == Poll \/ Generation \/ Settings \/ Clock \/ Environment

Spec == Init /\ [][Next]_vars

\* The poll thread and the worker run, and time passes.  A poll refreshes and
\* then queues, so it comes to Enqueue again and again; a scan that runs
\* completes; a settings thread goes on once it has operation_.
PollStep == \/ RefreshWaits(paths) \/ RefreshBegins(paths)
            \/ Commit \/ NotScanned \/ Rebuild \/ NothingToPlan \/ Plan
            \/ RetryWindow \/ NewWindow \/ Release \/ Withdraw \/ Publish
WorkerStep == Take \/ Check \/ Stale \/ \E s \in Slots : Update(s) \/ Ack(s)
Scan == paths = None /\ \E inventory \in Inventories : RefreshBegins(inventory)

Fairness ==
    /\ WF_vars(PollStep /\ UNCHANGED budget) /\ SF_vars(Enqueue) /\ SF_vars(Scan /\ UNCHANGED budget)
    /\ WF_vars(WorkerStep) /\ WF_vars(ResendQueued)
    /\ WF_vars(SuspendEnds) /\ WF_vars(Resume)
    /\ WF_vars(OtherTileDue) /\ WF_vars(BackoffEnds) /\ WF_vars(FlightRetryEnds)

FairSpec == Spec /\ Fairness
------------------------------------------------------------------------------
DiskTyped ==
    /\ ini \in Sizes
    /\ ledger \in Ledgers
    /\ ledger.images \in Seq(ledger.owned)
    /\ ledger.ticket < ledger.nextTicket
    /\ ledger.ticket = 0 <=> ledger.images = << >>
    /\ win \in [Slots -> Contents \cup {None}]

PolledTyped ==
    /\ cfg \in Sizes \cup {0}
    /\ paths \in Inventories \cup {None}
    /\ lastCount \in Nat
    /\ confirmed \in Windows \cup {None}

SharedTyped ==
    /\ flight \in Flights \cup {None} /\ frames \in Frames \cup {None}
    /\ attempts \in Nat

DeliveryTyped ==
    /\ queued \in Batches \cup {None} /\ running \in Batches \cup {None} /\ resend \in Batches \cup {None}
    /\ worker \in {"idle", "slot", "update", "ack"}
    /\ running = None <=> worker = "idle"
    /\ sent \in [Slots -> Nat]

FlagsTyped ==
    /\ ledgerReady \in BOOLEAN /\ elapsed \in BOOLEAN /\ planned \in BOOLEAN
    /\ suspended \in BOOLEAN /\ backoff \in BOOLEAN /\ force \in BOOLEAN /\ unreported \in BOOLEAN
    /\ asked \in [refresh : BOOLEAN, reload : BOOLEAN]

ControlTyped ==
    /\ op \in {"idle", "commit", "rebuild", "plan", "prepare", "released", "publish"}
    /\ settings \in {"idle", "suspending", "suspended", "resuming"}
    /\ budget \in Nat

\* The ledger, the coordinator, the delivery and Windows' queue are well
\* typed: the durable window names only images the tile owns and exists
\* exactly when it has a ticket, one that will not be dealt again.
TypeOK == DiskTyped /\ PolledTyped /\ SharedTyped /\ DeliveryTyped /\ FlagsTyped /\ ControlTyped

Holds(images, version) ==
    \A s \in SlotsOf(images) : win[s] = [image |-> images[s], version |-> version]

\* Windows never shows an image that is not the tile's own in the ledger's
\* present epoch: not while a redistribution clears and re-deals, and not by a
\* batch queued before it.
OnlyOwnedShown == \A s \in Slots : win[s] # None => win[s].image \in ledger.owned

\* The cursor moves only past a window that Windows holds completely, unless
\* the report of a slot that emptied the queue was dropped on the way.
CursorFollowsDelivery ==
    [][~unreported /\ ledger'.epoch = ledger.epoch /\ ledger'.cursor # ledger.cursor =>
         Holds(ledger.images, flight.pub)]_vars

\* The proof that lets a due tile be skipped is never out of date: whenever it
\* may be used, with no window pending, Windows holds every image of the
\* confirmed window in its slot, and not an image of a window tried since.
\* The exception is that of CursorFollowsDelivery.
ConfirmedIsShown ==
    ~unreported /\ confirmed # None /\ ledger.ticket = 0 /\ op # "released" => Holds(confirmed.images, confirmed.version)

\* What is published is what a restart would retry: the frames are those of
\* the pending window of the durable ledger and of its flight's current
\* attempt, so that Fail's flights_.at(...) cannot throw and no receipt of an
\* older attempt counts.  A release is saved before its frames are withdrawn.
FramesAreDurable ==
    frames # None /\ op # "released" =>
        /\ ledger.ticket # 0
        /\ frames.ticket = ledger.ticket /\ frames.epoch = ledger.epoch /\ frames.images = ledger.images
        /\ flight # None /\ ~flight.ready
        /\ frames.attempt = flight.attempt

\* "Equal-size later windows replace the stable tags" and a changed count
\* resets: a confirmed window is all the tile rotates.
ConfirmedIsAllThatShows ==
    confirmed # None /\ ledger.ticket = 0 /\ op # "released" => \A s \in Slots : s > Len(confirmed.images) => win[s] = None

\* A save failed while a slot was between its last check and its receipt: the
\* frames are withdrawn, so the receipt will be dropped, but the slot is then
\* recorded as sent all the same.
SaveFailedInFlight == backoff /\ worker \in {"update", "ack"}

\* A pending window does not stay pending: it is delivered and committed, or
\* released, whatever slots and saves fail and however the steps interleave.
\* A save that fails while a slot is in flight is the only way out of this promise.
PendingIsDelivered == \/ <>SaveFailedInFlight
                      \/ ledger.ticket # 0 ~> ledger.ticket = 0

\* docs/gallery-identical-queue-2026-10-23.md:26: "A partial/failing attempt or
\* failed acknowledgement save still follows the existing durable retry path."
\* No exception is made: every pending window ends.
EveryWindowEnds == ledger.ticket # 0 ~> ledger.ticket = 0
==============================================================================
