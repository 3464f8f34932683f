------------------------------ MODULE CapsBlink ------------------------------
(***************************************************************************)
(* The Caps Lock indicator: aip::caps::Controller                          *)
(* (hardware/caps_blink_engine.h), whose worker thread blinks the LED of   *)
(* one keyboard and puts it back before it lets go, and the host's         *)
(* ContentCapsProvider (DesktopStub/ga_content_hardware.inc), through      *)
(* which the content poll thread asks for what the settings say.           *)
(*                                                                         *)
(* Threads: the poll thread (at), the worker (pc), the window thread,      *)
(* which edits the settings and asks for a restart, and the environment:   *)
(* the Caps Lock key and the driver, whose timed-out calls finish later.   *)
(* The controller's mutex is held for a part of one action and never       *)
(* across two; lifecycle_ has a single user.  The interval, whose change   *)
(* only cuts a wait short, and the texts of errors are left out.           *)
(***************************************************************************)
EXTENDS Naturals

CONSTANTS Target,      \* the keyboards a setting may name
          Retries,     \* restorations that may time out before it gives up (4)
          Pressed,     \* whether anybody presses Caps Lock
          MaxEdits,    \* bound: edits of the settings and restart requests
          MaxFaults    \* bound: calls of the driver that fail or time out

CONSTANTS Off,         \* the setting: actions disabled, indicator not shown
          Preview,     \* actions disabled, indicator shown in a tile
          Invalid,     \* a setting Normalize refuses
          NoKey        \* the provider's empty key

ASSUME CapsAssumption ==
    /\ Off \notin Target /\ Preview \notin Target /\ Invalid \notin Target
    /\ NoKey \notin Target
    /\ Off # Preview /\ Off # Invalid /\ Preview # Invalid
    /\ NoKey # Off /\ NoKey # Preview /\ NoKey # Invalid
    /\ Retries \in Nat \ {0} /\ Pressed \in BOOLEAN
    /\ MaxEdits \in Nat /\ MaxFaults \in Nat

Settings == Target \union {Off, Preview, Invalid}
Enabled(cfg) == cfg \in Target

VARIABLES
    want,      \* the settings as the window thread last wrote them
    restart,   \* ContentCapsProvider.restart
    at,        \* where the poll thread is
    cfg,       \* the settings it read for this tick
    look,      \* its copy of the snapshot
    key,       \* ContentCapsProvider.key
    config,    \* Controller.config_
    stop,      \* Controller.stop_
    running,   \* Controller.running_
    snap,      \* Controller.snapshot_
    pc,        \* where the worker is, "none" when there is none
    run,       \* the worker's session
    held,      \* the backend owns a device
    pending,   \* a timed-out call of the driver that has not finished
    led,       \* the indicator of every keyboard
    logical,   \* Caps Lock is on
    toggled,   \* the key was pressed after the restoration read it (history)
    edits, faults   \* the bounds' counters

window == <<want, restart, edits>>
poll == <<at, cfg, look, key>>
shared == <<config, stop, running, snap>>
worker == <<pc, run, held>>
device == <<pending, led>>
world == <<logical, toggled>>
vars == <<window, poll, shared, worker, device, world, faults>>

NoOp == [kind |-> "none"]
Reading == [kind |-> "read"]
Writing(t, v) == [kind |-> "write", target |-> t, value |-> v]
Operations == {NoOp, Reading} \union {Writing(t, v) : t \in Target, v \in BOOLEAN}

Phases == {"Disabled", "Starting", "Blinking", "LogicalOn", "Stopping",
           "Stopped", "Error"}
Snapshots == [phase : Phases, running : BOOLEAN, failed : BOOLEAN]

\* original: "unknown" until the first read; seen, now, fresh: what the last
\* reads returned and whether both succeeded.
Sessions == [target : Target, opened : BOOLEAN,
             original : {"unknown", "on", "off"}, now : BOOLEAN,
             seen : BOOLEAN, fresh : BOOLEAN, tries : 0 .. Retries,
             error : BOOLEAN, cleanupError : BOOLEAN]
Flag(v) == IF v THEN "on" ELSE "off"

NewSession(t) ==
    [target |-> t, opened |-> FALSE, original |-> "unknown", now |-> FALSE,
     seen |-> FALSE, fresh |-> TRUE, tries |-> 0, error |-> FALSE,
     cleanupError |-> FALSE]

\* A local variable that is out of scope.
NoLook == [phase |-> "Disabled", running |-> FALSE, failed |-> FALSE]

Init ==
    /\ want \in Settings /\ restart = FALSE /\ edits = 0
    /\ at = "idle" /\ cfg = Off /\ key = NoKey
    /\ look = NoLook
    /\ config = Off /\ stop = FALSE /\ running = FALSE
    /\ snap = NoLook
    /\ pc = "none" /\ held = FALSE
    /\ \E t \in Target : run = NewSession(t)
    /\ pending = NoOp
    /\ logical \in BOOLEAN /\ led = [t \in Target |-> logical]
    /\ toggled = FALSE /\ faults = 0

-----------------------------------------------------------------------------
(* The window thread, the key and the driver.                               *)

Edit ==
    /\ edits < MaxEdits /\ edits' = edits + 1
    /\ \E s \in Settings \ {want} : want' = s
    /\ UNCHANGED <<restart, poll, shared, worker, device, world, faults>>

\* The tray's command, a resume from sleep and a change of devices.
AskRestart ==
    /\ edits < MaxEdits /\ edits' = edits + 1
    /\ restart' = TRUE
    /\ UNCHANGED <<want, poll, shared, worker, device, world, faults>>

\* Windows redraws every keyboard's indicator when Caps Lock changes.
Toggle ==
    /\ Pressed
    /\ logical' = ~logical
    /\ led' = [t \in Target |-> ~logical]
    /\ toggled' = (toggled \/ pc = "restore")
    /\ UNCHANGED <<window, poll, shared, worker, pending, faults>>

\* A late write is applied or was cancelled in time.
DriverFinishes ==
    /\ pending # NoOp
    /\ pending' = NoOp
    /\ \/ UNCHANGED led
       \/ /\ pending.kind = "write"
          /\ led' = [led EXCEPT ![pending.target] = pending.value]
    /\ UNCHANGED <<window, poll, shared, worker, world, faults>>

-----------------------------------------------------------------------------
(* The poll thread: ContentCapsProvider::Refresh and Cancel.                *)

RequestStop ==
    /\ stop' = TRUE
    /\ snap' = IF running THEN [snap EXCEPT !.phase = "Stopping"] ELSE snap
    /\ UNCHANGED <<config, running>>

\* A tick with actions disabled cancels; with the indicator shown in a tile it
\* goes on to refresh the preview.  An invalid setting cancels and returns.
TickCancels ==
    /\ at = "idle" /\ ~Enabled(want)
    /\ RequestStop
    /\ key' = NoKey /\ cfg' = want
    /\ at' = IF want = Preview THEN "refresh" ELSE "idle"
    /\ UNCHANGED <<window, look, worker, device, world, faults>>

TickRefreshes ==
    /\ at = "idle" /\ Enabled(want)
    /\ cfg' = want /\ at' = "refresh"
    /\ UNCHANGED <<window, look, key, shared, worker, device, world, faults>>

TakeRestart ==
    /\ at = "refresh"
    /\ IF restart THEN RequestStop /\ key' = NoKey
                  ELSE UNCHANGED <<shared, key>>
    /\ restart' = FALSE /\ at' = "look"
    /\ UNCHANGED <<want, edits, cfg, look, worker, device, world, faults>>

Look ==
    /\ at = "look"
    /\ look' = snap /\ at' = "decide"
    /\ UNCHANGED <<window, cfg, key, shared, worker, device, world, faults>>

Busy == look.running /\ (~Enabled(cfg) \/ look.phase = "Stopping")

\* Not now: the worker is still cleaning up.
BugBacksOff ==
    /\ at = "decide" /\ Busy
    /\ RequestStop
    /\ look' = NoLook /\ at' = "idle" /\ key' = cfg
    /\ UNCHANGED <<window, cfg, worker, device, world, faults>>
BacksOff ==
    /\ at = "decide" /\ Busy
    /\ RequestStop
    /\ look' = NoLook /\ at' = "idle" /\ key' = NoKey
    /\ UNCHANGED <<window, cfg, worker, device, world, faults>>

NeedsRetry == Enabled(cfg) /\ ~look.running /\ look.phase = "Error"

\* retryAfter (5 s) has not passed, or nothing is to be retried.
Satisfied ==
    /\ at = "decide" /\ ~Busy /\ key = cfg
    /\ look' = NoLook
    /\ at' = "idle"
    /\ UNCHANGED <<window, cfg, key, shared, worker, device, world, faults>>

\* Controller::Update up to the first Join.
Updates ==
    /\ at = "decide" /\ ~Busy /\ (key # cfg \/ NeedsRetry)
    /\ key' = cfg /\ config' = cfg
    /\ stop' = (stop \/ ~Enabled(cfg))
    /\ look' = NoLook
    /\ at' = IF Enabled(cfg) /\ running /\ ~stop THEN "idle" ELSE "join"
    /\ UNCHANGED <<window, cfg, running, snap, worker, device, world, faults>>

Joined == pc = "none"

JoinedDisabled ==
    /\ at = "join" /\ Joined /\ ~Enabled(cfg)
    /\ snap' = [snap EXCEPT !.running = FALSE,
                            !.phase = IF snap.failed THEN @ ELSE "Disabled"]
    /\ at' = "idle"
    /\ UNCHANGED <<window, cfg, look, key, config, stop, running, worker,
                   device, world, faults>>

\* The new worker begins, or the system refuses the thread.
JoinedStarts ==
    /\ at = "join" /\ Joined /\ Enabled(cfg)
    /\ stop' = FALSE
    /\ \/ /\ running' = TRUE /\ pc' = "head"
          /\ snap' = [phase |-> "Starting", running |-> TRUE, failed |-> FALSE]
          /\ UNCHANGED faults
          /\ run' = NewSession(cfg)
       \/ /\ running' = FALSE /\ UNCHANGED <<pc, run>>
          /\ snap' = [phase |-> "Error", running |-> FALSE, failed |-> TRUE]
          /\ faults < MaxFaults /\ faults' = faults + 1
    /\ at' = "idle"
    /\ UNCHANGED <<window, cfg, look, key, config, held, device, world>>

\* StopContentProviders after the poll thread has ended: Cancel, then Stop.
Quit ==
    /\ at = "idle"
    /\ RequestStop
    /\ at' = "quit" /\ key' = NoKey
    /\ UNCHANGED <<window, cfg, look, worker, device, world, faults>>

QuitJoins ==
    /\ at = "quit" /\ Joined
    /\ at' = "gone"
    /\ UNCHANGED <<window, cfg, look, key, shared, worker, device, world, faults>>

-----------------------------------------------------------------------------
(* The worker: Controller::Run and Cleanup.                                 *)

Canceled == stop \/ config # run.target
Publish(phase) ==
    snap' = [phase |-> phase, running |-> TRUE,
             failed |-> run.error \/ run.cleanupError]
Fault == faults < MaxFaults /\ faults' = faults + 1
outside == <<window, poll, config, stop, running, world>>

\* A call fails: reported unless cancelled, and in any case if it throws.
FailsWith(session) ==
    \E e \in {~Canceled, TRUE} : run' = [session EXCEPT !.error = e]

Begins ==
    /\ pc = "head"
    /\ IF stop \/ ~Enabled(config)
         THEN pc' = "final" /\ UNCHANGED run
         ELSE pc' = "starting" /\ run' = NewSession(config)
    /\ UNCHANGED <<outside, snap, held, device, faults>>

PublishStarting ==
    /\ pc = "starting"
    /\ Publish("Starting") /\ pc' = "open"
    /\ UNCHANGED <<outside, run, held, device, faults>>

\* A failed Open may have acquired a part of the device.
Open ==
    /\ pc = "open"
    /\ held' = TRUE
    /\ \/ /\ run' = [run EXCEPT !.opened = TRUE]
          /\ pc' = "top" /\ UNCHANGED faults
       \/ /\ run' = [run EXCEPT !.error = TRUE]
          /\ Fault /\ pc' = "stopping"
       \/ /\ Canceled /\ UNCHANGED <<run, faults>> /\ pc' = "stopping"
    /\ UNCHANGED <<outside, snap, device>>

\* The wait between two iterations ends at its timeout, at a new revision or
\* at a stop: being at "top" is waiting.
LeaveLoop ==
    /\ pc = "top" /\ Canceled
    /\ pc' = "stopping"
    /\ UNCHANGED <<outside, snap, run, held, device, faults>>

Read ==
    /\ pc = "top" /\ ~Canceled
    /\ \/ /\ run' = [run EXCEPT
                !.now = led[run.target],
                !.original = IF @ = "unknown" THEN Flag(led[run.target]) ELSE @]
          /\ pc' = "logical" /\ UNCHANGED <<pending, faults>>
       \/ /\ FailsWith(run) /\ Fault
          /\ pending' \in {NoOp, Reading} /\ pc' = "stopping"
    /\ UNCHANGED <<outside, snap, held, led>>

ReadLogical ==
    /\ pc = "logical"
    /\ \/ /\ run' = [run EXCEPT !.seen = logical]
          /\ pc' = IF Canceled THEN "stopping" ELSE "write"
          /\ UNCHANGED faults
       \/ FailsWith(run) /\ Fault /\ pc' = "stopping"
    /\ UNCHANGED <<outside, snap, held, device>>

\* Pattern: on while Caps Lock is on, else the opposite of what was read.
Pattern == IF run.seen THEN TRUE ELSE ~run.now

Write ==
    /\ pc = "write"
    /\ \/ /\ led' = [led EXCEPT ![run.target] = IF Pattern # run.now
                                                  THEN Pattern ELSE @]
          /\ pc' = "publish" /\ UNCHANGED <<run, pending, faults>>
       \/ /\ Pattern # run.now
          /\ FailsWith(run) /\ Fault
          /\ pending' \in {NoOp, Writing(run.target, Pattern)}
          /\ pc' = "stopping" /\ UNCHANGED led
       \/ /\ Canceled
          /\ pc' = "stopping" /\ UNCHANGED <<run, device, faults>>
    /\ UNCHANGED <<outside, snap, held>>

PublishIteration ==
    /\ pc = "publish"
    /\ Publish(IF run.seen THEN "LogicalOn" ELSE "Blinking")
    /\ pc' = "top"
    /\ UNCHANGED <<outside, run, held, device, faults>>

PublishStopping ==
    /\ pc = "stopping"
    /\ Publish("Stopping") /\ pc' = "settle"
    /\ UNCHANGED <<outside, run, held, device, faults>>

\* settlePending: the device stays owned until the driver is done with it.
BugSettle ==
    /\ pc = "settle"
    /\ IF run.opened /\ run.original # "unknown" /\ run.tries < Retries
         THEN pc' = "reread" /\ UNCHANGED run
         ELSE pc' = "close" /\ run' = [run EXCEPT !.cleanupError = @ \/ run.tries = Retries]
    /\ UNCHANGED <<outside, snap, held, device, faults>>
Settle ==
    /\ pc = "settle" /\ pending = NoOp
    /\ IF run.opened /\ run.original # "unknown" /\ run.tries < Retries
         THEN pc' = "reread" /\ UNCHANGED run
         ELSE pc' = "close" /\ run' = [run EXCEPT !.cleanupError = @ \/ run.tries = Retries]
    /\ UNCHANGED <<outside, snap, held, device, faults>>

\* The call timed out: settle, then try again while tries are left.
TimesOut(op) ==
    /\ Fault
    /\ pending' = op /\ pc' = "settle"
    /\ \E thrown \in BOOLEAN :
         run' = [run EXCEPT !.tries = @ + 1, !.cleanupError = @ \/ thrown]

\* The indicator and Caps Lock; what cannot be read is taken from the original.
Reread ==
    /\ pc = "reread" /\ toggled' = FALSE
    /\ \/ /\ run' = [run EXCEPT !.now = led[run.target], !.seen = logical,
                                !.fresh = TRUE]
          /\ pc' = "restore" /\ UNCHANGED <<pending, faults>>
       \/ /\ Fault
          /\ run' = [run EXCEPT !.now = (run.original = "on"), !.seen = logical,
                                !.fresh = FALSE]
          /\ pc' = "restore" /\ UNCHANGED pending
       \/ /\ Fault
          /\ run' = [run EXCEPT !.now = (run.original = "on"),
                                !.seen = (run.original = "on"), !.fresh = FALSE]
          /\ pc' = "restore" /\ UNCHANGED pending
       \/ TimesOut(Reading)
    /\ UNCHANGED <<window, poll, shared, held, led, logical>>

BugDesired == run.original = "on"
\* Restore: the Caps bit becomes the logical state.
Desired == run.seen

RestoreIndicators ==
    /\ pc = "restore"
    /\ \/ /\ led' = [led EXCEPT ![run.target] =
                       IF ~run.fresh \/ Desired # run.now THEN Desired ELSE @]
          /\ run' = [run EXCEPT !.cleanupError = @ \/ ~run.fresh]
          /\ pc' = "close" /\ UNCHANGED <<pending, faults>>
       \/ /\ Fault /\ run' = [run EXCEPT !.cleanupError = TRUE]
          /\ pc' = "close" /\ UNCHANGED device
       \/ /\ ~run.fresh \/ Desired # run.now
          /\ TimesOut(Writing(run.target, Desired)) /\ UNCHANGED led
    /\ UNCHANGED <<outside, snap, held>>

BugClose ==
    /\ pc = "close"
    /\ \/ /\ held' = FALSE /\ UNCHANGED <<run, faults>>
          /\ pc' = IF run.error THEN "final" ELSE "head"
       \/ /\ Fault /\ held' \in BOOLEAN
          /\ run' = [run EXCEPT !.cleanupError = TRUE] /\ pc' = "final"
    /\ UNCHANGED <<outside, snap, device>>
Close ==
    /\ pc = "close"
    /\ \/ /\ held' = FALSE /\ UNCHANGED <<run, faults>>
          /\ pc' = IF run.error \/ run.cleanupError THEN "final" ELSE "head"
       \/ /\ Fault /\ held' \in BOOLEAN
          /\ run' = [run EXCEPT !.cleanupError = TRUE] /\ pc' = "final"
    /\ UNCHANGED <<outside, snap, device>>

Ends ==
    /\ pc = "final"
    /\ running' = FALSE /\ pc' = "none"
    /\ LET failed == run.error \/ run.cleanupError
       IN  snap' = [phase |-> IF failed THEN "Error"
                              ELSE IF Enabled(config) THEN "Stopped" ELSE "Disabled",
                    running |-> FALSE, failed |-> failed]
    /\ UNCHANGED <<window, poll, config, stop, run, held, device, world, faults>>

-----------------------------------------------------------------------------
Window == Edit \/ AskRestart \/ Toggle
Poll == \/ TickCancels \/ TickRefreshes \/ TakeRestart \/ Look
        \/ BacksOff \/ Satisfied \/ Updates
        \/ JoinedDisabled \/ JoinedStarts \/ QuitJoins
Worker == \/ Begins \/ PublishStarting \/ Open \/ LeaveLoop \/ Read
          \/ ReadLogical \/ Write \/ PublishIteration \/ PublishStopping
          \/ Settle \/ Reread \/ RestoreIndicators \/ Close \/ Ends

Next == Window \/ Poll \/ Quit \/ Worker \/ DriverFinishes

Spec == Init /\ [][Next]_vars

\* The threads are scheduled, the driver finishes what it was asked, and
\* retryAfter passes: a tick that may retry at some point does.
Fairness == /\ WF_vars(Poll) /\ SF_vars(Updates)
            /\ WF_vars(Worker) /\ WF_vars(DriverFinishes)
FairSpec == Spec /\ Fairness

-----------------------------------------------------------------------------
(* Properties.                                                              *)

WorkerStates == {"none", "head", "starting", "open", "top", "logical", "write",
                 "publish", "stopping", "settle", "reread", "restore", "close",
                 "final"}
PollStates == {"idle", "refresh", "look", "decide", "join", "quit", "gone"}

TypeOK ==
    /\ want \in Settings /\ restart \in BOOLEAN /\ edits \in 0 .. MaxEdits
    /\ at \in PollStates /\ cfg \in Settings /\ look \in Snapshots
    /\ key \in Settings \union {NoKey}
    /\ config \in Settings /\ stop \in BOOLEAN /\ running \in BOOLEAN
    /\ snap \in Snapshots
    /\ pc \in WorkerStates /\ run \in Sessions /\ held \in BOOLEAN
    /\ pending \in Operations /\ led \in [Target -> BOOLEAN]
    /\ logical \in BOOLEAN /\ toggled \in BOOLEAN /\ faults \in 0 .. MaxFaults

\* The driver owes nothing while the device is closed or being closed: no late
\* write can reach a keyboard the worker has let go (Cleanup's settlePending).
ClosesSettled ==
    pc \in {"close", "final", "none", "head", "starting", "open"} => pending = NoOp

\* Once a session that read the indicator has let go of the keyboard, the
\* indicator shows Caps Lock, or the failure to restore it is on record.  A
\* key pressed between the restoration's read and its write is not seen.
IndicatorRestored ==
    (/\ pc \in {"final", "none", "head"}
     /\ run.original # "unknown" /\ ~run.cleanupError /\ ~toggled)
       => led[run.target] = logical

\* While the settings in force disable the actions, and when the program is
\* done, no worker is left that could still touch a keyboard.
DisabledMeansNoWorker ==
    (at = "gone" \/ (at = "idle" /\ ~Enabled(config))) => pc = "none"

\* The snapshot's `running', on which the provider decides whether a call of
\* Update may wait for the worker, is true exactly while running_ is, and a
\* worker that has not finished is never reported as stopped.
SnapshotIsHonest ==
    /\ snap.running = running
    /\ running <=> pc # "none"

\* No failure is lost: a worker that failed begins no other session, and what
\* it reports stays in the snapshot, until a new worker is started.
Failed == run.error \/ run.cleanupError
KeepsFailure == (Failed /\ ~Failed') \/ (snap.failed /\ ~snap'.failed) => at = "join"
FailureStaysVisible == [][KeepsFailure]_vars

\* What ga_content_hardware.inc:34 says: the poll thread never joins a worker
\* that is cleaning up.
NeverJoinsCleanup ==
    at = "join" => pc \notin {"stopping", "settle", "reread", "restore", "close"}

Working == pc \in {"top", "logical", "write", "publish"}

\* Once the settings and the driver are quiet the right keyboard is blinked,
\* or none is: failed sessions are retried, backed-off ticks come back.
Settles ==
    <>[](\/ at = "gone"
         \/ Enabled(want) /\ Working /\ run.target = want
         \/ ~Enabled(want) /\ pc = "none")

=============================================================================
