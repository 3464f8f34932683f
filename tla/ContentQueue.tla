---------------------------- MODULE ContentQueue ----------------------------
(***************************************************************************)
(* The primary tile's native notification queue.                           *)
(*   src/dependencies/content_queue.h (QueueDelta: Plan, Ack, LeaveQueue)  *)
(*   src/dependencies/DesktopStub/ga_content_runtime.inc (ContentEngineTick)*)
(*   src/dependencies/DesktopStub/ga_content_state.inc (published frames)  *)
(*   src/dependencies/DesktopStub/ga_generation.inc (QueueGenerate, the    *)
(*   generation worker, Generate)                                          *)
(*                                                                         *)
(* Three actors share it: the poll thread composes, publishes, plans and   *)
(* submits; the UI thread forces a whole redelivery ("Generate now"); the  *)
(* generation worker renders and delivers one frame at a time and          *)
(* acknowledges each.  The delta remembers which frames Windows accepted;  *)
(* Windows itself holds at most one notification per tag.                  *)
(*                                                                         *)
(* A configuration is a layout: its frames, in order, and how they reach   *)
(* the tile.  Edits is the sequence of configurations the user saves.      *)
(***************************************************************************)
EXTENDS Naturals, Sequences, FiniteSets, Functions

CONSTANTS
    Tags,            \* the native queue tags, one per content item
    Configs,         \* the configurations the user may save
    Items,           \* Items[c]: the enabled tags of c, in order
    Native,          \* the configurations Windows rotates (nativeQueue)
    Off,             \* the configuration with the contents disabled
    Edits,           \* the configurations in the order they are saved
    Plain,           \* the tag of an untagged notification
    NoKey,           \* no visual key
    Left,            \* the tags an earlier process left on the tile
    MaxKey,          \* bound: visual changes, all items together
    MaxRequests,     \* bound: "Generate now" requests
    MaxFaults,       \* bound: generations that fail
    ClearThenThrow   \* may Update throw after Clear succeeded?

ASSUME ContentQueueAssumption ==
    /\ Native \subseteq Configs /\ Off \in Configs \ Native
    /\ Items \in [Configs -> Seq(Tags)] /\ Items[Off] = << >>
    /\ \A c \in Configs \ {Off} : Items[c] # << >> /\ IsInjective(Items[c])
    /\ Edits \in Seq(Configs) /\ Edits # << >>
    /\ Plain \notin Tags /\ Left \subseteq Tags
    /\ MaxKey \in Nat /\ MaxRequests \in Nat /\ MaxFaults \in Nat
    /\ ClearThenThrow \in BOOLEAN

VARIABLES
    at,          \* the saved configuration is Edits[at]
    key,         \* key[t]: the item's current visual key
    published,   \* what the poll thread published last: [config, keys]
    delta,       \* QueueDelta: [known, layout, committed]
    poll,        \* the poll thread: [pc, batch]
    lastFrame,   \* ContentEngineTick: the last app-managed frame submitted
    wasNative,   \* ContentEngineTick: wasNativeQueue
    ui,          \* the UI thread: [pc, batch, used]
    pending,     \* the replace-pending request: [queued, batch]
    worker,      \* the generation worker: [stage, batch, frame]
    cooling,     \* g_contentQueueRetryAfter lies in the future
    shown,       \* what Windows holds: tag -> visual key
    faults

vars == <<at, key, published, delta, poll, lastFrame, wasNative, ui, pending,
          worker, cooling, shown, faults>>
sources == <<at, key>>
pollVars == <<poll, lastFrame, wasNative, published>>

config == Edits[at]

Keys == 0..MaxKey
Frame == [tag : Tags \cup {Plain}, key : Keys, layout : Configs,
          native : BOOLEAN, reset : BOOLEAN]

(***************************************************************************)
(* A batch holds the frames composed under one configuration: frame i is   *)
(* the configuration's i-th item in the image keys gives it, due are those *)
(* still to deliver, in order, and reset is the flag of the first of them. *)
(* No frames (None) stands for an ordinary generation, and for nothing     *)
(* published.                                                              *)
(***************************************************************************)
Batch == [config : Configs, keys : [Tags -> Keys], due : SUBSET Nat,
          reset : BOOLEAN]
None == [config |-> Off, keys |-> [t \in Tags |-> 0], due |-> {},
         reset |-> FALSE]
Positions(c) == DOMAIN Items[c]

EmptyMap == [t \in {} |-> NoKey]
Put(map, f) == [t \in DOMAIN map \cup {f.tag} |->
                  IF t = f.tag THEN f.key ELSE map[t]]

(* What ContentEngineTick composes now.                                    *)
Compose == [config |-> config, keys |-> key, due |-> {}, reset |-> FALSE]

(* An app-managed frame has no tag.                                        *)
FrameOf(b, i) ==
    [tag |-> IF b.config \in Native THEN Items[b.config][i] ELSE Plain,
     key |-> b.keys[Items[b.config][i]], layout |-> b.config,
     native |-> b.config \in Native, reset |-> b.reset]
Wallpaper == [tag |-> Plain, key |-> 0, layout |-> Off, native |-> FALSE,
              reset |-> FALSE]

-----------------------------------------------------------------------------
(***************************************************************************)
(* QueueDelta.                                                             *)
(***************************************************************************)
BugAcknowledged(t, k) == t \in DOMAIN delta.committed

Acknowledged(t, k) == t \in DOMAIN delta.committed /\ delta.committed[t] = k

BugPlan(b, force) ==
    [config |-> b.config, keys |-> b.keys, reset |-> ~delta.known,
     due |-> {i \in Positions(b.config) :
                \/ force \/ ~delta.known
                \/ LET t == Items[b.config][i] IN ~Acknowledged(t, b.keys[t])}]

(* Plan: all frames when the layout changed or the plan is forced, else    *)
(* the changed ones; the first frame of a new layout resets the queue.     *)
Plan(b, force) ==
    LET changedLayout == ~delta.known \/ b.config # delta.layout
    IN  [config |-> b.config, keys |-> b.keys, reset |-> changedLayout,
         due |-> {i \in Positions(b.config) :
                    \/ force \/ changedLayout
                    \/ LET t == Items[b.config][i]
                       IN  ~Acknowledged(t, b.keys[t])}]

LeaveQueue == [known |-> FALSE, layout |-> Off, committed |-> EmptyMap]

BugAckKeeps(f) == [known |-> TRUE, layout |-> f.layout,
                   committed |-> Put(delta.committed, f)]

(* Ack: a reset frame, or a frame of another layout, starts a new record.  *)
Ack(f) ==
    LET fresh == ~delta.known \/ f.reset \/ f.layout # delta.layout
        base == IF fresh THEN EmptyMap ELSE delta.committed
    IN  [known |-> TRUE, layout |-> f.layout, committed |-> Put(base, f)]

HasAcknowledgedFrames == DOMAIN delta.committed # {}

-----------------------------------------------------------------------------
(***************************************************************************)
(* The environment: the user saves settings, a source changes an item.     *)
(***************************************************************************)
SaveSettings ==
    /\ at < Len(Edits)
    /\ at' = at + 1
    /\ UNCHANGED <<key, pollVars, delta, ui, pending, worker, cooling, shown,
                   faults>>

ItemChanges(t) ==
    /\ FoldFunction(+, 0, key) < MaxKey
    /\ key' = [key EXCEPT ![t] = @ + 1]
    /\ UNCHANGED <<at, pollVars, delta, ui, pending, worker, cooling, shown,
                   faults>>

(* The ten seconds of g_contentQueueRetryAfter outlast one tick and one    *)
(* command: a plan made before they began is not submitted after them.     *)
CooldownEnds ==
    /\ cooling /\ poll.pc = "idle" /\ ui.pc = "idle"
    /\ cooling' = FALSE
    /\ UNCHANGED <<sources, pollVars, delta, ui, pending, worker, shown,
                   faults>>

-----------------------------------------------------------------------------
(***************************************************************************)
(* QueueGenerate: a new request replaces the one not yet taken.            *)
(***************************************************************************)
WorkPending == pending.queued \/ worker.stage # "idle"
Replace(b) == pending' = [queued |-> TRUE, batch |-> b]

(***************************************************************************)
(* The poll thread: one tick of ContentEngineTick.                         *)
(***************************************************************************)
PollAt(pc) == poll' = [pc |-> pc, batch |-> poll.batch]

PollRead ==
    /\ poll.pc = "idle"
    /\ poll' = [pc |-> "publish", batch |-> Compose]
    /\ LET native == config \in Native IN
       /\ lastFrame' = IF \/ config = Off
                          \/ native # wasNative
                          \/ ~native /\ HasAcknowledgedFrames
                       THEN NoKey ELSE lastFrame
       /\ wasNative' = IF config = Off THEN wasNative ELSE native
    /\ UNCHANGED <<sources, published, delta, ui, pending, worker, cooling,
                   shown, faults>>

PollPublish ==
    /\ poll.pc = "publish"
    /\ published' = poll.batch
    /\ PollAt(IF poll.batch.config \in Native THEN "plan" ELSE "check")
    /\ UNCHANGED <<sources, delta, lastFrame, wasNative, ui, pending, worker,
                   cooling, shown, faults>>

PollPlan ==
    /\ poll.pc = "plan"
    /\ poll' = [pc |-> "check", batch |-> Plan(poll.batch, FALSE)]
    /\ UNCHANGED <<sources, published, delta, lastFrame, wasNative, ui,
                   pending, worker, cooling, shown, faults>>

AppFrame == poll.batch.keys[Items[poll.batch.config][1]]

BugSomethingToSend ==
    CASE poll.batch.config \in Native -> poll.batch.due # {}
      [] poll.batch.config = Off -> wasNative
      [] OTHER -> AppFrame # lastFrame

(* What makes this tick ask for a generation at all.                       *)
SomethingToSend ==
    CASE poll.batch.config \in Native -> poll.batch.due # {}
      [] poll.batch.config = Off -> wasNative \/ HasAcknowledgedFrames
      [] OTHER -> AppFrame # lastFrame

PollCheck ==
    /\ poll.pc = "check"
    /\ PollAt(IF SomethingToSend /\ ~WorkPending /\ ~cooling
              THEN "submit" ELSE "idle")
    /\ UNCHANGED <<sources, published, delta, lastFrame, wasNative, ui,
                   pending, worker, cooling, shown, faults>>

PollSubmit ==
    /\ poll.pc = "submit"
    /\ PollAt("idle")
    /\ Replace(IF poll.batch.config \in Native THEN poll.batch ELSE None)
    /\ lastFrame' = IF poll.batch.config \in Native \cup {Off} THEN lastFrame
                    ELSE AppFrame
    /\ wasNative' = (wasNative /\ poll.batch.config # Off)
    /\ UNCHANGED <<sources, published, delta, ui, worker, cooling, shown,
                   faults>>

-----------------------------------------------------------------------------
(***************************************************************************)
(* The UI thread: a forced request, refused while the composed contents    *)
(* have no frame, reads the published queue frames, plans all of them and  *)
(* replaces whatever is pending.                                           *)
(***************************************************************************)
UiRequest ==
    /\ ui.pc = "idle" /\ ui.used < MaxRequests
    /\ config # Off => published.config # Off
    /\ ui' = [pc |-> "plan", used |-> ui.used + 1, batch |-> published]
    /\ UNCHANGED <<sources, pollVars, delta, pending, worker, cooling, shown,
                   faults>>

UiPlan ==
    /\ ui.pc = "plan"
    /\ ui' = [pc |-> "submit", used |-> ui.used,
              batch |-> IF ui.batch.config \in Native THEN Plan(ui.batch, TRUE)
                        ELSE None]
    /\ UNCHANGED <<sources, pollVars, delta, pending, worker, cooling, shown,
                   faults>>

UiSubmit ==
    /\ ui.pc = "submit"
    /\ ui' = [pc |-> "idle", used |-> ui.used, batch |-> None]
    /\ Replace(ui.batch)
    /\ UNCHANGED <<sources, pollVars, delta, worker, cooling, shown, faults>>

-----------------------------------------------------------------------------
(***************************************************************************)
(* The generation worker.                                                  *)
(***************************************************************************)
Idle == [stage |-> "idle", batch |-> None, frame |-> Wallpaper]
WorkerAt(stage) == worker' = [stage |-> stage, batch |-> worker.batch,
                              frame |-> worker.frame]

Take ==
    /\ worker.stage = "idle" /\ pending.queued
    /\ worker' = [stage |-> IF pending.batch.due = {} THEN "ordinary" ELSE "admit",
                  batch |-> pending.batch, frame |-> Wallpaper]
    /\ pending' = [queued |-> FALSE, batch |-> None]
    /\ UNCHANGED <<sources, pollVars, delta, ui, cooling, shown, faults>>

(* What Generate shows without supplied frames: the wallpaper, or the      *)
(* first of the frames that are published now.                             *)
Current == IF config = Off THEN {Wallpaper}
           ELSE IF published.config = Off THEN {} ELSE {FrameOf(published, 1)}

Begin(f, b) == worker' = [stage |-> IF f.reset THEN "clear" ELSE "update",
                          batch |-> b, frame |-> f]

AdmitOrdinary ==
    /\ worker.stage = "ordinary"
    /\ \E f \in Current : Begin(f, None)
    /\ UNCHANGED <<sources, pollVars, delta, ui, pending, cooling, shown,
                   faults>>

(* The next frame of a batch, if the layout is still the saved one.        *)
Admit ==
    /\ worker.stage = "admit" /\ worker.batch.config = config
    /\ \E i \in worker.batch.due :
         /\ \A j \in worker.batch.due : i <= j
         /\ Begin(FrameOf(worker.batch, i),
                  [config |-> worker.batch.config, keys |-> worker.batch.keys,
                   due |-> worker.batch.due \ {i}, reset |-> FALSE])
    /\ UNCHANGED <<sources, pollVars, delta, ui, pending, cooling, shown,
                   faults>>

(* The work ends without success: every later frame of the queue is        *)
(* skipped, and queue deliveries wait.                                     *)
StopBatch(queued) ==
    /\ worker' = Idle
    /\ cooling' = (cooling \/ queued \/ HasAcknowledgedFrames)

Reject ==
    /\ \/ worker.stage = "admit" /\ worker.batch.config # config
       \/ worker.stage = "ordinary" /\ Current = {}
    /\ StopBatch(worker.stage = "admit")
    /\ UNCHANGED <<sources, pollVars, delta, ui, pending, shown, faults>>

(* Rendering fails, or the notification API throws: before anything        *)
(* changed on the tile, or between Clear and Update.                       *)
GenerationFails ==
    /\ worker.stage \in {"clear", "update"} /\ faults < MaxFaults
    /\ worker.stage = "update" /\ worker.frame.reset => ClearThenThrow
    /\ faults' = faults + 1
    /\ StopBatch(worker.batch.config # Off)
    /\ UNCHANGED <<sources, pollVars, delta, ui, pending, shown>>

Clear ==
    /\ worker.stage = "clear"
    /\ shown' = EmptyMap
    /\ WorkerAt("update")
    /\ UNCHANGED <<sources, pollVars, delta, ui, pending, cooling, faults>>

(* A queued notification replaces the one with its tag; with the queue     *)
(* disabled the new notification is the only one.                          *)
Update ==
    /\ worker.stage = "update"
    /\ shown' = Put(IF worker.frame.native THEN shown ELSE EmptyMap,
                    worker.frame)
    /\ WorkerAt("ack")
    /\ UNCHANGED <<sources, pollVars, delta, ui, pending, cooling, faults>>

Acknowledge ==
    /\ worker.stage = "ack"
    /\ delta' = IF worker.frame.native THEN Ack(worker.frame) ELSE LeaveQueue
    /\ IF worker.batch.due # {}
       THEN WorkerAt("admit") /\ UNCHANGED cooling
       ELSE worker' = Idle /\ cooling' = FALSE
    /\ UNCHANGED <<sources, pollVars, ui, pending, shown, faults>>

-----------------------------------------------------------------------------
(***************************************************************************)
(* The process starts with an empty record; the tile may still hold what   *)
(* an earlier process left there.                                          *)
(***************************************************************************)
Init ==
    /\ at = 1
    /\ key = [t \in Tags |-> 0]
    /\ published = None
    /\ delta = LeaveQueue
    /\ poll = [pc |-> "idle", batch |-> None]
    /\ lastFrame = NoKey /\ wasNative = FALSE
    /\ ui = [pc |-> "idle", batch |-> None, used |-> 0]
    /\ pending = [queued |-> FALSE, batch |-> None]
    /\ worker = Idle
    /\ cooling = FALSE
    /\ shown = [t \in Left |-> 0]
    /\ faults = 0

PollStep == PollRead \/ PollPublish \/ PollPlan \/ PollCheck \/ PollSubmit
UiStep == UiPlan \/ UiSubmit
WorkerStep == Take \/ Admit \/ AdmitOrdinary \/ Reject \/ Clear \/ Update
              \/ Acknowledge

Next ==
    \/ SaveSettings \/ (\E t \in Tags : ItemChanges(t)) \/ CooldownEnds
    \/ PollStep \/ UiRequest \/ UiStep
    \/ WorkerStep \/ GenerationFails

Spec == Init /\ [][Next]_vars

(***************************************************************************)
(* The poll timer, the started worker and a command that has begun go on;  *)
(* time passes, also while ticks come and go, hence strong fairness.       *)
(* Nothing obliges the user, the sources or a failure.                     *)
(***************************************************************************)
Fairness == /\ WF_vars(PollStep) /\ WF_vars(UiStep) /\ WF_vars(WorkerStep)
            /\ SF_vars(CooldownEnds)

FairSpec == Spec /\ Fairness

-----------------------------------------------------------------------------
(* Type correctness: every variable stays in its type.                     *)
TypeOK ==
    /\ at \in DOMAIN Edits
    /\ key \in [Tags -> Keys]
    /\ published \in Batch
    /\ delta.known \in BOOLEAN /\ delta.layout \in Configs
    /\ DOMAIN delta.committed \subseteq Tags
    /\ poll \in [pc : {"idle", "publish", "plan", "check", "submit"}, batch : Batch]
    /\ lastFrame \in Keys \cup {NoKey} /\ wasNative \in BOOLEAN
    /\ ui \in [pc : {"idle", "plan", "submit"}, batch : Batch, used : 0..MaxRequests]
    /\ pending \in [queued : BOOLEAN, batch : Batch]
    /\ worker \in [stage : {"idle", "ordinary", "admit", "clear", "update", "ack"},
                   batch : Batch, frame : Frame]
    /\ cooling \in BOOLEAN
    /\ DOMAIN shown \subseteq Tags \cup {Plain}
    /\ faults \in 0..MaxFaults

Delivering == worker.stage \in {"update", "ack"}

(***************************************************************************)
(* What the delta believes Windows has, Windows has: a frame it would skip *)
(* as unchanged really is on the tile, with that image, while no delivery  *)
(* is between the tile and its acknowledgement.                            *)
(***************************************************************************)
CommittedIsShown ==
    ~Delivering => \A t \in DOMAIN delta.committed :
                      t \in DOMAIN shown /\ shown[t] = delta.committed[t]

(***************************************************************************)
(* New layouts reset the queue: once a queue frame is acknowledged,        *)
(* Windows holds no notification the delta does not know of, neither from  *)
(* an older layout nor from an earlier process.                            *)
(***************************************************************************)
NoGhost ==
    delta.known /\ ~Delivering => DOMAIN shown \subseteq DOMAIN delta.committed

(***************************************************************************)
(* A failed batch is retried: when the user's last configuration, whichever *)
(* that is, is rotated by Windows, the tile ends up with every frame of it *)
(* in its final image, whatever failed, was replaced while pending or was  *)
(* rejected.                                                               *)
(***************************************************************************)
Wanted == \A i \in DOMAIN Items[config] :
             /\ Items[config][i] \in DOMAIN shown
             /\ shown[Items[config][i]] = key[Items[config][i]]
Converges == <>[](config \in Native => Wanted)

(***************************************************************************)
(* Returning to app rotation, or disabling the contents, retries the       *)
(* departure until Windows accepted it: acknowledged queue frames do not   *)
(* stay on the tile.  What an earlier process left there stays as long as  *)
(* this one shows nothing at all.                                          *)
(***************************************************************************)
Untouched == ~HasAcknowledgedFrames /\ shown = [t \in Left |-> 0]
DepartureRetried ==
    <>[](config \notin Native => Untouched \/ DOMAIN shown \subseteq {Plain})
=============================================================================
