------------------------- MODULE ContentQueueProofs -------------------------
(***************************************************************************)
(* Proofs about ContentQueue, for any configurations, edits, numbers of    *)
(* requests and failures.  The delta never believes too much as long as    *)
(* Update does not throw after Clear.  A notification of an old layout     *)
(* survives a new one only by one of two kinds of step, named here, and    *)
(* neither occurs while the settings go one way.                           *)
(***************************************************************************)
EXTENDS ContentQueue, TLAPS

Matches(t) == t \in DOMAIN shown /\ shown[t] = delta.committed[t]
Sending == worker.stage \in {"clear", "update", "ack"}

(* What a delivery in progress has done to the tile so far.                *)
CInv ==
    /\ worker.stage = "clear" => worker.frame.reset
    /\ worker.stage # "ack" /\ ~(worker.stage = "update" /\ worker.frame.reset)
         => \A t \in DOMAIN delta.committed : Matches(t)
    /\ worker.stage = "ack" =>
         /\ worker.frame.tag \in DOMAIN shown
         /\ shown[worker.frame.tag] = worker.frame.key
         /\ worker.frame.native /\ ~worker.frame.reset =>
              \A t \in DOMAIN delta.committed :
                 t # worker.frame.tag => Matches(t)

LEMMA CInit == Init => CInv
BY DEF Init, CInv, Idle, LeaveQueue, EmptyMap, Matches

LEMMA CStep == ASSUME ~ClearThenThrow, CInv, [Next]_vars PROVE CInv'
<1> USE DEF CInv, Matches
<1>1. CASE UNCHANGED <<worker, shown, delta>>
  BY <1>1
<1>2. CASE Take
  BY <1>2 DEF Take
<1>3. CASE Admit
  BY <1>3 DEF Admit, Begin
<1>4. CASE AdmitOrdinary
  BY <1>4 DEF AdmitOrdinary, Begin
<1>5. CASE Reject
  BY <1>5 DEF Reject, StopBatch, Idle
<1>6. CASE Clear
  BY <1>6 DEF Clear, WorkerAt
<1>7. CASE Update
  BY <1>7 DEF Update, WorkerAt, Put, EmptyMap
<1>8. CASE Acknowledge
  <2>1. worker.stage = "ack" /\ UNCHANGED shown
    BY <1>8 DEF Acknowledge
  <2>2. worker'.stage \in {"admit", "idle"}
    BY <1>8 DEF Acknowledge, WorkerAt, Idle
  <2>3. \A t \in DOMAIN delta'.committed :
          t \in DOMAIN shown /\ shown[t] = delta'.committed[t]
    BY <1>8, <2>1 DEF Acknowledge, Ack, LeaveQueue, Put, EmptyMap
  <2> QED BY <2>1, <2>2, <2>3
<1>9. CASE GenerationFails
  BY <1>9 DEF GenerationFails, StopBatch, Idle
<1> QED
  BY <1>1, <1>2, <1>3, <1>4, <1>5, <1>6, <1>7, <1>8, <1>9
  DEF Next, vars, SaveSettings, ItemChanges, CooldownEnds, PollStep, PollRead,
      PollPublish, PollPlan, PollCheck, PollSubmit, UiRequest, UiStep, UiPlan,
      UiSubmit, WorkerStep

(***************************************************************************)
(* Unless Update throws after Clear, whatever the delta would skip as      *)
(* unchanged is on the tile: for every sequence of settings, also one that *)
(* returns to a layout or enters and leaves Windows' rotation.             *)
(***************************************************************************)
THEOREM Committed == ASSUME ~ClearThenThrow PROVE Spec => []CommittedIsShown
<1>1. CInv => CommittedIsShown
  BY DEF CInv, CommittedIsShown, Delivering, Matches
<1> QED BY CInit, CStep, <1>1, PTL DEF Spec

-----------------------------------------------------------------------------
(***************************************************************************)
(* When a queue can hold a ghost.  Two kinds of step lead there, and only  *)
(* these: a configuration saved again while an older plan, or a delivery   *)
(* under way, was made for another state of the tile; and an ordinary      *)
(* generation that delivers into a queue, or starts one without a reset.   *)
(***************************************************************************)
Knows(layout) == delta.known /\ delta.layout = layout

(* The batches planned and not yet given to the tile.                      *)
Waiting ==
    {x \in {poll.batch, ui.batch, pending.batch, worker.batch} :
       /\ x.due # {}
       /\ \/ x = poll.batch /\ poll.pc \in {"check", "submit"}
          \/ x = ui.batch /\ ui.pc = "submit"
          \/ x = pending.batch /\ pending.queued
          \/ x = worker.batch /\ worker.stage = "admit"}

(* No plan made without a reset waits for a layout that is saved again but *)
(* is no longer the one Windows has; and Windows does not still have the   *)
(* layout saved again while a frame of another one is on its way.          *)
CleanReturn ==
    SaveSettings =>
      /\ \A x \in Waiting : x.config = config' => x.reset \/ Knows(config')
      /\ Sending /\ Knows(config') => worker.frame.layout = config'

(* An ordinary generation sends a queue frame only for the layout Windows  *)
(* has, and does not interrupt the queue of the saved layout with another. *)
NoStray ==
    AdmitOrdinary =>
      /\ worker'.frame.native => Knows(worker'.frame.layout)
      /\ Knows(config) => worker'.frame.layout = config

(* A planned batch resets the queue, or is of the layout Windows has, or   *)
(* is out of date and will not be admitted.                                *)
Sound(x) == x.config \in Native /\ (x.reset \/ x.config # config \/ Knows(config))

Plans ==
    /\ poll.pc = "publish" => poll.batch.due = {}
    /\ poll.pc = "plan" => poll.batch.config \in Native
    /\ \A x \in Waiting : Sound(x)

(* A frame on its way fits what Windows has, and so does what follows it.  *)
Work ==
    /\ worker.stage = "clear" => worker.frame.reset
    /\ delta.known => delta.layout \in Native
    /\ Sending =>
         /\ worker.frame.native <=> worker.frame.layout \in Native
         /\ worker.frame.native => worker.frame.reset \/ Knows(worker.frame.layout)
         /\ Knows(config) => worker.frame.layout = config
         /\ worker.batch.due # {} =>
              worker.frame.native /\ worker.batch.config = worker.frame.layout

(* What the delivery has left on the tile so far.                          *)
Tile ==
    CASE worker.stage = "update" /\ worker.frame.reset -> DOMAIN shown = {}
      [] worker.stage = "ack" /\ worker.frame.reset ->
           DOMAIN shown \subseteq {worker.frame.tag}
      [] worker.stage = "ack" /\ ~worker.frame.reset ->
           worker.frame.native =>
             DOMAIN shown \subseteq DOMAIN delta.committed \cup {worker.frame.tag}
      [] OTHER -> delta.known => DOMAIN shown \subseteq DOMAIN delta.committed

GInv == Plans /\ Work /\ Tile

(* Whatever is planned now fits what Windows has now.                      *)
LEMMA PlanSound ==
    ASSUME NEW b, NEW force, b.config \in Native
    PROVE  Sound(Plan(b, force))
BY DEF Plan, Sound, Knows

LEMMA GInit == Init => GInv
<1> SUFFICES ASSUME Init PROVE GInv
  OBVIOUS
<1>1. Waiting = {}
  BY DEF Init, Waiting, None, Idle
<1> QED
  BY <1>1 DEF Init, GInv, Plans, Work, Tile, Idle, Sending, LeaveQueue

(* A configuration saved cleanly turns no plan into a wrong one.           *)
LEMMA GSave == ASSUME GInv, SaveSettings, CleanReturn PROVE GInv'
<1>1. UNCHANGED <<poll, delta, ui, pending, worker, shown>>
  BY DEF SaveSettings, pollVars
<1>2. UNCHANGED <<Waiting, Sending>> /\ \A l : Knows(l)' = Knows(l)
  BY <1>1 DEF Waiting, Sending, Knows
<1>3. /\ \A x \in Waiting : x.config = config' => x.reset \/ Knows(config')
      /\ Sending /\ Knows(config') => worker.frame.layout = config'
  BY DEF CleanReturn
<1>4. ASSUME NEW x \in Waiting PROVE Sound(x)'
  BY <1>2, <1>3 DEF GInv, Plans, Sound, Knows
<1>5. Plans'
  BY <1>1, <1>2, <1>4 DEF GInv, Plans
<1>6. Work'
  BY <1>1, <1>2, <1>3 DEF GInv, Work, Knows
<1>7. Tile'
  BY <1>1 DEF GInv, Tile
<1> QED BY <1>5, <1>6, <1>7 DEF GInv

PollParts == PollRead \/ PollPublish \/ PollPlan \/ PollCheck \/ PollSubmit
UiParts == UiRequest \/ UiPlan \/ UiSubmit
WorkParts == Take \/ Admit \/ AdmitOrdinary \/ Reject \/ Clear \/ Update \/ GenerationFails

(* What the poll and the UI thread pass on was planned, or is no batch.    *)
LEMMA GPlans ==
    ASSUME GInv, PollParts \/ UiParts
    PROVE  \A x \in Waiting' : Sound(x)
<1> SUFFICES ASSUME NEW x \in Waiting', x \notin Waiting PROVE Sound(x)
  BY DEF GInv, Plans
<1>1. UNCHANGED worker /\ x.due # {}
  BY DEF Waiting, PollParts, PollRead, PollPublish, PollPlan, PollCheck, PollSubmit, UiParts,
         UiRequest, UiPlan, UiSubmit
<1>2. CASE PollRead
  BY <1>1, <1>2 DEF Waiting, PollRead
<1>3. CASE PollPublish
  BY <1>1, <1>3 DEF Waiting, PollPublish, PollAt, GInv, Plans
<1>4. CASE PollPlan
  <2>1. x = Plan(poll.batch, FALSE) /\ poll.batch.config \in Native
    BY <1>1, <1>4 DEF Waiting, PollPlan, GInv, Plans
  <2> QED BY <2>1, PlanSound
<1>5. CASE PollCheck
  BY <1>1, <1>5 DEF Waiting, PollCheck, PollAt
<1>6. CASE PollSubmit
  BY <1>1, <1>6 DEF Waiting, PollSubmit, PollAt, Replace, None
<1>7. CASE UiRequest
  BY <1>1, <1>7 DEF Waiting, UiRequest, pollVars
<1>8. CASE UiPlan
  <2>1. x = ui'.batch
    BY <1>1, <1>8 DEF Waiting, UiPlan, pollVars
  <2>2. x = Plan(ui.batch, TRUE) /\ ui.batch.config \in Native
    BY <1>1, <1>8, <2>1 DEF UiPlan, None
  <2> QED BY <2>2, PlanSound
<1>9. CASE UiSubmit
  BY <1>1, <1>9 DEF Waiting, UiSubmit, Replace, pollVars
<1> QED
  BY <1>2, <1>3, <1>4, <1>5, <1>6, <1>7, <1>8, <1>9 DEF PollParts, UiParts

LEMMA GAsk == ASSUME GInv, PollParts \/ UiParts PROVE GInv'
<1>1. UNCHANGED <<at, delta, worker, shown>>
  BY DEF PollParts, PollRead, PollPublish, PollPlan, PollCheck, PollSubmit, UiParts, UiRequest,
         UiPlan, UiSubmit, sources
<1>2. UNCHANGED config /\ \A l : Knows(l)' = Knows(l)
  BY <1>1 DEF config, Knows
<1>3. /\ poll'.pc = "publish" => poll'.batch.due = {}
      /\ poll'.pc = "plan" => poll'.batch.config \in Native
  <2>1. CASE PollRead
    BY <2>1 DEF PollRead, Compose
  <2>2. CASE PollPublish
    BY <2>2 DEF PollPublish, PollAt
  <2>3. CASE PollPlan \/ PollCheck \/ PollSubmit
    <3>1. PollPlan => poll'.pc = "check"
      BY DEF PollPlan
    <3>2. PollCheck => poll'.pc \in {"submit", "idle"}
      BY DEF PollCheck, PollAt
    <3>3. PollSubmit => poll'.pc = "idle"
      BY DEF PollSubmit, PollAt
    <3> QED BY <2>3, <3>1, <3>2, <3>3
  <2>4. CASE UiParts
    BY <2>4 DEF UiParts, UiRequest, UiPlan, UiSubmit, pollVars, GInv, Plans
  <2> QED BY <2>1, <2>2, <2>3, <2>4 DEF PollParts
<1>4. Plans'
  BY <1>2, <1>3, GPlans DEF Plans, Sound
<1>5. Work' /\ Tile'
  BY <1>1, <1>2 DEF GInv, Work, Tile, Sending
<1> QED BY <1>4, <1>5 DEF GInv

LEMMA GWork == ASSUME GInv, WorkParts, NoStray PROVE GInv'
<1>1. UNCHANGED <<at, delta, poll, ui>>
  BY DEF WorkParts, Take, Admit, AdmitOrdinary, Reject, Clear, Update, GenerationFails, sources,
         pollVars
<1>2. UNCHANGED config /\ \A l : Knows(l)' = Knows(l)
  BY <1>1 DEF config, Knows
<1>3. Waiting' \subseteq Waiting
  <2>1. CASE Take
    BY <1>1, <2>1 DEF Waiting, Take
  <2>2. CASE ~Take
    <3>1. worker'.stage # "admit" /\ UNCHANGED pending
      BY <2>2 DEF WorkParts, Admit, AdmitOrdinary, Reject, Clear, Update, GenerationFails,
                  Begin, StopBatch, Idle, WorkerAt
    <3> QED BY <1>1, <3>1 DEF Waiting
  <2> QED BY <2>1, <2>2
<1>4. Plans'
  BY <1>1, <1>2, <1>3 DEF GInv, Plans, Sound
<1>5. Work'
  <2> USE <1>1, <1>2 DEF GInv, Work, Sending
  <2>1. CASE Take
    BY <2>1 DEF Take
  <2>2. CASE Admit
    <3>1. PICK i \in worker.batch.due :
            Begin(FrameOf(worker.batch, i),
                  [config |-> worker.batch.config, keys |-> worker.batch.keys,
                   due |-> worker.batch.due \ {i}, reset |-> FALSE])
      BY <2>2 DEF Admit
    <3>2. worker.batch.config = config /\ Sound(worker.batch)
      BY <2>2, <3>1 DEF Admit, Plans, Waiting
    <3>3. /\ worker'.frame = FrameOf(worker.batch, i)
          /\ worker'.batch.config = worker.batch.config
          /\ worker'.stage = IF worker'.frame.reset THEN "clear" ELSE "update"
      BY <3>1 DEF Begin
    <3>4. worker'.frame.native = (worker.batch.config \in Native)
      BY <3>3 DEF FrameOf
    <3>5. worker'.frame.layout = worker.batch.config
      BY <3>3 DEF FrameOf
    <3>6. worker'.frame.reset = worker.batch.reset
      BY <3>3 DEF FrameOf
    <3> QED BY <3>2, <3>3, <3>4, <3>5, <3>6 DEF Sound
  <2>3. CASE AdmitOrdinary
    <3>1. PICK f \in Current : Begin(f, None)
      BY <2>3 DEF AdmitOrdinary
    <3>2. f.native <=> f.layout \in Native
      <4>1. f = Wallpaper \/ f = FrameOf(published, 1)
        BY <3>1 DEF Current
      <4>2. CASE f = Wallpaper
        BY <4>2, ContentQueueAssumption DEF Wallpaper
      <4>3. CASE f = FrameOf(published, 1)
        <5>1. f.native = (published.config \in Native)
          BY <4>3 DEF FrameOf
        <5>2. f.layout = published.config
          BY <4>3 DEF FrameOf
        <5> QED BY <5>1, <5>2
      <4> QED BY <4>1, <4>2, <4>3
    <3>3. /\ worker'.frame = f /\ worker'.batch.due = {}
          /\ worker'.stage = IF f.reset THEN "clear" ELSE "update"
      BY <3>1 DEF Begin, None
    <3>4. /\ f.native => Knows(f.layout)
          /\ Knows(config) => f.layout = config
      BY <2>3, <3>3 DEF NoStray
    <3> QED BY <3>2, <3>3, <3>4
  <2>4. CASE Reject \/ GenerationFails
    BY <2>4 DEF Reject, GenerationFails, StopBatch, Idle
  <2>5. CASE Clear \/ Update
    BY <2>5 DEF Clear, Update, WorkerAt
  <2> QED BY <2>1, <2>2, <2>3, <2>4, <2>5 DEF WorkParts
<1>6. Tile'
  <2> USE <1>1 DEF GInv, Tile, Work, Sending
  <2>1. CASE Take
    BY <2>1 DEF Take
  <2>2. CASE Admit
    BY <2>2 DEF Admit, Begin
  <2>3. CASE AdmitOrdinary
    BY <2>3 DEF AdmitOrdinary, Begin
  <2>4. CASE Reject
    BY <2>4 DEF Reject, StopBatch, Idle
  <2>5. CASE GenerationFails
    BY <2>5 DEF GenerationFails, StopBatch, Idle
  <2>6. CASE Clear
    BY <2>6 DEF Clear, WorkerAt, EmptyMap
  <2>7. CASE Update
    BY <2>7 DEF Update, WorkerAt, Put, EmptyMap, Knows
  <2> QED BY <2>1, <2>2, <2>3, <2>4, <2>5, <2>6, <2>7 DEF WorkParts
<1> QED BY <1>4, <1>5, <1>6 DEF GInv

(* A queue frame takes over the delta; an ordinary one ends it, when no    *)
(* plan for the saved layout counts on it any more.                        *)
LEMMA GAck == ASSUME GInv, Acknowledge PROVE GInv'
<1>1. UNCHANGED <<at, poll, ui, pending, shown>> /\ worker.stage = "ack" /\ Sending
  BY DEF Acknowledge, sources, pollVars, Sending
<1>2. UNCHANGED config
  BY <1>1 DEF config
<1>3. worker.frame.native =>
        /\ delta'.known /\ delta'.layout = worker.frame.layout
        /\ delta'.committed = Put(IF ~delta.known \/ worker.frame.reset
                                       \/ worker.frame.layout # delta.layout
                                  THEN EmptyMap ELSE delta.committed, worker.frame)
  BY DEF Acknowledge, Ack
<1>4. ~worker.frame.native => ~delta'.known /\ worker.batch.due = {}
  BY <1>1 DEF Acknowledge, LeaveQueue, GInv, Work
<1>5. ASSUME NEW x, Sound(x) PROVE Sound(x)'
  <2>1. CASE worker.frame.native
    BY <1>1, <1>2, <1>3, <1>5, <2>1 DEF GInv, Work, Sound, Knows
  <2>2. CASE ~worker.frame.native
    BY <1>1, <1>2, <1>4, <1>5, <2>2 DEF GInv, Work, Sound, Knows
  <2> QED BY <2>1, <2>2
<1>6. /\ worker'.stage \in {"admit", "idle"}
      /\ worker'.stage = "admit" => worker.batch.due # {} /\ worker'.batch = worker.batch
  BY DEF Acknowledge, WorkerAt, Idle
<1>7. worker.batch.due # {} => Sound(worker.batch)'
  <2> SUFFICES ASSUME worker.batch.due # {} PROVE Sound(worker.batch)'
    OBVIOUS
  <2>1. worker'.batch = worker.batch
    BY DEF Acknowledge, WorkerAt
  <2>2. worker.frame.native /\ worker.batch.config = worker.frame.layout
    BY <1>1 DEF GInv, Work
  <2>3. worker.frame.layout \in Native
    BY <1>1, <2>2 DEF GInv, Work
  <2> QED BY <1>2, <1>3, <2>1, <2>2, <2>3 DEF Sound, Knows
<1>8. Plans'
  <2>1. ASSUME NEW x \in Waiting' PROVE Sound(x)'
    <3>1. CASE x \in Waiting
      BY <1>5, <3>1 DEF GInv, Plans
    <3>2. CASE x \notin Waiting
      <4>1. x = worker.batch /\ worker'.batch = worker.batch /\ worker.batch.due # {}
        BY <1>1, <1>6, <2>1, <3>2 DEF Waiting
      <4> QED BY <1>7, <4>1 DEF Sound
    <3> QED BY <3>1, <3>2
  <2> QED BY <1>1, <2>1 DEF GInv, Plans
<1>9. Work'
  BY <1>1, <1>3, <1>4, <1>6 DEF GInv, Work, Sending
<1>10. Tile'
  <2>1. CASE worker.frame.native
    <3>1. DOMAIN delta'.committed =
            (IF ~delta.known \/ worker.frame.reset \/ worker.frame.layout # delta.layout
             THEN {} ELSE DOMAIN delta.committed) \cup {worker.frame.tag}
      BY <1>3, <2>1 DEF Put, EmptyMap
    <3>2. worker.frame.reset \/ Knows(worker.frame.layout)
      BY <1>1, <2>1 DEF GInv, Work
    <3>3. DOMAIN shown \subseteq DOMAIN delta'.committed
      BY <1>1, <2>1, <3>1, <3>2 DEF GInv, Tile, Knows
    <3> QED BY <1>1, <1>6, <3>3 DEF Tile
  <2>2. CASE ~worker.frame.native
    BY <1>4, <1>6, <2>2 DEF Tile
  <2> QED BY <2>1, <2>2
<1> QED BY <1>8, <1>9, <1>10 DEF GInv

LEMMA GStep == ASSUME GInv, [Next]_vars, [NoStray /\ CleanReturn]_vars PROVE GInv'
<1>1. CASE UNCHANGED <<at, delta, poll, ui, pending, worker, shown>>
  BY <1>1 DEF GInv, Plans, Work, Tile, Sending, Sound, Waiting, Knows, config
<1>2. CASE (\E t \in Tags : ItemChanges(t)) \/ CooldownEnds \/ UNCHANGED vars
  BY <1>1, <1>2 DEF ItemChanges, CooldownEnds, vars, pollVars, sources
<1>3. CASE NoStray /\ CleanReturn
  <2>1. PollStep \/ UiRequest \/ UiStep => PollParts \/ UiParts
    BY DEF PollStep, PollParts, UiStep, UiParts
  <2>2. WorkerStep \/ GenerationFails => WorkParts \/ Acknowledge
    BY DEF WorkerStep, WorkParts
  <2> QED BY <1>2, <1>3, <2>1, <2>2, GSave, GAsk, GWork, GAck DEF Next
<1> QED BY <1>2, <1>3

(***************************************************************************)
(* A queue whose first frame is acknowledged holds nothing of an older     *)
(* layout or process: for every sequence of settings and every             *)
(* interleaving of ticks, forced requests, replaced batches and failures,  *)
(* torn resets included, in which no layout is saved again over a plan or  *)
(* a delivery made for another state of the tile (CleanReturn), and no     *)
(* ordinary generation sends a queue frame of a layout Windows does not    *)
(* have, or anything into the queue of the saved layout (NoStray).  The    *)
(* code can take both kinds of step.                                       *)
(***************************************************************************)
THEOREM Ghostless == Spec /\ [][NoStray /\ CleanReturn]_vars => []NoGhost
<1>1. GInv => NoGhost
  BY DEF GInv, Tile, NoGhost, Delivering
<1> QED BY GInit, GStep, <1>1, PTL DEF Spec

-----------------------------------------------------------------------------
(***************************************************************************)
(* Settings for which neither step occurs: no configuration is saved       *)
(* twice, none that Windows rotates comes after one that it does not, and  *)
(* contents that are disabled stay disabled.                               *)
(***************************************************************************)
OneWay ==
    \A i, j \in DOMAIN Edits : i < j =>
       /\ Edits[i] # Edits[j] /\ Edits[i] # Off
       /\ Edits[j] \in Native => Edits[i] \in Native

Saved == {Edits[j] : j \in 1..at}

(* An ordinary generation is asked for only when Windows' rotation is over *)
(* and the published contents say so too, or when there are none.          *)
Parted == config = Off \/ published.config \in Saved \ Native

(* Whatever is under way belongs to a configuration saved by now.          *)
Now == at \in DOMAIN Edits
Seen ==
    /\ delta.known => delta.layout \in Saved
    /\ Sending /\ worker.frame.native => worker.frame.layout \in Saved
    /\ \A x \in Waiting : x.config \in Saved
    /\ published.config \in Saved \cup {Off}
    /\ poll.pc # "idle" => poll.batch.config \in Saved
    /\ ui.pc = "plan" /\ ui.batch.config \in Native => ui.batch.config \in Saved

(* On the way to an ordinary generation.                                   *)
Ordinary ==
    /\ poll.pc = "publish" /\ published.config \in Saved \ Native /\ config # Off =>
         poll.batch.config \notin Native
    /\ poll.pc \in {"check", "submit"} /\ poll.batch.config \notin Native => Parted
    /\ poll.pc = "submit" /\ poll.batch.config \in Native => poll.batch.due # {}
    /\ ui.pc = "plan" /\ ui.batch.config \notin Native => Parted
    /\ ui.pc = "submit" /\ ui.batch.due = {} => Parted
    /\ pending.queued /\ pending.batch.due = {} => Parted
    /\ worker.stage = "ordinary" => Parted

OInv == GInv /\ Now /\ Seen /\ Ordinary

(* While there are contents, none of the configurations saved was the one  *)
(* without them; once one left Windows' rotation, so have all after it.    *)
LEMMA AtFacts == ASSUME OneWay, Now PROVE
    /\ config \in Saved /\ Off \notin Native
    /\ config # Off => Off \notin Saved
    /\ config \in Native => Saved \subseteq Native
<1>1. at \in 1..Len(Edits) /\ Off \notin Native
  BY ContentQueueAssumption DEF Now
<1>2. ASSUME NEW c \in Saved PROVE c = config \/ (c # Off /\ (config \in Native => c \in Native))
  <2>1. PICK j \in 1..at : c = Edits[j]
    BY DEF Saved
  <2>2. j \in DOMAIN Edits /\ at \in DOMAIN Edits /\ (j = at \/ j < at)
    BY <1>1, ContentQueueAssumption
  <2>3. QED
    BY <2>1, <2>2 DEF OneWay, config
<1>3. config \in Saved
  BY <1>1 DEF Saved, config
<1>4. QED
  BY <1>1, <1>2, <1>3

LEMMA SaveFacts ==
    ASSUME OneWay, Now, SaveSettings
    PROVE  /\ at' \in DOMAIN Edits
           /\ Saved \subseteq Saved' /\ Saved' = Saved \cup {config'}
           /\ config' \notin Saved /\ config \in Saved /\ config # Off
           /\ config' \in Native => Saved \subseteq Native
<1>1. at \in 1..Len(Edits) /\ at' = at + 1 /\ at' \in 1..Len(Edits)
  BY ContentQueueAssumption DEF Now, SaveSettings
<1>2. Saved \subseteq Saved' /\ Saved' = Saved \cup {config'}
  BY <1>1 DEF Saved, config
<1>3. ASSUME NEW c \in Saved PROVE c # config' /\ c # Off /\ (config' \in Native => c \in Native)
  <2>1. PICK j \in 1..at : c = Edits[j]
    BY DEF Saved
  <2>2. j \in DOMAIN Edits /\ at' \in DOMAIN Edits /\ j < at'
    BY <1>1, <2>1, ContentQueueAssumption
  <2>3. QED
    BY <2>1, <2>2 DEF OneWay, config
<1>4. config \in Saved
  BY <1>1 DEF Saved, config
<1> QED BY <1>1, <1>2, <1>3, <1>4, ContentQueueAssumption

LEMMA ForcedPlan ==
    ASSUME NEW b, b.config \in Native
    PROVE  Plan(b, TRUE).due # {}
<1>1. b.config \in Configs \ {Off}
  BY ContentQueueAssumption
<1>2. 1 \in Positions(b.config)
  BY <1>1, ContentQueueAssumption DEF Positions
<1> QED BY <1>2 DEF Plan

LEMMA OInit == Init => OInv
<1> SUFFICES ASSUME Init PROVE OInv
  OBVIOUS
<1>1. at \in DOMAIN Edits
  BY ContentQueueAssumption DEF Init
<1>2. Waiting = {}
  BY DEF Init, Waiting, None, Idle
<1> QED
  BY <1>1, <1>2, GInit DEF Init, OInv, Now, Seen, Ordinary, None, Idle, Sending, LeaveQueue

(* No configuration comes back, so each is saved cleanly; and an ordinary  *)
(* generation finds the rotation by Windows over.                          *)
LEMMA OneWayIsClean == ASSUME OneWay, OInv, Next PROVE NoStray /\ CleanReturn
<1>1. CleanReturn
  <2> SUFFICES ASSUME SaveSettings PROVE CleanReturn
    BY DEF CleanReturn
  <2>1. config' \notin Saved
    BY SaveFacts DEF OInv
  <2>2. ~Knows(config')
    BY <2>1 DEF OInv, Seen, Knows
  <2> QED BY <2>1, <2>2 DEF OInv, Seen, CleanReturn
<1>2. NoStray
  <2> SUFFICES ASSUME AdmitOrdinary PROVE NoStray
    BY DEF NoStray
  <2>1. PICK f \in Current : Begin(f, None)
    BY DEF AdmitOrdinary
  <2>2. Parted
    BY DEF AdmitOrdinary, OInv, Ordinary
  <2>3. ~f.native
    <3>1. CASE config = Off
      BY <2>1, <3>1 DEF Current, Wallpaper
    <3>2. CASE config # Off
      <4>1. f = FrameOf(published, 1)
        BY <2>1, <3>2 DEF Current
      <4>2. published.config \notin Native
        BY <2>2, <3>2 DEF Parted
      <4>3. f.native = (published.config \in Native)
        BY <4>1 DEF FrameOf
      <4> QED BY <4>2, <4>3
    <3> QED BY <3>1, <3>2
  <2>4. config \notin Native
    BY <2>2, AtFacts DEF Parted, OInv
  <2>5. ~Knows(config)
    BY <2>4 DEF OInv, GInv, Work, Knows
  <2>6. worker'.frame = f
    BY <2>1 DEF Begin
  <2> QED BY <2>3, <2>5, <2>6 DEF NoStray
<1> QED BY <1>1, <1>2

LEMMA OSave == ASSUME OneWay, OInv, SaveSettings PROVE Now' /\ Seen' /\ Ordinary'
<1>1. /\ Saved \subseteq Saved' /\ Saved' = Saved \cup {config'}
      /\ at' \in DOMAIN Edits /\ config # Off /\ config \in Saved
      /\ config' \in Native => Saved \subseteq Native
  BY SaveFacts DEF OInv
<1>2. UNCHANGED <<poll, published, delta, ui, pending, worker, shown>>
  BY DEF SaveSettings, pollVars
<1>3. UNCHANGED <<Waiting, Sending>>
  BY <1>2 DEF Waiting, Sending
<1>4. Seen'
  BY <1>1, <1>2, <1>3 DEF OInv, Seen
<1>5. Parted => Parted'
  BY <1>1, <1>2 DEF Parted
<1>6. config' # Off /\ published.config \in Saved' \ Native =>
        published.config \in Saved \ Native
  BY <1>1 DEF OInv, Seen
<1>7. Ordinary'
  BY <1>1, <1>2, <1>5, <1>6 DEF OInv, Ordinary
<1> QED BY <1>1, <1>4, <1>7 DEF Now

LEMMA OAsk == ASSUME OneWay, OInv, PollParts \/ UiParts PROVE Now' /\ Seen' /\ Ordinary'
<1>1. UNCHANGED <<at, delta, worker>>
  BY DEF PollParts, PollRead, PollPublish, PollPlan, PollCheck, PollSubmit, UiParts, UiRequest,
         UiPlan, UiSubmit, sources
<1>2. /\ config \in Saved /\ Off \notin Native
      /\ config # Off => Off \notin Saved
      /\ config \in Native => Saved \subseteq Native
  BY AtFacts DEF OInv
<1>3. UNCHANGED <<Saved, config, Sending>>
  BY <1>1 DEF Saved, config, Sending
<1>4. Now'
  BY <1>1 DEF OInv, Now
<1>5. Parted => Parted'
  <2>1. CASE PollPublish
    BY <1>3, <2>1 DEF Parted, PollPublish, OInv, Ordinary, Seen
  <2>2. CASE ~PollPublish
    BY <1>3, <2>2 DEF Parted, PollParts, PollRead, PollPlan, PollCheck, PollSubmit, UiParts,
                      UiRequest, UiPlan, UiSubmit, pollVars
  <2> QED BY <2>1, <2>2
<1>6. (/\ delta.known => delta.layout \in Saved
       /\ Sending /\ worker.frame.native => worker.frame.layout \in Saved
       /\ worker.stage = "ordinary" => Parted)'
  BY <1>1, <1>3, <1>5 DEF OInv, Seen, Ordinary
<1> USE <1>1, <1>2, <1>3, <1>5, <1>6 DEF Waiting
<1>7. CASE PollRead
  <2>1. /\ poll'.pc = "publish" /\ poll'.batch.config = config /\ poll'.batch.due = {}
        /\ UNCHANGED <<published, ui, pending>>
    BY <1>7 DEF PollRead, Compose
  <2>2. Seen'
    BY <2>1 DEF OInv, Seen
  <2>3. Ordinary'
    BY <2>1 DEF OInv, Seen, Ordinary
  <2> QED BY <1>4, <2>2, <2>3
<1>8. CASE PollPublish
  <2>1. /\ poll.pc = "publish" /\ published' = poll.batch /\ poll'.batch = poll.batch
        /\ poll'.pc = IF poll.batch.config \in Native THEN "plan" ELSE "check"
        /\ UNCHANGED <<ui, pending>>
    BY <1>8 DEF PollPublish, PollAt
  <2>2. Seen'
    BY <2>1 DEF OInv, GInv, Plans, Seen
  <2>3. poll.batch.config \notin Native => Parted'
    BY <2>1 DEF Parted, OInv, Seen
  <2>4. Ordinary'
    BY <2>1, <2>3 DEF OInv, Ordinary
  <2> QED BY <1>4, <2>2, <2>4
<1>9. CASE PollPlan
  <2>1. /\ poll.pc = "plan" /\ poll'.pc = "check" /\ poll'.batch = Plan(poll.batch, FALSE)
        /\ poll.batch.config \in Native
        /\ UNCHANGED <<published, ui, pending>>
    BY <1>9 DEF PollPlan, OInv, GInv, Plans
  <2>2. poll'.batch.config = poll.batch.config
    BY <2>1 DEF Plan
  <2>3. Seen'
    BY <2>1, <2>2 DEF OInv, Seen
  <2>4. Ordinary'
    BY <2>1, <2>2 DEF OInv, Ordinary
  <2> QED BY <1>4, <2>3, <2>4
<1>10. CASE PollCheck
  <2>1. /\ poll.pc = "check" /\ poll'.batch = poll.batch /\ poll'.pc \in {"submit", "idle"}
        /\ UNCHANGED <<published, ui, pending>>
    BY <1>10 DEF PollCheck, PollAt
  <2>2. poll'.pc = "submit" /\ poll.batch.config \in Native => poll.batch.due # {}
    BY <1>10 DEF PollCheck, PollAt, SomethingToSend
  <2>3. Seen'
    BY <2>1 DEF OInv, Seen
  <2>4. Ordinary'
    BY <2>1, <2>2 DEF OInv, Ordinary
  <2> QED BY <1>4, <2>3, <2>4
<1>11. CASE PollSubmit
  <2>1. /\ poll.pc = "submit" /\ poll'.pc = "idle" /\ UNCHANGED <<published, ui>>
        /\ pending'.batch = IF poll.batch.config \in Native THEN poll.batch ELSE None
    BY <1>11 DEF PollSubmit, PollAt, Replace
  <2>2. Seen'
    BY <2>1 DEF OInv, Seen, None
  <2>3. Ordinary'
    BY <2>1 DEF OInv, Ordinary
  <2> QED BY <1>4, <2>2, <2>3
<1>12. CASE UiRequest
  <2>1. /\ ui'.pc = "plan" /\ ui'.batch = published /\ UNCHANGED <<poll, published, pending>>
        /\ config # Off => published.config # Off
    BY <1>12 DEF UiRequest, pollVars
  <2>2. Seen'
    BY <2>1 DEF OInv, Seen
  <2>3. published.config \notin Native => Parted
    BY <2>1 DEF Parted, OInv, Seen
  <2>4. Ordinary'
    BY <2>1, <2>3 DEF OInv, Ordinary
  <2> QED BY <1>4, <2>2, <2>4
<1>13. CASE UiPlan
  <2>1. /\ ui.pc = "plan" /\ ui'.pc = "submit" /\ UNCHANGED <<poll, published, pending>>
        /\ ui'.batch = IF ui.batch.config \in Native THEN Plan(ui.batch, TRUE) ELSE None
    BY <1>13 DEF UiPlan, pollVars
  <2>2. ui'.batch.due # {} => ui'.batch.config \in Saved
    BY <2>1 DEF OInv, Seen, Plan, None
  <2>3. ui'.batch.due = {} => Parted
    BY <2>1, ForcedPlan DEF OInv, Ordinary
  <2>4. Seen'
    BY <2>1, <2>2 DEF OInv, Seen
  <2>5. Ordinary'
    BY <2>1, <2>3 DEF OInv, Ordinary
  <2> QED BY <1>4, <2>4, <2>5
<1>14. CASE UiSubmit
  <2>1. /\ ui.pc = "submit" /\ ui'.pc = "idle" /\ pending'.batch = ui.batch
        /\ UNCHANGED <<poll, published>>
    BY <1>14 DEF UiSubmit, Replace, pollVars
  <2>2. Seen'
    BY <2>1 DEF OInv, Seen
  <2>3. Ordinary'
    BY <2>1 DEF OInv, Ordinary
  <2> QED BY <1>4, <2>2, <2>3
<1> QED
  BY <1>7, <1>8, <1>9, <1>10, <1>11, <1>12, <1>13, <1>14 DEF PollParts, UiParts

LEMMA OWork ==
    ASSUME OneWay, OInv, WorkParts \/ Acknowledge
    PROVE  Now' /\ Seen' /\ Ordinary'
<1>1. UNCHANGED <<at, poll, published, ui>>
  BY DEF WorkParts, Take, Admit, AdmitOrdinary, Reject, Clear, Update, GenerationFails, Acknowledge,
         sources, pollVars
<1>2. UNCHANGED <<Saved, config>> /\ Parted' = Parted
  BY <1>1 DEF Saved, config, Parted
<1>3. pending'.queued => pending' = pending
  BY DEF WorkParts, Take, Admit, AdmitOrdinary, Reject, Clear, Update, GenerationFails, Acknowledge
<1>4. Ordinary'
  <2>1. worker'.stage = "ordinary" => Parted
    <3>1. CASE Take
      BY <3>1 DEF Take, OInv, Ordinary
    <3>2. CASE ~Take
      BY <3>2 DEF WorkParts, Admit, AdmitOrdinary, Reject, Clear, Update, GenerationFails,
                  Acknowledge, Begin, StopBatch, Idle, WorkerAt
    <3> QED BY <3>1, <3>2
  <2> QED BY <1>1, <1>2, <1>3, <2>1 DEF OInv, Ordinary
<1>5. \A x \in Waiting' : x.config \in Saved
  <2> SUFFICES ASSUME NEW x \in Waiting', x \notin Waiting PROVE x.config \in Saved
    BY DEF OInv, Seen
  <2>1. x = worker'.batch /\ worker'.stage = "admit" /\ x.due # {}
    BY <1>1, <1>3 DEF Waiting
  <2>2. CASE Take
    BY <2>1, <2>2 DEF Take, Waiting
  <2>3. CASE Acknowledge
    <3>1. x = worker.batch /\ worker.stage = "ack"
      BY <2>1, <2>3 DEF Acknowledge, WorkerAt, Idle
    <3>2. worker.frame.native /\ worker.batch.config = worker.frame.layout
      BY <2>1, <3>1 DEF OInv, GInv, Work, Sending
    <3> QED BY <3>1, <3>2 DEF OInv, Seen, Sending
  <2>4. CASE WorkParts /\ ~Take
    BY <2>1, <2>4 DEF WorkParts, Admit, AdmitOrdinary, Reject, Clear, Update, GenerationFails,
                      Begin, StopBatch, Idle, WorkerAt
  <2> QED BY <2>2, <2>3, <2>4
<1>6. delta'.known => delta'.layout \in Saved
  BY DEF OInv, Seen, WorkParts, Take, Admit, AdmitOrdinary, Reject, Clear, Update, GenerationFails,
         Acknowledge, Ack, LeaveQueue, Sending
<1>7. Sending' /\ worker'.frame.native => worker'.frame.layout \in Saved
  <2>1. CASE Admit
    <3>1. PICK i \in worker.batch.due : worker'.frame = FrameOf(worker.batch, i)
      BY <2>1 DEF Admit, Begin
    <3>2. worker'.frame.layout = worker.batch.config
      BY <3>1 DEF FrameOf
    <3> QED BY <2>1, <3>1, <3>2, AtFacts DEF Admit, OInv
  <2>2. CASE AdmitOrdinary
    <3>1. PICK f \in Current : Begin(f, None)
      BY <2>2 DEF AdmitOrdinary
    <3>2. worker'.frame = f
      BY <3>1 DEF Begin
    <3>3. f = Wallpaper \/ (f = FrameOf(published, 1) /\ published.config # Off)
      BY <3>1 DEF Current
    <3>4. CASE f = Wallpaper
      BY <3>2, <3>4 DEF Wallpaper
    <3>5. CASE f = FrameOf(published, 1) /\ published.config # Off
      <4>1. f.layout = published.config
        BY <3>5 DEF FrameOf
      <4> QED BY <3>2, <3>5, <4>1 DEF OInv, Seen
    <3> QED BY <3>3, <3>4, <3>5
  <2>3. CASE Clear \/ Update
    BY <2>3 DEF Clear, Update, WorkerAt, OInv, Seen, Sending
  <2>4. CASE Take \/ Reject \/ GenerationFails \/ Acknowledge
    BY <2>4 DEF Take, Reject, GenerationFails, Acknowledge, StopBatch, Idle, WorkerAt, Sending
  <2> QED BY <2>1, <2>2, <2>3, <2>4 DEF WorkParts
<1>8. Seen'
  BY <1>1, <1>2, <1>5, <1>6, <1>7 DEF OInv, Seen
<1> QED BY <1>1, <1>4, <1>8 DEF OInv, Now

LEMMA OStep == ASSUME OneWay, OInv, [Next]_vars PROVE OInv'
<1>1. GInv'
  BY OneWayIsClean, GStep DEF OInv
<1>2. Now' /\ Seen' /\ Ordinary'
  <2>1. CASE UNCHANGED <<at, published, delta, poll, ui, pending, worker>>
    BY <2>1 DEF OInv, Now, Seen, Ordinary, Parted, Saved, config, Sending, Waiting
  <2>2. CASE (\E t \in Tags : ItemChanges(t)) \/ CooldownEnds \/ UNCHANGED vars
    BY <2>1, <2>2 DEF ItemChanges, CooldownEnds, vars, pollVars, sources
  <2>3. PollStep \/ UiRequest \/ UiStep => PollParts \/ UiParts
    BY DEF PollStep, PollParts, UiStep, UiParts
  <2>4. WorkerStep \/ GenerationFails => WorkParts \/ Acknowledge
    BY DEF WorkerStep, WorkParts
  <2> QED BY <2>2, <2>3, <2>4, OSave, OAsk, OWork DEF Next
<1> QED BY <1>1, <1>2 DEF OInv

(***************************************************************************)
(* For settings that go one way no further condition is needed: Windows'   *)
(* rotations first, each once, then app rotation, then perhaps nothing.    *)
(***************************************************************************)
THEOREM OneWayGhostless == ASSUME OneWay PROVE Spec => []NoGhost
<1>1. OInv /\ [Next]_vars => [NoStray /\ CleanReturn]_vars
  BY OneWayIsClean
<1>2. Spec => [][NoStray /\ CleanReturn]_vars
  BY OInit, OStep, <1>1, PTL DEF Spec
<1> QED BY <1>2, Ghostless, PTL
=============================================================================
