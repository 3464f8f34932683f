------------------------------ MODULE NodeUpdate ------------------------------
(***************************************************************************)
(* How one node of the Discord bot takes releases: the self_update         *)
(* commands queued for it (commands/clusterUpdate.ts), the bot's command   *)
(* loop (computerAgent.ts), the staged release and its detached helper     *)
(* (selfUpdate.ts), the exit code and the single-instance endpoint         *)
(* (index.ts), and the watchdogs.  A watchdog takes the steps of           *)
(* Supervisor here; that the code's watchdog takes no others is shown by   *)
(* Watchdog.  All under src/legacy/discord-ha-bot-starter.                 *)
(*                                                                         *)
(* A command is the release it carries.  The live files are the set of     *)
(* releases they come from, {} while none is complete.  Staging (download, *)
(* hash, build, migrations) is one step that succeeds or fails; the        *)
(* database answers.  Of the bot only what an update touches is kept.  A   *)
(* helper may fail at every step: nobody starts it again.                  *)
(***************************************************************************)
EXTENDS Naturals, FiniteSets

CONSTANTS Cmds,          \* self_update commands queued for this node
          MaxWatchdogs,  \* watchdogs that can be started
          Old,           \* the release installed at first
          Unset,
          Restarts,      \* of a watchdog, see Watchdog
          MaxCrashes,    \* bots that end with an error
          MaxFailures,   \* stagings and helpers that fail
          MaxStops,      \* stops by the user
          SlowHelper     \* a helper may need more than its 5 s to get ready

ASSUME CommandsAreFinite == IsFiniteSet(Cmds) /\ Old \notin Cmds
ASSUME UnsetAssumption == Unset \notin Cmds /\ Unset \notin Nat
ASSUME WatchdogsAssumption == MaxWatchdogs \in Nat \ {0}
ASSUME BoundsAssumption == /\ Restarts \in Nat /\ MaxCrashes \in Nat
                           /\ MaxFailures \in Nat /\ MaxStops \in Nat /\ SlowHelper \in BOOLEAN

Slots == 1..MaxWatchdogs

VARIABLES
  row,                       \* computer_commands.status
  used,                      \* watchdogs started
  bot, phase, fails, result, \* the watchdog of each slot, as in Supervisor
  \* the bot a watchdog runs
  stage,                     \* "boot", "serving", "closing"
  exit,                      \* the exit code shutdown was given
  image,                     \* the files it was loaded from
  job, step,                 \* execute: the command, and "preparing" or "completing" it
  endpoint,                  \* the slot whose bot holds the single-instance endpoint
  \* an update after its command was completed
  by,                        \* the slot whose bot prepared it
  timer,                     \* in that bot: "armed", "waiting" for the helper, "restart"
  helper, requester,         \* the helper; does the bot that spawned it still run?
  live, backup,              \* src, sql, dist; the backup-current directory
  aborted,                   \* updates that were given up
  crashes, failures, stops

watch == <<used, bot, phase, fails, result>>
prog == <<stage, exit, image, job, step, endpoint>>
update == <<by, timer, helper, requester, aborted>>
files == <<live, backup>>
budget == <<crashes, failures, stops>>
nodeVars == <<row, used, bot, phase, fails, result, stage, exit, image, job, step, endpoint,
              by, timer, helper, requester, aborted, live, backup, crashes, failures, stops>>

Running(w) == bot[w] = "running"
Copying == {c \in Cmds : helper[c] \in {"copying", "restoring"}}
Whole == Cardinality(live) = 1 /\ Copying = {}

NodeInit ==
  /\ row = [c \in Cmds |-> "pending"]
  /\ used = {1}
  /\ bot = [w \in Slots |-> "none"] /\ phase = [w \in Slots |-> "watching"]
  /\ fails = [w \in Slots |-> 0] /\ result = [w \in Slots |-> Unset]
  /\ stage = [w \in Slots |-> "boot"] /\ exit = [w \in Slots |-> 0]
  /\ image = [w \in Slots |-> {}] /\ job = [w \in Slots |-> Unset]
  /\ step = [w \in Slots |-> "idle"] /\ endpoint = Unset
  /\ by = [c \in Cmds |-> Unset] /\ timer = [c \in Cmds |-> "none"]
  /\ helper = [c \in Cmds |-> "none"] /\ requester = [c \in Cmds |-> FALSE]
  /\ aborted = {} /\ live = {Old} /\ backup = {}
  /\ crashes = 0 /\ failures = 0 /\ stops = 0

---------------------------------------------------------------------------
(* The watchdog of a slot: the supervisor's steps, without its resets of the *)
(* failures after a long run.                                              *)

Launch(w) ==
  /\ w \in used /\ phase[w] = "watching" /\ bot[w] = "none"
  /\ bot' = [bot EXCEPT ![w] = "running"]
  /\ stage' = [stage EXCEPT ![w] = "boot"]
  /\ image' = [image EXCEPT ![w] = IF Whole THEN live ELSE {}]
  /\ UNCHANGED <<row, used, phase, fails, result, exit, job, step, endpoint, update, files, budget>>

\* Mutant: the exit for a self-update is taken for a crash.
BugIntended == {0}

Intended == {0, 75}

Notice(w) ==
  /\ bot[w] \in {"left", "crashed"}
  /\ bot' = [bot EXCEPT ![w] = "none"]
  /\ \/ /\ phase[w] = "stopping"
        /\ phase' = [phase EXCEPT ![w] = "ended"]
        /\ UNCHANGED <<fails, result>>
     \/ /\ phase[w] = "watching" /\ bot[w] = "left"
        /\ phase' = [phase EXCEPT ![w] = "ended"]
        /\ result' = [result EXCEPT ![w] = 0]
        /\ UNCHANGED fails
     \/ /\ phase[w] = "watching" /\ bot[w] = "crashed"
        /\ fails' = [fails EXCEPT ![w] = @ + 1]
        /\ IF fails[w] < Restarts THEN UNCHANGED <<phase, result>>
           ELSE /\ phase' = [phase EXCEPT ![w] = "ended"]
                /\ result' = [result EXCEPT ![w] = 1]
  /\ UNCHANGED <<row, used, prog, update, files, budget>>

---------------------------------------------------------------------------
(* The bot's process                                                       *)

\* shutdown: the first call decides the exit code.
Shutdown(w, code) ==
  IF stage[w] = "closing" THEN UNCHANGED <<stage, exit>>
  ELSE stage' = [stage EXCEPT ![w] = "closing"] /\ exit' = [exit EXCEPT ![w] = code]

\* main: a duplicate leaves on purpose; files that are not whole do not load.
Boot(w) ==
  /\ Running(w) /\ stage[w] = "boot"
  /\ \/ /\ image[w] # {} /\ endpoint = Unset
        /\ endpoint' = w /\ stage' = [stage EXCEPT ![w] = "serving"] /\ UNCHANGED exit
     \/ /\ image[w] # {} /\ endpoint # Unset
        /\ Shutdown(w, 0) /\ UNCHANGED endpoint
     \/ /\ image[w] = {}
        /\ Shutdown(w, 1) /\ UNCHANGED endpoint
  /\ UNCHANGED <<row, watch, image, job, step, update, files, budget>>

\* With the process go its endpoint, the command in hand and its timers.
Gone(w, how) ==
  /\ bot' = [bot EXCEPT ![w] = how]
  /\ endpoint' = IF endpoint = w THEN Unset ELSE endpoint
  /\ job' = [job EXCEPT ![w] = Unset] /\ step' = [step EXCEPT ![w] = "idle"]
  /\ timer' = [c \in Cmds |-> IF by[c] = w THEN "none" ELSE timer[c]]
  /\ requester' = [c \in Cmds |-> requester[c] /\ by[c] # w]
  /\ UNCHANGED <<row, used, phase, fails, result, stage, exit, image, by, helper, aborted, files>>

Exits(w) == /\ Running(w) /\ stage[w] = "closing"
            /\ Gone(w, IF exit[w] \in Intended THEN "left" ELSE "crashed")
            /\ UNCHANGED budget

BotCrashes(w) == /\ Running(w) /\ crashes < MaxCrashes
                 /\ crashes' = crashes + 1
                 /\ Gone(w, "crashed")
                 /\ UNCHANGED <<failures, stops>>

\* The user stops the watchdog, which asks its bot to shut down.
UserStop(w) ==
  /\ w \in used /\ phase[w] = "watching" /\ stops < MaxStops
  /\ stops' = stops + 1
  /\ phase' = [phase EXCEPT ![w] = IF bot[w] = "none" THEN "ended" ELSE "stopping"]
  /\ result' = [result EXCEPT ![w] = 0]
  /\ IF Running(w) THEN Shutdown(w, 0) ELSE UNCHANGED <<stage, exit>>
  /\ UNCHANGED <<row, used, bot, fails, image, job, step, endpoint, update, files, crashes, failures>>

---------------------------------------------------------------------------
(* Commands: claimNext, execute, complete                                  *)

ClaimUpdate(w, c) ==
  /\ Running(w) /\ endpoint = w /\ step[w] = "idle" /\ row[c] = "pending"
  /\ row' = [row EXCEPT ![c] = "claimed"]
  /\ job' = [job EXCEPT ![w] = c] /\ step' = [step EXCEPT ![w] = "preparing"]
  /\ UNCHANGED <<watch, stage, exit, image, endpoint, update, files, budget>>

Prepare(w) ==
  /\ Running(w) /\ step[w] = "preparing"
  /\ step' = [step EXCEPT ![w] = "completing"]
  /\ UNCHANGED <<row, watch, stage, exit, image, job, endpoint, update, files, budget>>

PrepareFails(w) ==
  /\ Running(w) /\ step[w] = "preparing" /\ failures < MaxFailures
  /\ failures' = failures + 1
  /\ row' = [row EXCEPT ![job[w]] = "failed"]
  /\ job' = [job EXCEPT ![w] = Unset] /\ step' = [step EXCEPT ![w] = "idle"]
  /\ UNCHANGED <<watch, stage, exit, image, endpoint, update, files, crashes, stops>>

\* The row is completed first; then the deferred action arms its timer.
CompleteUpdate(w) ==
  /\ Running(w) /\ step[w] = "completing"
  /\ row' = [row EXCEPT ![job[w]] = "completed"]
  /\ by' = [by EXCEPT ![job[w]] = w] /\ timer' = [timer EXCEPT ![job[w]] = "armed"]
  /\ job' = [job EXCEPT ![w] = Unset] /\ step' = [step EXCEPT ![w] = "idle"]
  /\ UNCHANGED <<watch, stage, exit, image, endpoint, helper, requester, aborted, files, budget>>

---------------------------------------------------------------------------
(* The deferred action, in the bot that prepared the update                *)

SpawnHelper(c) ==
  /\ timer[c] = "armed"
  /\ timer' = [timer EXCEPT ![c] = "waiting"]
  /\ helper' = [helper EXCEPT ![c] = "spawned"]
  /\ requester' = [requester EXCEPT ![c] = TRUE]
  /\ UNCHANGED <<row, watch, prog, by, aborted, files, budget>>

SeesReady(c) ==
  /\ timer[c] = "waiting" /\ helper[c] \notin {"spawned", "stillborn"}
  /\ timer' = [timer EXCEPT ![c] = "restart"]
  /\ UNCHANGED <<row, watch, prog, by, helper, requester, aborted, files, budget>>

\* The helper did not write its marker within 5 s; it is not ended.
Abort(c) ==
  /\ timer[c] = "waiting"
  /\ helper[c] = "stillborn" \/ (SlowHelper /\ helper[c] = "spawned")
  /\ timer' = [timer EXCEPT ![c] = "none"]
  /\ aborted' = aborted \cup {c}
  /\ UNCHANGED <<row, watch, prog, by, helper, requester, files, budget>>

RequestRestart(c) ==
  /\ timer[c] = "restart"
  /\ timer' = [timer EXCEPT ![c] = "none"]
  /\ Shutdown(by[c], 75)
  /\ UNCHANGED <<row, watch, image, job, step, endpoint, by, helper, requester, aborted, files, budget>>

---------------------------------------------------------------------------
(* The helper: apply-update.cjs                                            *)

HelperTo(c, from, to) ==
  /\ helper[c] = from
  /\ helper' = [helper EXCEPT ![c] = to]
  /\ UNCHANGED <<row, watch, prog, by, timer, requester, aborted>>

Ready(c) == HelperTo(c, "spawned", "waitBot") /\ UNCHANGED <<files, budget>>

\* Mutant: does not wait for the bot that spawned it.
BugSeesBotGone(c) ==
  HelperTo(c, "waitBot", "waitWatchdog") /\ UNCHANGED <<files, budget>>

SeesBotGone(c) ==
  ~requester[c] /\ HelperTo(c, "waitBot", "waitWatchdog") /\ UNCHANGED <<files, budget>>

\* After 10 s it goes on beside a watchdog that is still there; a watchdog that
\* only has to end because its bot left has done so by then.
SeesWatchdogGone(c) ==
  /\ HelperTo(c, "waitWatchdog", "saving")
  /\ \/ phase[by[c]] = "ended"
     \/ phase[by[c]] = "watching" /\ bot[by[c]] # "left"
  /\ UNCHANGED <<files, budget>>

Save(c) == /\ HelperTo(c, "saving", "saved")
           /\ backup' = live
           /\ UNCHANGED <<live, budget>>

Delete(c) == /\ HelperTo(c, "saved", "copying")
             /\ live' = {}
             /\ UNCHANGED <<backup, budget>>

Copy(c) == /\ HelperTo(c, "copying", "replaced")
           /\ live' = live \cup {c}
           /\ UNCHANGED <<backup, budget>>

\* The roll-back brings back what was saved; the exception ends the helper.
Restore(c) == /\ HelperTo(c, "restoring", "over")
              /\ live' = backup
              /\ UNCHANGED <<backup, budget>>

OneMoreFailure == /\ failures < MaxFailures /\ failures' = failures + 1
         /\ UNCHANGED <<crashes, stops>>

\* An exception, or the end of its process, before or after the exchange ends
\* the helper; nobody starts the bot in its place.
HelperFails(c) ==
  /\ OneMoreFailure /\ UNCHANGED live
  /\ \/ HelperTo(c, "spawned", "stillborn") /\ UNCHANGED backup
     \/ HelperTo(c, "saving", "over") /\ backup' = {}
     \/ /\ \E from \in {"waitBot", "waitWatchdog", "saved", "replaced"} : HelperTo(c, from, "over")
        /\ UNCHANGED backup

\* Mutant: the exception is not caught.
BugCopyFails(c) == OneMoreFailure /\ HelperTo(c, "copying", "over") /\ UNCHANGED files

\* An exception in the replacement leads to the roll-back.
CopyFails(c) == OneMoreFailure /\ HelperTo(c, "copying", "restoring") /\ UNCHANGED files

\* The process ends in mid-replacement: no release is complete.
Breaks(c) == OneMoreFailure /\ HelperTo(c, "copying", "lost") /\ live' = {} /\ UNCHANGED backup

\* The roll-back throws as well, which nothing guards; a cause like a full disk
\* needs no second failure of the budget.
RestoreFails(c) == /\ HelperTo(c, "restoring", "lost")
                   /\ live' = {}
                   /\ UNCHANGED <<backup, budget>>

\* A new watchdog, with the new files; they are numbered as they come.
StartWatchdog(c, w) ==
  /\ helper[c] = "replaced" /\ w \notin used /\ \A v \in Slots \ used : w <= v
  /\ helper' = [helper EXCEPT ![c] = "over"]
  /\ used' = used \cup {w}
  /\ UNCHANGED <<row, bot, phase, fails, result, prog, by, timer, requester, aborted, files, budget>>

---------------------------------------------------------------------------

Bot(w) == Boot(w) \/ Exits(w) \/ Prepare(w) \/ CompleteUpdate(w)
Apply(c) == SpawnHelper(c) \/ SeesReady(c) \/ RequestRestart(c)
Helper(c) == \/ Ready(c) \/ SeesBotGone(c) \/ SeesWatchdogGone(c)
             \/ Save(c) \/ Delete(c) \/ Copy(c) \/ Restore(c)
             \/ \E w \in Slots : StartWatchdog(c, w)

NodeNext ==
  \/ \E w \in Slots : \/ Launch(w) \/ Notice(w) \/ Bot(w) \/ BotCrashes(w) \/ UserStop(w)
                      \/ PrepareFails(w) \/ \E c \in Cmds : ClaimUpdate(w, c)
  \/ \E c \in Cmds : Apply(c) \/ Abort(c) \/ Helper(c)
                     \/ HelperFails(c) \/ CopyFails(c) \/ Breaks(c) \/ RestoreFails(c)

\* Timers, events and processes run; the loop polls for commands.  Of a watchdog,
\* its bot and the bot's loop one is due at a time.
NodeFairness ==
  /\ \A w \in Slots : WF_nodeVars(\/ Launch(w) \/ Notice(w) \/ Bot(w)
                                 \/ \E c \in Cmds : ClaimUpdate(w, c))
  /\ \A c \in Cmds : WF_nodeVars(Apply(c)) /\ WF_nodeVars(Helper(c))

NodeSpec == NodeInit /\ [][NodeNext]_nodeVars
NodeFairSpec == NodeSpec /\ NodeFairness

---------------------------------------------------------------------------
(* Properties                                                              *)

Releases == Cmds \cup {Old}
NodeTyped ==
  /\ row \in [Cmds -> {"pending", "claimed", "completed", "failed"}]
  /\ used \subseteq Slots
  /\ bot \in [Slots -> {"none", "running", "left", "crashed"}]
  /\ phase \in [Slots -> {"watching", "stopping", "ended"}]
  /\ fails \in [Slots -> 0..(Restarts + 1)] /\ result \in [Slots -> {0, 1, Unset}]
  /\ stage \in [Slots -> {"boot", "serving", "closing"}] /\ exit \in [Slots -> {0, 1, 75}]
  /\ image \in [Slots -> SUBSET Releases]
  /\ job \in [Slots -> Cmds \cup {Unset}]
  /\ step \in [Slots -> {"idle", "preparing", "completing"}]
  /\ endpoint \in Slots \cup {Unset}
  /\ by \in [Cmds -> Slots \cup {Unset}]
  /\ timer \in [Cmds -> {"none", "armed", "waiting", "restart"}]
  /\ helper \in [Cmds -> {"none", "spawned", "waitBot", "waitWatchdog", "saving", "saved",
                          "copying", "restoring", "replaced", "over", "stillborn", "lost"}]
  /\ requester \in [Cmds -> BOOLEAN] /\ aborted \subseteq Cmds
  /\ live \subseteq Releases /\ backup \subseteq Releases
  /\ crashes \in 0..MaxCrashes /\ failures \in 0..MaxFailures /\ stops \in 0..MaxStops

\* No release reaches the live files unless its command is on record as
\* completed, whatever crashed or was aborted on the way (execute: complete,
\* then deferredAction).
AppliedIsCompleted == \A c \in Cmds : c \in live => row[c] = "completed"

\* As long as a single update has been started, a whole release can be had
\* whenever no helper is exchanging the files: the live files themselves, also
\* after a replacement that failed (roll-back), or the snapshot beside them if
\* the helper was lost in mid-exchange.
Started == {c \in Cmds : helper[c] # "none"}
Lost == \E c \in Cmds : helper[c] = "lost"
WholeWhenQuiet == Copying = {} /\ Cardinality(Started) <= 1 =>
                    Cardinality(IF Lost THEN backup ELSE live) = 1

\* The types, the record and the files together: a node never has half of an
\* update.
NoHalfUpdate == NodeTyped /\ AppliedIsCompleted /\ WholeWhenQuiet

\* Without crashes and with a single update started, no bot is ever loaded from
\* files that are being exchanged: exit code 75 has ended the watchdog before
\* (shutdown, Watchdog.exited, the helper's two waits).
LoadsWholeFiles ==
  [][crashes = 0 /\ Cardinality(Started) <= 1 =>
       \A w \in Slots : ~Running(w) /\ Running(w)' => Whole]_nodeVars

\* The other side of it: no file is exchanged under a running bot.  Without
\* crashes and with a single update started, the bot that runs was loaded from
\* the files as they are (the helper's first wait, the single spawn).
RunsWhatIsInstalled ==
  crashes = 0 /\ Cardinality(Started) <= 1 =>
    \A w \in Slots : Running(w) => image[w] = live /\ Copying = {}

GaveUp == \E w \in used : result[w] = 1

\* After whatever crashes, the node ends up served by one bot, every other
\* watchdog has ended, unless one has spent its restarts, was stopped by the
\* user, or an update failed (watchdog, endpoint, helper together).
NodeIsServed == <>[]( \/ GaveUp \/ stops > 0 \/ failures > 0
                      \/ \E w \in Slots : /\ endpoint = w /\ stage[w] = "serving"
                                         /\ \A v \in used \ {w} : phase[v] = "ended" )

---------------------------------------------------------------------------
(* Promises of the documents that the code breaks; the README says how.     *)

\* README-V0.5.1: an update queued for a node is applied when its agent is back.
EveryCommandEnds == \A c \in Cmds : row[c] = "claimed" ~> row[c] \in {"completed", "failed"}

\* selfUpdate.ts: an update whose helper did not answer in time is aborted.
AbortedIsNotApplied == \A c \in aborted : c \notin live

\* README-V0.5.1.5: a replacement keeps a snapshot to roll back to.
SnapshotIsWhole == Copying # {} => Cardinality(backup) = 1

\* README-V0.5.3: an exit no longer leaves the node offline.
FailedUpdateIsServed == <>[](\E w \in Slots : endpoint = w /\ stage[w] = "serving")
===============================================================================
