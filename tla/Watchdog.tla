------------------------------- MODULE Watchdog -------------------------------
(***************************************************************************)
(* The supervision of the bot's process:                                   *)
(* src/legacy/discord-ha-bot-starter/src/runtime/watchdogCore.ts with the  *)
(* process of src/watchdog.ts around it.  JavaScript runs to completion,   *)
(* so an action is one callback: the module's top level, a timer, an event *)
(* of a child, a signal.  A child is a slot of Procs: the handle the       *)
(* callbacks are bound to and, when the launch succeeded, a process.       *)
(* How long a run lasted (60 s) is a choice made when its exit is          *)
(* reported; the delay before a restart is any time.  SIGKILL always ends  *)
(* a process, sooner or later.                                             *)
(***************************************************************************)
EXTENDS Naturals, FiniteSets

CONSTANTS Procs,         \* child handles that can exist at once
          MaxRestarts,   \* 10 in the code
          None

ASSUME RestartsAssumption == MaxRestarts \in Nat
ASSUME NoneAssumption == None \notin Procs \cup {0, 1}

VARIABLES
  \* the Watchdog object
  due,          \* start() will be called: at the end of "boot", by the restart "timer"
  child, stopping, finished, restartCount, stopCode,
  forceTimer,
  exitCode,     \* of the watchdog's process, when it has ended
  \* child handles and their processes
  proc,         \* "free", "unlaunched" (no pid), "up", "dead" (exit not reported)
  code,         \* exit code of a dead process
  asked,        \* "no", "polite" (message or SIGTERM), "kill"
  listens,      \* its once("error") listener has not fired
  reported      \* its exited callback has run

watchVars == <<due, child, stopping, finished, restartCount, stopCode, forceTimer, exitCode>>
procVars == <<proc, code, asked, listens, reported>>
vars == <<due, child, stopping, finished, restartCount, stopCode, forceTimer, exitCode,
          proc, code, asked, listens, reported>>

Codes == {0, 1, 75}

Up == {p \in Procs : proc[p] = "up"}

Init == /\ due = "boot" /\ child = None /\ stopping = FALSE /\ finished = FALSE
        /\ restartCount = 0 /\ stopCode = 0 /\ forceTimer = FALSE /\ exitCode = None
        /\ proc = [p \in Procs |-> "free"] /\ code = [p \in Procs |-> 0]
        /\ asked = [p \in Procs |-> "no"] /\ listens = [p \in Procs |-> FALSE]
        /\ reported = [p \in Procs |-> FALSE]

---------------------------------------------------------------------------
(* finish and exited.  Both leave the handles to their caller.             *)

Finish(c) == /\ finished' = TRUE /\ exitCode' = c
             /\ due' = "none" /\ forceTimer' = FALSE

\* Mutant: a self-update's exit is a crash.
BugIsIntended(c) == c = 0

IsIntended(c) == c \in {0, 75}

TooMany(count) == count > MaxRestarts

\* Mutant: the process ends before the timer.
BugSchedulesRestart == due' = "none" /\ UNCHANGED <<finished, exitCode, forceTimer>>

\* The timer is referenced: it keeps the watchdog's process alive.
SchedulesRestart == due' = "timer" /\ UNCHANGED <<finished, exitCode, forceTimer>>

\* exited: a child has ended, or could not be launched.
Exited(c, long) ==
  LET count == (IF long THEN 0 ELSE restartCount) + 1 IN
  /\ UNCHANGED <<stopping, stopCode>>
  /\ IF stopping THEN Finish(stopCode) /\ UNCHANGED restartCount
     ELSE IF IsIntended(c) THEN Finish(0) /\ UNCHANGED restartCount
     ELSE /\ restartCount' = count
          /\ IF TooMany(count) THEN Finish(1) ELSE SchedulesRestart

\* Mutant: the handle of the child that ended is kept.
BugChildExited(p, c, long) ==
  IF reported[p] THEN UNCHANGED <<watchVars, reported>>
  ELSE /\ reported' = [reported EXCEPT ![p] = TRUE]
       /\ UNCHANGED child
       /\ Exited(c, long)

\* The callback of one handle: at most once, and it drops the handle.
ChildExited(p, c, long) ==
  IF reported[p] THEN UNCHANGED <<watchVars, reported>>
  ELSE /\ reported' = [reported EXCEPT ![p] = TRUE]
       /\ child' = IF child = p THEN None ELSE child
       /\ Exited(c, long)

---------------------------------------------------------------------------
(* start.  It would return at once for a stopped watchdog or one with a    *)
(* child; RestartIsForNobody says that it is never called then.            *)

Starting == ~finished /\ due # "none" /\ ~stopping /\ child = None

Spawn(p) ==
  /\ Starting /\ proc[p] = "free"
  /\ due' = "none" /\ child' = p
  /\ \E outcome \in {"up", "unlaunched"} : proc' = [proc EXCEPT ![p] = outcome]
  /\ asked' = [asked EXCEPT ![p] = "no"]
  /\ listens' = [listens EXCEPT ![p] = TRUE]
  /\ reported' = [reported EXCEPT ![p] = FALSE]
  /\ UNCHANGED <<stopping, finished, restartCount, stopCode, forceTimer, exitCode, code>>

SpawnThrows == /\ Starting
               /\ Exited(1, FALSE)
               /\ UNCHANGED <<child, procVars>>

---------------------------------------------------------------------------
(* stop and the force timer                                                *)

Stop(c) ==
  /\ ~stopping /\ ~finished /\ due # "boot"
  /\ stopping' = TRUE /\ stopCode' = c
  /\ UNCHANGED <<child, restartCount, proc, code, listens, reported>>
  /\ IF child = None THEN Finish(c) /\ UNCHANGED asked
     ELSE /\ due' = "none" /\ forceTimer' = TRUE
          /\ asked' = [asked EXCEPT ![child] = "polite"]
          /\ UNCHANGED <<finished, exitCode>>

Escalate ==
  /\ forceTimer /\ ~finished
  /\ forceTimer' = FALSE
  /\ asked' = IF child = None THEN asked ELSE [asked EXCEPT ![child] = "kill"]
  /\ UNCHANGED <<due, child, stopping, finished, restartCount, stopCode, exitCode,
                 proc, code, listens, reported>>

---------------------------------------------------------------------------
(* Events of a child.  The watchdog's process handles none once it ended.  *)

LaunchError(p) ==
  /\ ~finished /\ proc[p] = "unlaunched" /\ listens[p]
  /\ listens' = [listens EXCEPT ![p] = FALSE]
  /\ ChildExited(p, 1, FALSE)
  /\ UNCHANGED <<proc, code, asked>>

\* After a failed launch an exit event may follow; without one, the handle is
\* just dropped.
LateExit(p) ==
  /\ ~finished /\ proc[p] = "unlaunched" /\ ~listens[p]
  /\ proc' = [proc EXCEPT ![p] = "free"]
  /\ ChildExited(p, 1, FALSE)
  /\ UNCHANGED <<code, asked, listens>>

ExitEvent(p) ==
  /\ ~finished /\ proc[p] = "dead"
  /\ proc' = [proc EXCEPT ![p] = "free"]
  /\ \E long \in BOOLEAN : ChildExited(p, code[p], long)
  /\ UNCHANGED <<code, asked, listens>>

\* A signal or the channel failed, on a child that was launched.
ChannelError(p) ==
  /\ ~finished /\ proc[p] \in {"up", "dead"} /\ listens[p]
  /\ listens' = [listens EXCEPT ![p] = FALSE]
  /\ UNCHANGED <<watchVars, proc, code, asked, reported>>

\* once() has removed the listener: a second error event is an uncaught exception.
SecondChannelError(p) ==
  /\ proc[p] \in {"up", "dead"} /\ ~listens[p]
  /\ Stop(1)

---------------------------------------------------------------------------
(* The bot and the operating system                                        *)

Dies(p) == /\ proc[p] = "up"
           /\ proc' = [proc EXCEPT ![p] = "dead"]
           /\ \E c \in Codes : code' = [code EXCEPT ![p] = c]
           /\ UNCHANGED <<watchVars, asked, listens, reported>>

Next ==
  \/ SpawnThrows \/ Escalate
  \/ \E c \in {0, 1} : Stop(c)
  \/ \E p \in Procs : \/ Spawn(p) \/ LaunchError(p) \/ LateExit(p) \/ ExitEvent(p)
                      \/ ChannelError(p) \/ SecondChannelError(p) \/ Dies(p)

\* Timers and events are delivered; SIGKILL works.  Nothing makes a bot that
\* was asked politely end.
Fairness == /\ WF_vars(SpawnThrows \/ \E p \in Procs : Spawn(p))
            /\ WF_vars(Escalate)
            /\ \A p \in Procs : /\ WF_vars(LaunchError(p)) /\ WF_vars(ExitEvent(p))
                                /\ WF_vars(LateExit(p))
                                /\ WF_vars(asked[p] = "kill" /\ Dies(p))

Spec == Init /\ [][Next]_vars
FairSpec == Spec /\ Fairness

---------------------------------------------------------------------------
(* Properties                                                              *)

TypeOK == /\ due \in {"boot", "timer", "none"} /\ child \in Procs \cup {None}
          /\ stopping \in BOOLEAN /\ finished \in BOOLEAN /\ forceTimer \in BOOLEAN
          /\ restartCount \in 0..(MaxRestarts + 1)
          /\ stopCode \in {0, 1} /\ exitCode \in {0, 1, None}
          /\ proc \in [Procs -> {"free", "unlaunched", "up", "dead"}]
          /\ code \in [Procs -> Codes] /\ asked \in [Procs -> {"no", "polite", "kill"}]
          /\ listens \in [Procs -> BOOLEAN] /\ reported \in [Procs -> BOOLEAN]

\* However errors, exits, timers and stops interleave, there is one bot at
\* most, and it is the one the watchdog holds: none is launched beside a live
\* one and none is forgotten (start, exited).
OneBot == \A p \in Procs : proc[p] = "up" => child = p

\* When the watchdog's process ends by itself no bot is left behind (finish).
EndsAlone == finished => \A p \in Procs : proc[p] # "up"

\* A restart is never pending beside a child or after a stop was begun, so no
\* timer can bring a bot back that was stopped (stop, exited).
RestartIsForNobody == due = "timer" => child = None /\ ~stopping /\ ~finished

\* Every handle reports once: the exits counted are exits that happened.
\* A handle is either held, or it has reported.
HeldOrReported ==
  \A p \in Procs : proc[p] # "free" => (reported[p] <=> child # p)

\* The bot as the supervisor promises to manage it.
BotState == IF Up # {} THEN "running"
            ELSE IF child = None THEN "none"
            ELSE IF proc[child] # "dead" THEN "none"
            ELSE IF code[child] \in {0, 75} THEN "left" ELSE "crashed"
PhaseState == IF finished THEN "ended" ELSE IF stopping THEN "stopping" ELSE "watching"
ResultState == IF finished THEN exitCode ELSE IF stopping THEN stopCode ELSE None

Promise == INSTANCE Supervisor WITH
  bot <- BotState, phase <- PhaseState, fails <- restartCount, result <- ResultState,
  Undecided <- None

\* The watchdog implements the supervisor: intended exits end it, crashes are
\* replaced within the budget, nothing is launched once it is stopping.
ImplementsSupervisor == Promise!Spec

\* A bot that ended is replaced, or the supervision ends.
CrashIsAnswered == (child # None /\ proc[child] = "dead") ~> (Up # {} \/ finished)
===============================================================================
