---------------------------- MODULE BotProofs -------------------------------
(***************************************************************************)
(* Proofs about the bot's Watchdog, NodeUpdate and ComputerCommands, for   *)
(* every value of their constants.                                         *)
(*                                                                         *)
(* Watchdog: the inductive invariant IInv adds to the checked ones that    *)
(* the handle the watchdog holds has not reported (HeldIsOpen), that a     *)
(* handle that failed to launch has used up its listener exactly when it   *)
(* has reported (UnlaunchedReports), and that supervision ends holding     *)
(* nothing, at the latest when the budget is spent (EndsEmpty,             *)
(* WithinBudget).                                                          *)
(*                                                                         *)
(* NodeUpdate (NodeIInv) and ComputerCommands (CommandsIInv): the sections *)
(* below say what their invariants add.                                    *)
(***************************************************************************)
EXTENDS Watchdog, NodeUpdate, ComputerCommands, FiniteSetTheorems, TLAPS

HeldIsOpen == child # None => proc[child] # "free" /\ ~reported[child]
UnlaunchedReports == \A p \in Procs : proc[p] = "unlaunched" => (reported[p] <=> ~listens[p])
EndsEmpty == finished => child = None
WithinBudget == ~finished => restartCount <= MaxRestarts

IInv == /\ TypeOK /\ OneBot /\ RestartIsForNobody /\ HeldOrReported
        /\ HeldIsOpen /\ UnlaunchedReports /\ EndsEmpty /\ WithinBudget

---------------------------------------------------------------------------
(* The inductive invariant.                                                *)

\* What the end of a child leaves in the watchdog's own variables.
LEMMA ExitedFrame ==
  ASSUME TypeOK, ~finished, WithinBudget, NEW c, NEW long, Exited(c, long)
  PROVE  /\ due' \in {"boot", "timer", "none"} /\ finished' \in BOOLEAN
         /\ forceTimer' \in BOOLEAN /\ restartCount' \in 0..(MaxRestarts + 1)
         /\ exitCode' \in {0, 1, None}
         /\ stopping' = stopping /\ stopCode' = stopCode
         /\ due' = "timer" => ~stopping /\ ~finished'
         /\ ~finished' => restartCount' <= MaxRestarts
<1>0. /\ due \in {"boot", "timer", "none"} /\ finished \in BOOLEAN /\ forceTimer \in BOOLEAN
      /\ exitCode \in {0, 1, None} /\ stopCode \in {0, 1} /\ restartCount \in Nat
      /\ restartCount <= MaxRestarts /\ MaxRestarts \in Nat /\ stopping' = stopping
      /\ stopCode' = stopCode
  BY RestartsAssumption DEF TypeOK, WithinBudget, Exited
<1>1. CASE stopping \/ IsIntended(c)
  <2>1. /\ restartCount' = restartCount /\ \E x \in {0, stopCode} : Finish(x)
    BY <1>1 DEF Exited
  <2>2. /\ finished' = TRUE /\ exitCode' \in {0, 1, None} /\ due' = "none"
        /\ forceTimer' = FALSE
    BY <1>0, <2>1 DEF Finish
  <2>3. restartCount' \in 0..(MaxRestarts + 1)
    BY <1>0, <2>1
  <2>4. QED
    BY <1>0, <2>2, <2>3
<1>2. CASE ~(stopping \/ IsIntended(c))
  <2> DEFINE count == (IF long THEN 0 ELSE restartCount) + 1
  <2>1. count \in 0..(MaxRestarts + 1)
    BY <1>0
  <2>2. /\ restartCount' = count
        /\ IF count > MaxRestarts THEN Finish(1) ELSE SchedulesRestart
    BY <1>2 DEF Exited, TooMany
  <2> HIDE DEF count
  <2>3. CASE count > MaxRestarts
    BY <1>0, <1>2, <2>1, <2>2, <2>3 DEF Finish
  <2>4. CASE ~(count > MaxRestarts)
    BY <1>0, <1>2, <2>1, <2>2, <2>4 DEF SchedulesRestart
  <2>5. QED
    BY <2>3, <2>4
<1>3. QED
  BY <1>1, <1>2

LEMMA IndInit == Init => IInv
<1> SUFFICES ASSUME Init PROVE IInv
  OBVIOUS
<1>1. TypeOK
  <2>1. restartCount \in 0..(MaxRestarts + 1)
    BY RestartsAssumption DEF Init
  <2>2. QED
    BY <2>1 DEF Init, TypeOK, Codes
<1>2. QED
  BY <1>1, RestartsAssumption DEF Init, IInv, OneBot, RestartIsForNobody, HeldOrReported, HeldIsOpen, UnlaunchedReports, EndsEmpty, WithinBudget

LEMMA TypeStep == IInv /\ [Next]_vars => TypeOK'
<1> SUFFICES ASSUME IInv, [Next]_vars PROVE TypeOK'
  OBVIOUS
<1>0. TypeOK /\ WithinBudget /\ None \notin Procs
  BY NoneAssumption DEF IInv
<1>1. ASSUME NEW p \in Procs, Spawn(p) PROVE TypeOK'
  BY <1>0, <1>1 DEF Spawn, Starting, TypeOK
<1>2. CASE SpawnThrows
  <2>1. /\ due' \in {"boot", "timer", "none"} /\ finished' \in BOOLEAN
        /\ forceTimer' \in BOOLEAN /\ restartCount' \in 0..(MaxRestarts + 1)
        /\ exitCode' \in {0, 1, None} /\ stopping' = stopping /\ stopCode' = stopCode
    BY <1>0, <1>2, ExitedFrame DEF SpawnThrows, Starting
  <2>2. QED
    BY <1>0, <1>2, <2>1 DEF SpawnThrows, procVars, TypeOK
<1>3. ASSUME NEW c \in {0, 1}, Stop(c) PROVE TypeOK'
  BY <1>0, <1>3 DEF Stop, Finish, TypeOK
<1>4. CASE Escalate
  BY <1>0, <1>4 DEF Escalate, TypeOK
<1>5. ASSUME NEW p \in Procs, NEW c, NEW long, ~finished, ChildExited(p, c, long),
             proc' \in [Procs -> {"free", "unlaunched", "up", "dead"}],
             code' = code, asked' = asked, listens' \in [Procs -> BOOLEAN]
      PROVE  TypeOK'
  <2>1. CASE reported[p]
    BY <1>0, <1>5, <2>1 DEF ChildExited, watchVars, TypeOK
  <2>2. CASE ~reported[p]
    <3>1. /\ due' \in {"boot", "timer", "none"} /\ finished' \in BOOLEAN
          /\ forceTimer' \in BOOLEAN /\ restartCount' \in 0..(MaxRestarts + 1)
          /\ exitCode' \in {0, 1, None} /\ stopping' = stopping /\ stopCode' = stopCode
      BY <1>0, <1>5, <2>2, ExitedFrame DEF ChildExited
    <3>2. child' \in Procs \cup {None} /\ reported' \in [Procs -> BOOLEAN]
      BY <1>0, <1>5, <2>2 DEF ChildExited, TypeOK
    <3>3. QED
      BY <1>0, <1>5, <3>1, <3>2 DEF TypeOK
  <2>3. QED
    BY <2>1, <2>2
<1>6. ASSUME NEW p \in Procs, LaunchError(p) PROVE TypeOK'
  <2>1. /\ proc' \in [Procs -> {"free", "unlaunched", "up", "dead"}]
        /\ code' = code /\ asked' = asked /\ listens' \in [Procs -> BOOLEAN]
    BY <1>0, <1>6 DEF LaunchError, TypeOK
  <2>2. QED
    BY <1>5, <1>6, <2>1 DEF LaunchError
<1>7. ASSUME NEW p \in Procs, LateExit(p) PROVE TypeOK'
  <2>1. /\ proc' \in [Procs -> {"free", "unlaunched", "up", "dead"}]
        /\ code' = code /\ asked' = asked /\ listens' \in [Procs -> BOOLEAN]
    BY <1>0, <1>7 DEF LateExit, TypeOK
  <2>2. QED
    BY <1>5, <1>7, <2>1 DEF LateExit
<1>8. ASSUME NEW p \in Procs, ExitEvent(p) PROVE TypeOK'
  <2>1. /\ proc' \in [Procs -> {"free", "unlaunched", "up", "dead"}]
        /\ code' = code /\ asked' = asked /\ listens' \in [Procs -> BOOLEAN]
    BY <1>0, <1>8 DEF ExitEvent, TypeOK
  <2>2. QED
    BY <1>5, <1>8, <2>1 DEF ExitEvent
<1>9. ASSUME NEW p \in Procs, ChannelError(p) PROVE TypeOK'
  BY <1>0, <1>9 DEF ChannelError, watchVars, TypeOK
<1>10. ASSUME NEW p \in Procs, SecondChannelError(p) PROVE TypeOK'
  BY <1>3, <1>10 DEF SecondChannelError
<1>11. ASSUME NEW p \in Procs, Dies(p) PROVE TypeOK'
  BY <1>0, <1>11 DEF Dies, watchVars, TypeOK
<1>12. CASE UNCHANGED vars
  BY <1>0, <1>12 DEF vars, TypeOK
<1>13. QED
  BY <1>1, <1>2, <1>3, <1>4, <1>6, <1>7, <1>8, <1>9, <1>10, <1>11, <1>12 DEF Next

\* The facts of IInv that are not types.
Safe == /\ OneBot /\ RestartIsForNobody /\ HeldOrReported /\ HeldIsOpen /\ UnlaunchedReports /\ EndsEmpty /\ WithinBudget

LEMMA SafeStep == IInv /\ [Next]_vars => Safe'
<1> SUFFICES ASSUME IInv, [Next]_vars PROVE Safe'
  OBVIOUS
<1> USE DEF Safe, OneBot, RestartIsForNobody, HeldOrReported, HeldIsOpen, UnlaunchedReports, EndsEmpty, WithinBudget
<1>0. /\ None \notin Procs /\ child \in Procs \cup {None} /\ MaxRestarts \in Nat
      /\ proc \in [Procs -> {"free", "unlaunched", "up", "dead"}]
      /\ listens \in [Procs -> BOOLEAN] /\ reported \in [Procs -> BOOLEAN]
  BY NoneAssumption, RestartsAssumption DEF IInv, TypeOK
<1>a. Safe
  BY DEF IInv
<1>1. ASSUME NEW p \in Procs, Spawn(p) PROVE Safe'
  BY <1>0, <1>a, <1>1 DEF Spawn, Starting
<1>2. CASE SpawnThrows
  <2>1. /\ due' = "timer" => ~stopping /\ ~finished'
        /\ stopping' = stopping /\ ~finished' => restartCount' <= MaxRestarts
    BY <1>2, ExitedFrame DEF IInv, SpawnThrows, Starting
  <2>2. QED
    BY <1>0, <1>a, <1>2, <2>1, ExitedFrame DEF IInv, SpawnThrows, procVars, Starting
<1>3. ASSUME NEW c \in {0, 1}, Stop(c) PROVE Safe'
  BY <1>0, <1>a, <1>3 DEF Stop, Finish
<1>4. CASE Escalate
  BY <1>0, <1>a, <1>4 DEF Escalate
<1>5. ASSUME NEW p \in Procs, NEW c, NEW long, ~finished, ~reported[p], proc[p] # "free",
             ChildExited(p, c, long)
      PROVE  /\ child = p /\ child' = None /\ stopping' = stopping
             /\ reported' = [reported EXCEPT ![p] = TRUE]
             /\ due' = "timer" => ~stopping /\ ~finished'
             /\ ~finished' => restartCount' <= MaxRestarts
  <2>1. child = p
    BY <1>a, <1>5
  <2>2. Exited(c, long)
    BY <1>5 DEF ChildExited
  <2>3. /\ stopping' = stopping /\ due' = "timer" => ~stopping /\ ~finished'
        /\ ~finished' => restartCount' <= MaxRestarts
    BY <1>5, <2>2, ExitedFrame DEF IInv
  <2>4. QED
    BY <1>5, <2>1, <2>2, <2>3, ExitedFrame DEF ChildExited, IInv
<1>6. ASSUME NEW p \in Procs, LaunchError(p) PROVE Safe'
  <2>1. ~reported[p] /\ ~finished /\ proc[p] # "free" /\ ChildExited(p, 1, FALSE)
    BY <1>a, <1>6 DEF LaunchError
  <2>2. /\ child = p /\ child' = None /\ stopping' = stopping
        /\ reported' = [reported EXCEPT ![p] = TRUE]
        /\ due' = "timer" => ~stopping /\ ~finished'
        /\ ~finished' => restartCount' <= MaxRestarts
    BY <1>5, <2>1
  <2>3. QED
    BY <1>0, <1>a, <1>6, <2>2 DEF LaunchError
<1>7. ASSUME NEW p \in Procs, LateExit(p) PROVE Safe'
  <2>1. UNCHANGED <<watchVars, reported>>
    BY <1>0, <1>a, <1>7 DEF LateExit, ChildExited
  <2>2. QED
    BY <1>0, <1>a, <1>7, <2>1 DEF LateExit, watchVars
<1>8. ASSUME NEW p \in Procs, ExitEvent(p) PROVE Safe'
  <2>1. CASE reported[p]
    BY <1>0, <1>a, <1>8, <2>1 DEF ExitEvent, ChildExited, watchVars
  <2>2. CASE ~reported[p]
    <3>1. PICK long \in BOOLEAN : ChildExited(p, code[p], long)
      BY <1>8 DEF ExitEvent
    <3>2. ~finished /\ proc[p] # "free"
      BY <1>8 DEF ExitEvent
    <3>3. /\ child = p /\ child' = None /\ stopping' = stopping
          /\ reported' = [reported EXCEPT ![p] = TRUE]
          /\ due' = "timer" => ~stopping /\ ~finished'
          /\ ~finished' => restartCount' <= MaxRestarts
      BY <1>5, <2>2, <3>1, <3>2
    <3>4. QED
      BY <1>0, <1>a, <1>8, <3>3 DEF ExitEvent
  <2>3. QED
    BY <2>1, <2>2
<1>9. ASSUME NEW p \in Procs, ChannelError(p) PROVE Safe'
  BY <1>0, <1>a, <1>9 DEF ChannelError, watchVars
<1>10. ASSUME NEW p \in Procs, SecondChannelError(p) PROVE Safe'
  BY <1>3, <1>10 DEF SecondChannelError
<1>11. ASSUME NEW p \in Procs, Dies(p) PROVE Safe'
  BY <1>0, <1>a, <1>11 DEF Dies, watchVars
<1>12. CASE UNCHANGED vars
  BY <1>0, <1>a, <1>12 DEF vars
<1>13. QED
  BY <1>1, <1>2, <1>3, <1>4, <1>6, <1>7, <1>8, <1>9, <1>10, <1>11, <1>12 DEF Next

LEMMA IndStep == IInv /\ [Next]_vars => IInv'
  BY TypeStep, SafeStep DEF IInv, Safe

THEOREM Invariance == Spec => []IInv
<1>1. QED
  BY IndInit, IndStep, PTL DEF Spec

\* For any number of handles and any budget, the watchdog stays well typed.
THEOREM TypeCorrect == Spec => []TypeOK
<1>1. IInv => TypeOK
  BY DEF IInv
<1>2. QED
  BY Invariance, <1>1, PTL

\* No error, late exit, timer or stop ever makes the watchdog launch a second
\* bot or lose the one it runs.
THEOREM NeverTwoBots == Spec => []OneBot
<1>1. IInv => OneBot
  BY DEF IInv
<1>2. QED
  BY Invariance, <1>1, PTL

\* The watchdog never ends by itself beside a bot.
THEOREM NeverEndsBesideABot == Spec => []EndsAlone
<1>1. IInv => EndsAlone
  BY NoneAssumption DEF IInv, EndsEmpty, OneBot, EndsAlone
<1>2. QED
  BY Invariance, <1>1, PTL

\* No restart is pending beside a child, after a stop or after the end.
THEOREM RestartsAreWanted == Spec => []RestartIsForNobody
<1>1. IInv => RestartIsForNobody
  BY DEF IInv
<1>2. QED
  BY Invariance, <1>1, PTL

\* Every handle reports its end once.
THEOREM ReportsOnce == Spec => []HeldOrReported
<1>1. IInv => HeldOrReported
  BY DEF IInv
<1>2. QED
  BY Invariance, <1>1, PTL


---------------------------------------------------------------------------
(* The watchdog implements the supervisor.                                 *)

\* Under IInv the bot is the process of the handle held.
HeldBot == IF child = None THEN "none"
           ELSE IF proc[child] = "up" THEN "running"
           ELSE IF proc[child] # "dead" THEN "none"
           ELSE IF code[child] \in {0, 75} THEN "left" ELSE "crashed"

LEMMA BotIsHeld == IInv => BotState = HeldBot
<1> SUFFICES ASSUME IInv PROVE BotState = HeldBot
  OBVIOUS
<1>0. OneBot /\ child \in Procs \cup {None} /\ None \notin Procs
  BY NoneAssumption DEF IInv, TypeOK
<1>1. (Up # {}) <=> (child # None /\ proc[child] = "up")
  BY <1>0 DEF OneBot, Up
<1>2. QED
  BY <1>1 DEF BotState, HeldBot

LEMMA BotIsHeldNext == IInv' => BotState' = HeldBot'
<1> SUFFICES ASSUME IInv' PROVE BotState' = HeldBot'
  OBVIOUS
<1>0. OneBot' /\ child' \in Procs \cup {None} /\ None \notin Procs
  BY NoneAssumption DEF IInv, TypeOK
<1>1. (Up' # {}) <=> (child' # None /\ proc'[child'] = "up")
  BY <1>0 DEF OneBot, Up
<1>2. QED
  BY <1>1 DEF BotState, HeldBot

\* The end of a child is what the supervisor does about it.
LEMMA ExitedMaps ==
  ASSUME IInv, ~finished, NEW c, NEW long \in BOOLEAN, Exited(c, long)
  PROVE  /\ stopping => PhaseState = "stopping" /\ PhaseState' = "ended"
                        /\ ResultState' = ResultState /\ restartCount' = restartCount
         /\ ~stopping /\ IsIntended(c) =>
                PhaseState = "watching" /\ Promise!Ends(0) /\ restartCount' = restartCount
         /\ ~stopping /\ ~IsIntended(c) => PhaseState = "watching" /\ Promise!CountsFailure
<1>0. /\ restartCount \in Nat /\ MaxRestarts \in Nat /\ stopping' = stopping
      /\ stopCode' = stopCode
  BY RestartsAssumption DEF IInv, TypeOK, Exited
<1>1. CASE stopping
  BY <1>0, <1>1 DEF Exited, Finish, PhaseState, ResultState
<1>2. CASE ~stopping /\ IsIntended(c)
  BY <1>0, <1>2 DEF Exited, Finish, PhaseState, ResultState, Promise!Ends
<1>3. CASE ~stopping /\ ~IsIntended(c)
  <2> DEFINE n == IF long THEN 0 ELSE restartCount
  <2>1. /\ restartCount' = n + 1 /\ n \in Nat /\ n \in {restartCount, 0}
        /\ IF n + 1 > MaxRestarts THEN Finish(1) ELSE SchedulesRestart
    BY <1>0, <1>3 DEF Exited, TooMany
  <2> HIDE DEF n
  <2>2. PhaseState = "watching" /\ ResultState = None
    BY <1>3 DEF PhaseState, ResultState
  <2>3. IF n < MaxRestarts THEN PhaseState' = PhaseState /\ ResultState' = ResultState
                           ELSE Promise!Ends(1)
    <3>1. CASE n < MaxRestarts
      <4>1. SchedulesRestart
        BY <1>0, <2>1, <3>1
      <4>2. QED
        BY <1>0, <1>3, <2>2, <3>1, <4>1 DEF SchedulesRestart, PhaseState, ResultState
    <3>2. CASE ~(n < MaxRestarts)
      <4>1. Finish(1)
        BY <1>0, <2>1, <3>2
      <4>2. QED
        BY <3>2, <4>1 DEF Finish, PhaseState, ResultState, Promise!Ends
    <3>3. QED
      BY <3>1, <3>2
  <2>4. QED
    BY <1>3, <2>1, <2>2, <2>3 DEF Promise!CountsFailure
<1>4. QED
  BY <1>1, <1>2, <1>3

LEMMA RefineInit == Init => Promise!Init
<1> SUFFICES ASSUME Init PROVE Promise!Init
  OBVIOUS
<1>1. Up = {}
  BY DEF Init, Up
<1>2. QED
  BY <1>1 DEF Init, Promise!Init, BotState, PhaseState, ResultState

LEMMA RefineStep == IInv /\ IInv' /\ [Next]_vars => [Promise!Next]_Promise!vars
<1> SUFFICES ASSUME IInv, IInv', [Next]_vars PROVE [Promise!Next]_Promise!vars
  OBVIOUS
<1>0. /\ None \notin Procs /\ child \in Procs \cup {None}
      /\ proc \in [Procs -> {"free", "unlaunched", "up", "dead"}]
      /\ code \in [Procs -> {0, 1, 75}] /\ restartCount \in Nat
      /\ reported \in [Procs -> BOOLEAN]
  BY NoneAssumption, RestartsAssumption DEF IInv, TypeOK, Codes
<1>a. BotState = HeldBot /\ BotState' = HeldBot'
  BY BotIsHeld, BotIsHeldNext
<1>b. ASSUME UNCHANGED <<HeldBot, PhaseState, ResultState, restartCount>>
      PROVE  [Promise!Next]_Promise!vars
  BY <1>a, <1>b DEF Promise!vars
<1>1. ASSUME NEW p \in Procs, Spawn(p) PROVE [Promise!Next]_Promise!vars
  <2>1. /\ HeldBot = "none" /\ PhaseState = "watching" /\ restartCount <= MaxRestarts
        /\ UNCHANGED <<PhaseState, ResultState, restartCount>>
    BY <1>1 DEF Spawn, Starting, HeldBot, PhaseState, ResultState, IInv, WithinBudget
  <2>2. HeldBot' \in {"running", "none"}
    BY <1>0, <1>1 DEF Spawn, HeldBot
  <2>3. CASE HeldBot' = "running"
    BY <1>a, <2>1, <2>3 DEF Promise!Next, Promise!Launch
  <2>4. CASE HeldBot' = "none"
    BY <1>b, <2>1, <2>4
  <2>5. QED
    BY <2>2, <2>3, <2>4
<1>2. CASE SpawnThrows
  <2>1. ~finished /\ ~stopping /\ child = None /\ child' = None /\ Exited(1, FALSE)
    BY <1>2 DEF SpawnThrows, Starting
  <2>2. PhaseState = "watching" /\ Promise!CountsFailure
    <3>1. ~IsIntended(1) /\ FALSE \in BOOLEAN
      BY DEF IsIntended
    <3>2. QED
      BY <2>1, <3>1, ExitedMaps
  <2>3. BotState = "none" /\ BotState' = "none"
    BY <1>a, <2>1 DEF HeldBot
  <2>4. QED
    BY <2>2, <2>3 DEF Promise!Next, Promise!LaunchFails
<1>3. ASSUME NEW c \in {0, 1}, Stop(c) PROVE [Promise!Next]_Promise!vars
  <2>1. /\ PhaseState = "watching" /\ ResultState' = c /\ HeldBot' = HeldBot
        /\ restartCount' = restartCount
    BY <1>3 DEF Stop, Finish, PhaseState, ResultState, HeldBot
  <2>2. PhaseState' = "stopping" \/ (PhaseState' = "ended" /\ HeldBot = "none")
    BY <1>3 DEF Stop, Finish, PhaseState, HeldBot
  <2>3. Promise!Stop(c)
    BY <1>a, <2>1, <2>2 DEF Promise!Stop
  <2>4. QED
    BY <2>3 DEF Promise!Next
<1>4. CASE Escalate
  BY <1>b, <1>4 DEF Escalate, HeldBot, PhaseState, ResultState
<1>5. ASSUME NEW p \in Procs, NEW c, NEW long \in BOOLEAN, ~finished, ~reported[p],
             ChildExited(p, c, long), proc[p] \in {"unlaunched", "dead"},
             proc[p] = "dead" => c = code[p], proc[p] = "unlaunched" => c = 1
      PROVE  [Promise!Next]_Promise!vars
  <2>1. child = p /\ child' = None /\ Exited(c, long)
    BY <1>5 DEF IInv, HeldOrReported, ChildExited
  <2>2. BotState' = "none" /\ BotState # "running"
    BY <1>0, <1>a, <1>5, <2>1 DEF HeldBot
  <2>3. CASE stopping
    BY <1>5, <2>1, <2>2, <2>3, ExitedMaps DEF Promise!Next, Promise!Stopped
  <2>4. CASE ~stopping /\ IsIntended(c)
    <3>1. BotState = "left"
      BY <1>0, <1>a, <1>5, <2>1, <2>4 DEF HeldBot, IsIntended
    <3>2. QED
      BY <1>5, <2>1, <2>2, <2>4, <3>1, ExitedMaps DEF Promise!Next, Promise!NoticesLeft
  <2>5. CASE ~stopping /\ ~IsIntended(c)
    <3>1. BotState = "crashed" \/ BotState = "none"
      BY <1>0, <1>a, <1>5, <2>1, <2>5 DEF HeldBot, IsIntended
    <3>2. PhaseState = "watching" /\ Promise!CountsFailure
      BY <1>5, <2>1, <2>5, ExitedMaps
    <3>3. QED
      BY <2>2, <3>1, <3>2 DEF Promise!Next, Promise!NoticesCrash, Promise!LaunchFails
  <2>6. QED
    BY <2>3, <2>4, <2>5
<1>6. ASSUME NEW p \in Procs, LaunchError(p) PROVE [Promise!Next]_Promise!vars
  <2>1. ~reported[p] /\ ~finished /\ proc[p] = "unlaunched" /\ ChildExited(p, 1, FALSE)
    BY <1>6 DEF LaunchError, IInv, UnlaunchedReports
  <2>2. QED
    BY <1>5, <2>1
<1>7. ASSUME NEW p \in Procs, LateExit(p) PROVE [Promise!Next]_Promise!vars
  <2>1. reported[p] /\ UNCHANGED <<watchVars, reported>>
    BY <1>0, <1>7 DEF LateExit, ChildExited, IInv, UnlaunchedReports
  <2>2. child # p
    BY <1>0, <2>1 DEF IInv, HeldIsOpen
  <2>3. HeldBot' = HeldBot
    BY <1>0, <1>7, <2>1, <2>2 DEF LateExit, watchVars, HeldBot
  <2>4. QED
    BY <1>b, <2>1, <2>3 DEF watchVars, PhaseState, ResultState
<1>8. ASSUME NEW p \in Procs, ExitEvent(p) PROVE [Promise!Next]_Promise!vars
  <2>1. CASE reported[p]
    <3>1. child # p /\ UNCHANGED watchVars
      BY <1>0, <1>8, <2>1 DEF ExitEvent, ChildExited, IInv, HeldIsOpen
    <3>2. HeldBot' = HeldBot
      BY <1>0, <1>8, <3>1 DEF ExitEvent, watchVars, HeldBot
    <3>3. QED
      BY <1>b, <3>1, <3>2 DEF watchVars, PhaseState, ResultState
  <2>2. CASE ~reported[p]
    <3>1. PICK long \in BOOLEAN : ChildExited(p, code[p], long)
      BY <1>8 DEF ExitEvent
    <3>2. ~finished /\ proc[p] = "dead"
      BY <1>8 DEF ExitEvent
    <3>3. QED
      BY <1>5, <2>2, <3>1, <3>2
  <2>3. QED
    BY <2>1, <2>2
<1>9. ASSUME NEW p \in Procs, ChannelError(p) PROVE [Promise!Next]_Promise!vars
  BY <1>b, <1>9 DEF ChannelError, watchVars, HeldBot, PhaseState, ResultState
<1>10. ASSUME NEW p \in Procs, SecondChannelError(p) PROVE [Promise!Next]_Promise!vars
  BY <1>3, <1>10 DEF SecondChannelError
<1>11. ASSUME NEW p \in Procs, Dies(p) PROVE [Promise!Next]_Promise!vars
  <2>1. child = p /\ child' = child /\ proc' = [proc EXCEPT ![p] = "dead"]
    BY <1>11 DEF IInv, OneBot, Dies, watchVars
  <2>2. HeldBot = "running" /\ HeldBot' \in {"left", "crashed"}
    BY <1>0, <1>11, <2>1 DEF Dies, HeldBot
  <2>3. UNCHANGED <<PhaseState, ResultState, restartCount>>
    BY <1>11 DEF Dies, watchVars, PhaseState, ResultState
  <2>4. QED
    BY <1>a, <2>2, <2>3 DEF Promise!Next, Promise!BotExits
<1>12. CASE UNCHANGED vars
  BY <1>b, <1>12 DEF vars, HeldBot, PhaseState, ResultState
<1>13. QED
  BY <1>1, <1>2, <1>3, <1>4, <1>6, <1>7, <1>8, <1>9, <1>10, <1>11, <1>12 DEF Next

\* The watchdog implements the supervisor, for any number of handles and any
\* budget of restarts.
THEOREM Refinement == Spec => ImplementsSupervisor
<1>1. Spec => []IInv
  BY Invariance
<1>2. QED
  BY RefineInit, RefineStep, <1>1, PTL DEF Spec, ImplementsSupervisor, Promise!Spec
------------------------------------------------------------------------------
(* NodeUpdate: every supervision, every update and every file.  A command    *)
(* in hand, a timer and an endpoint belong to a bot that serves (Served,     *)
(* Deferred); a helper that no longer waits for its bot knows that it left   *)
(* on purpose; what is in the files was completed (FromRecord), and one      *)
(* exchange at a time leaves them whole or empty (Exchanged).                *)

\* The steps of a helper that change files or end it.
Exchange(c) == \/ Save(c) \/ Delete(c) \/ Copy(c) \/ Restore(c)
               \/ HelperFails(c) \/ CopyFails(c) \/ Breaks(c) \/ RestoreFails(c)

Budgeted ==
  \A w \in Slots : /\ phase[w] = "watching" => fails[w] <= Restarts
                   /\ phase[w] = "ended" => bot[w] = "none"

Serves(w) == Running(w) /\ (stage[w] = "serving" \/ (stage[w] = "closing" /\ exit[w] \in {0, 75}))

Served ==
  /\ \A w \in Slots : bot[w] # "none" => w \in used
  /\ endpoint # Unset => Serves(endpoint)
  /\ \A w \in Slots : /\ job[w] # Unset => Serves(w) /\ row[job[w]] = "claimed"
                      /\ step[w] # "idle" => job[w] # Unset
  /\ \A v, w \in Slots : job[v] = job[w] /\ job[v] # Unset => v = w

Deferred ==
  \A c \in Cmds :
    /\ by[c] # Unset => by[c] \in used /\ row[c] = "completed"
    /\ timer[c] # "none" \/ requester[c] => by[c] # Unset /\ Serves(by[c])
    /\ timer[c] = "armed" => helper[c] = "none"
    /\ helper[c] # "none" => by[c] # Unset
    /\ requester[c] => helper[c] \in {"spawned", "stillborn", "waitBot", "over"}

LeftOnPurpose ==
  \A c \in Cmds : helper[c] # "none" /\ ~requester[c] /\ crashes = 0 =>
                    phase[by[c]] = "ended" \/ bot[by[c]] = "left"

OneByOne == used = {1} \/ \E c \in Cmds : helper[c] = "over"

FromRecord == \A c \in Cmds : c \in live \cup backup => row[c] = "completed"

Single(T) == \E r \in Releases : T = {r}

Snapshot == {"saved", "copying", "restoring", "lost"}

Exchanged ==
  Cardinality(Started) <= 1 =>
    /\ Copying = {} /\ ~Lost => Single(live)
    /\ Copying # {} \/ Lost => live = {}
    /\ \A c \in Cmds : helper[c] \in Snapshot => Single(backup)

Installed ==
  crashes = 0 /\ Cardinality(Started) <= 1 =>
    \A w \in Slots : Running(w) => image[w] = live

NodeIInv == /\ NodeTyped /\ Budgeted /\ Served /\ Deferred
            /\ LeftOnPurpose /\ OneByOne /\ FromRecord /\ Exchanged /\ Installed

LEMMA NodeFacts ==
  /\ IsFiniteSet(Cmds) /\ Old \notin Cmds
  /\ Unset \notin Cmds /\ Unset \notin Nat /\ Unset \notin Slots
  /\ Restarts \in Nat /\ MaxCrashes \in Nat /\ MaxFailures \in Nat /\ MaxStops \in Nat
  /\ 1 \in Slots
BY CommandsAreFinite, UnsetAssumption, WatchdogsAssumption, BoundsAssumption DEF Slots

LEMMA NodeInitial == NodeInit => NodeIInv
<1> SUFFICES ASSUME NodeInit PROVE NodeIInv
  OBVIOUS
<1> USE NodeFacts
<1>1. NodeTyped
  <2>1. 0 \in 0..(Restarts + 1) /\ 0 \in 0..MaxCrashes /\ 0 \in 0..MaxFailures /\ 0 \in 0..MaxStops
    OBVIOUS
  <2>2. QED
    BY <2>1 DEF NodeInit, NodeTyped, Releases
<1>2. Budgeted /\ Served /\ Deferred /\ LeftOnPurpose /\ OneByOne
  BY DEF NodeInit, Budgeted, Served, Deferred, LeftOnPurpose, OneByOne
<1>3. FromRecord
  BY DEF NodeInit, FromRecord
<1>4. Exchanged
  BY DEF NodeInit, Exchanged, Snapshot, Lost, Single, Copying, Releases
<1>5. Installed
  BY DEF NodeInit, Installed, Running
<1>6. QED
  BY <1>1, <1>2, <1>3, <1>4, <1>5 DEF NodeIInv

LEMMA NodeTypedStep == NodeTyped /\ Budgeted /\ [NodeNext]_nodeVars => NodeTyped' /\ Budgeted'
<1> SUFFICES ASSUME NodeTyped, Budgeted, [NodeNext]_nodeVars PROVE NodeTyped' /\ Budgeted'
  OBVIOUS
<1> USE NodeFacts DEF NodeTyped, Budgeted, watch, prog, update, files, budget
<1>1. ASSUME NEW w \in Slots, Launch(w) PROVE NodeTyped' /\ Budgeted'
  BY <1>1 DEF Launch
<1>2. ASSUME NEW w \in Slots, Notice(w) PROVE NodeTyped' /\ Budgeted'
  BY <1>2 DEF Notice
<1>3. ASSUME NEW w \in Slots, Boot(w) PROVE NodeTyped' /\ Budgeted'
  BY <1>3 DEF Boot, Shutdown
<1>4. ASSUME NEW w \in Slots, Exits(w) PROVE NodeTyped' /\ Budgeted'
  BY <1>4 DEF Exits, Gone, Running
<1>5. ASSUME NEW w \in Slots, BotCrashes(w) PROVE NodeTyped' /\ Budgeted'
  BY <1>5 DEF BotCrashes, Gone, Running
<1>6. ASSUME NEW w \in Slots, UserStop(w) PROVE NodeTyped' /\ Budgeted'
  BY <1>6 DEF UserStop, Shutdown
<1>7. ASSUME NEW w \in Slots, NEW c \in Cmds, ClaimUpdate(w, c) PROVE NodeTyped' /\ Budgeted'
  BY <1>7 DEF ClaimUpdate
<1>8. ASSUME NEW w \in Slots, Prepare(w) \/ PrepareFails(w) \/ CompleteUpdate(w) PROVE NodeTyped' /\ Budgeted'
  <2>1. CASE Prepare(w)
    BY <2>1 DEF Prepare
  <2>2. CASE PrepareFails(w)
    <3>1. failures' \in 0..MaxFailures
      BY <2>2 DEF PrepareFails
    <3>2. QED
      BY <2>2, <3>1 DEF PrepareFails
  <2>3. CASE CompleteUpdate(w)
    BY <2>3 DEF CompleteUpdate
  <2>4. QED
    BY <1>8, <2>1, <2>2, <2>3
<1>9. ASSUME NEW c \in Cmds, SpawnHelper(c) \/ SeesReady(c) \/ Abort(c) PROVE NodeTyped' /\ Budgeted'
  <2>1. CASE SpawnHelper(c)
    BY <2>1 DEF SpawnHelper
  <2>2. CASE SeesReady(c)
    BY <2>2 DEF SeesReady
  <2>3. CASE Abort(c)
    BY <2>3 DEF Abort
  <2>4. QED
    BY <1>9, <2>1, <2>2, <2>3
<1>10. ASSUME NEW c \in Cmds, RequestRestart(c) PROVE NodeTyped' /\ Budgeted'
  BY <1>10 DEF RequestRestart, Shutdown
<1>11. ASSUME NEW c \in Cmds, Ready(c) \/ SeesBotGone(c) \/ SeesWatchdogGone(c) PROVE NodeTyped' /\ Budgeted'
  BY <1>11 DEF Ready, SeesBotGone, SeesWatchdogGone, HelperTo
<1>12. ASSUME NEW c \in Cmds, Save(c) \/ Delete(c) \/ Copy(c) PROVE NodeTyped' /\ Budgeted'
  BY <1>12 DEF Save, Delete, Copy, HelperTo, Releases
<1>13. ASSUME NEW c \in Cmds, HelperFails(c) \/ CopyFails(c) \/ Breaks(c) \/ Restore(c) \/ RestoreFails(c)
       PROVE  NodeTyped' /\ Budgeted'
  <2>1. CASE Restore(c) \/ RestoreFails(c)
    BY <2>1 DEF Restore, RestoreFails, HelperTo
  <2>2. ASSUME OneMoreFailure PROVE failures' \in 0..MaxFailures /\ UNCHANGED <<crashes, stops>>
    BY <2>2 DEF OneMoreFailure
  <2>3. CASE CopyFails(c) \/ Breaks(c)
    BY <2>2, <2>3 DEF CopyFails, Breaks, HelperTo
  <2>4. CASE HelperFails(c)
    BY <2>2, <2>4 DEF HelperFails, HelperTo
  <2>5. QED
    BY <1>13, <2>1, <2>3, <2>4
<1>14. ASSUME NEW c \in Cmds, NEW w \in Slots, StartWatchdog(c, w) PROVE NodeTyped' /\ Budgeted'
  BY <1>14 DEF StartWatchdog
<1>15. CASE UNCHANGED nodeVars
  BY <1>15 DEF nodeVars
<1>16. QED
  BY <1>1, <1>2, <1>3, <1>4, <1>5, <1>6, <1>7, <1>8, <1>9, <1>10, <1>11, <1>12, <1>13, <1>14, <1>15
     DEF NodeNext, Bot, Apply, Helper

\* Which steps touch a bot's service, a command in hand and the commands' table.
LEMMA ServedStep ==
  NodeTyped /\ Served /\ Deferred /\ [NodeNext]_nodeVars => Served'
<1> SUFFICES ASSUME NodeTyped, Served, Deferred, [NodeNext]_nodeVars PROVE Served'
  OBVIOUS
<1> USE NodeFacts DEF NodeTyped, Served, Serves, Running, watch, prog, update, files, budget
<1>1. ASSUME NEW w \in Slots, Launch(w) PROVE Served'
  BY <1>1 DEF Launch
<1>2. ASSUME NEW w \in Slots, Notice(w) PROVE Served'
  BY <1>2 DEF Notice
<1>3. ASSUME NEW w \in Slots, Boot(w) PROVE Served'
  BY <1>3 DEF Boot, Shutdown
<1>4. ASSUME NEW w \in Slots, NEW how \in {"left", "crashed"}, Running(w), Gone(w, how) PROVE Served'
  BY <1>4 DEF Gone
<1>5. ASSUME NEW w \in Slots, NEW c \in {0, 75}, Shutdown(w, c),
             UNCHANGED <<row, used, bot, image, job, step, endpoint>>
      PROVE  Served'
  BY <1>5 DEF Shutdown
<1>6. ASSUME NEW w \in Slots, UserStop(w) PROVE Served'
  BY <1>5, <1>6 DEF UserStop
<1>7. ASSUME NEW w \in Slots, NEW c \in Cmds, ClaimUpdate(w, c) PROVE Served'
  BY <1>7 DEF ClaimUpdate
<1>8. ASSUME NEW w \in Slots, Prepare(w) PROVE Served'
  BY <1>8 DEF Prepare
<1>9. ASSUME NEW w \in Slots, PrepareFails(w) PROVE Served'
  BY <1>9 DEF PrepareFails
<1>10. ASSUME NEW w \in Slots, CompleteUpdate(w) PROVE Served'
  BY <1>10 DEF CompleteUpdate
<1>11. ASSUME NEW c \in Cmds, RequestRestart(c) PROVE Served'
  BY <1>5, <1>11 DEF RequestRestart, Deferred
<1>12. ASSUME NEW c \in Cmds, NEW w \in Slots, StartWatchdog(c, w) PROVE Served'
  BY <1>12 DEF StartWatchdog
<1>13. CASE UNCHANGED <<row, used, bot, stage, exit, job, step, endpoint>>
  BY <1>13
<1>14. ASSUME NEW c \in Cmds, SpawnHelper(c) \/ SeesReady(c) \/ Abort(c) PROVE Served'
  BY <1>13, <1>14 DEF SpawnHelper, SeesReady, Abort
<1>15. ASSUME NEW c \in Cmds, NEW from, NEW to, HelperTo(c, from, to) PROVE Served'
  BY <1>13, <1>15 DEF HelperTo
<1>16. ASSUME NEW c \in Cmds,
              \/ Ready(c) \/ SeesBotGone(c) \/ SeesWatchdogGone(c)
              \/ Exchange(c)
       PROVE  Served'
  BY <1>15, <1>16 DEF Ready, SeesBotGone, SeesWatchdogGone, Exchange, Save, Delete, Copy, Restore, HelperFails, CopyFails, Breaks, RestoreFails, OneMoreFailure
<1>17. ASSUME NEW w \in Slots, Exits(w) \/ BotCrashes(w) PROVE Served'
  BY <1>4, <1>17 DEF Exits, BotCrashes
<1>18. CASE UNCHANGED nodeVars
  BY <1>13, <1>18 DEF nodeVars
<1>19. QED
  BY <1>1, <1>2, <1>3, <1>6, <1>7, <1>8, <1>9, <1>10, <1>11, <1>12, <1>14, <1>16, <1>17, <1>18
     DEF NodeNext, Bot, Apply, Helper, Exchange

LEMMA DeferredStep ==
  NodeTyped /\ Served /\ Deferred /\ [NodeNext]_nodeVars => Deferred'
<1> SUFFICES ASSUME NodeTyped, Served, Deferred, [NodeNext]_nodeVars PROVE Deferred'
  OBVIOUS
<1> USE NodeFacts DEF NodeTyped, Deferred, Serves, Running, watch, prog, update, files, budget
<1>1. ASSUME NEW w \in Slots, Launch(w) PROVE Deferred'
  BY <1>1 DEF Launch
<1>2. ASSUME NEW w \in Slots, Notice(w) PROVE Deferred'
  BY <1>2 DEF Notice
<1>3. ASSUME NEW w \in Slots, Boot(w) PROVE Deferred'
  BY <1>3 DEF Boot, Shutdown
<1>4. ASSUME NEW w \in Slots, NEW how \in {"left", "crashed"}, Running(w), Gone(w, how) PROVE Deferred'
  <2>1. /\ bot' = [bot EXCEPT ![w] = how]
        /\ timer' = [c \in Cmds |-> IF by[c] = w THEN "none" ELSE timer[c]]
        /\ requester' = [c \in Cmds |-> requester[c] /\ by[c] # w]
        /\ UNCHANGED <<row, used, stage, exit, by, helper>>
    BY <1>4 DEF Gone
  <2>2. \A v \in Slots : v # w => (Serves(v)' <=> Serves(v))
    BY <2>1
  <2>3. \A c \in Cmds : timer'[c] # "none" \/ requester'[c] =>
                           by[c] # w /\ (timer[c] # "none" \/ requester[c])
    BY <2>1
  <2>4. \A c \in Cmds : timer'[c] \in {timer[c], "none"}
    BY <2>1
  <2> HIDE DEF Serves
  <2>5. QED
    BY <2>1, <2>2, <2>3, <2>4
<1>5. ASSUME NEW w \in Slots, NEW c \in {0, 75}, Shutdown(w, c),
             UNCHANGED <<row, used, bot, by, helper, requester>>,
             \A d \in Cmds : timer'[d] \in {timer[d], "none"}
      PROVE  Deferred'
  BY <1>5 DEF Shutdown
<1>6. ASSUME NEW w \in Slots, UserStop(w) PROVE Deferred'
  BY <1>5, <1>6 DEF UserStop
<1>7. ASSUME NEW w \in Slots, NEW c \in Cmds, ClaimUpdate(w, c) PROVE Deferred'
  BY <1>7 DEF ClaimUpdate
<1>8. ASSUME NEW w \in Slots, Prepare(w) PROVE Deferred'
  BY <1>8 DEF Prepare
<1>9. ASSUME NEW w \in Slots, PrepareFails(w) PROVE Deferred'
  BY <1>9 DEF PrepareFails, Served
<1>10. ASSUME NEW w \in Slots, CompleteUpdate(w) PROVE Deferred'
  BY <1>10 DEF CompleteUpdate, Served
<1>11. ASSUME NEW c \in Cmds, RequestRestart(c) PROVE Deferred'
  BY <1>5, <1>11 DEF RequestRestart
<1>12. ASSUME NEW c \in Cmds, NEW w \in Slots, StartWatchdog(c, w) PROVE Deferred'
  BY <1>12 DEF StartWatchdog
<1>13. ASSUME NEW c \in Cmds, SpawnHelper(c) PROVE Deferred'
  BY <1>13 DEF SpawnHelper
<1>14. ASSUME NEW c \in Cmds, SeesReady(c) PROVE Deferred'
  BY <1>14 DEF SeesReady
<1>15. ASSUME NEW c \in Cmds, Abort(c) PROVE Deferred'
  BY <1>15 DEF Abort
<1>16. ASSUME NEW c \in Cmds, Ready(c) PROVE Deferred'
  BY <1>16 DEF Ready, HelperTo
<1>17. ASSUME NEW c \in Cmds,
              NEW from \in {"spawned", "waitBot", "waitWatchdog", "saving", "saved", "copying", "restoring", "replaced"},
              NEW to \in {"stillborn", "waitWatchdog", "saving", "saved", "copying", "restoring", "replaced", "over", "lost"},
              HelperTo(c, from, to),
              requester[c] => to \in {"stillborn", "over"}
       PROVE  Deferred'
  BY <1>17 DEF HelperTo
<1>20. ASSUME NEW c \in Cmds, SeesBotGone(c) \/ SeesWatchdogGone(c) \/ Exchange(c) PROVE Deferred'
  <2>1. CASE SeesBotGone(c)
    BY <1>17, <2>1 DEF SeesBotGone
  <2>2. ASSUME helper[c] \notin {"spawned", "stillborn", "waitBot", "over"} PROVE ~requester[c]
    BY <2>2
  <2>3. CASE SeesWatchdogGone(c)
    <3>1. HelperTo(c, "waitWatchdog", "saving")
      BY <2>3 DEF SeesWatchdogGone
    <3>2. QED
      BY <1>17, <2>2, <3>1 DEF HelperTo
  <2>4. ASSUME NEW from \in {"saving", "saved", "copying", "restoring"},
               NEW to \in {"saved", "copying", "restoring", "replaced", "over", "lost"}, HelperTo(c, from, to)
        PROVE  Deferred'
    <3>1. ~requester[c]
      BY <2>2, <2>4 DEF HelperTo
    <3> HIDE DEF Deferred
    <3>2. QED
      BY <1>17, <2>4, <3>1
  <2>5. CASE Save(c) \/ Delete(c) \/ Copy(c) \/ Restore(c)
    BY <2>4, <2>5 DEF Save, Delete, Copy, Restore
  <2>6. CASE CopyFails(c) \/ Breaks(c) \/ RestoreFails(c)
    BY <2>4, <2>6 DEF CopyFails, Breaks, RestoreFails
  <2>7. CASE HelperFails(c)
    <3>1. \/ HelperTo(c, "spawned", "stillborn") \/ HelperTo(c, "saving", "over")
          \/ \E from \in {"waitBot", "waitWatchdog", "saved", "replaced"} : HelperTo(c, from, "over")
      BY <2>7 DEF HelperFails
    <3>2. QED
      BY <1>17, <3>1
  <2>8. QED
    BY <1>20, <2>1, <2>3, <2>5, <2>6, <2>7 DEF Exchange
<1>18. CASE UNCHANGED nodeVars
  BY <1>18 DEF nodeVars
<1>19. QED
  BY <1>1, <1>2, <1>3, <1>4, <1>6, <1>7, <1>8, <1>9, <1>10, <1>11, <1>12, <1>13, <1>14, <1>15, <1>16, <1>18, <1>20
     DEF NodeNext, Bot, Exits, BotCrashes, Apply, Helper, Exchange

LEMMA LeftStep ==
  NodeTyped /\ Served /\ Deferred /\ LeftOnPurpose /\ [NodeNext]_nodeVars => LeftOnPurpose'
<1> SUFFICES ASSUME NodeTyped, Served, Deferred, LeftOnPurpose, [NodeNext]_nodeVars PROVE LeftOnPurpose'
  OBVIOUS
<1> USE NodeFacts DEF NodeTyped, LeftOnPurpose, watch, prog, update, files, budget
<1>0. \A c \in Cmds : helper[c] # "none" => by[c] \in Slots
  BY DEF Deferred
<1>1. ASSUME NEW w \in Slots, Launch(w) PROVE LeftOnPurpose'
  BY <1>0, <1>1 DEF Launch
<1>2. ASSUME NEW w \in Slots, Notice(w) PROVE LeftOnPurpose'
  BY <1>0, <1>2 DEF Notice
<1>3. ASSUME NEW w \in Slots, Boot(w) PROVE LeftOnPurpose'
  BY <1>3 DEF Boot
<1>4. ASSUME NEW w \in Slots, Exits(w) PROVE LeftOnPurpose'
  <2>1. /\ Running(w) /\ stage[w] = "closing"
        /\ bot' = [bot EXCEPT ![w] = IF exit[w] \in Intended THEN "left" ELSE "crashed"]
        /\ requester' = [c \in Cmds |-> requester[c] /\ by[c] # w]
        /\ UNCHANGED <<phase, by, helper, crashes>>
    BY <1>4 DEF Exits, Gone
  <2>2. ASSUME NEW c \in Cmds, helper'[c] # "none", ~requester'[c], crashes' = 0
        PROVE  phase'[by'[c]] = "ended" \/ bot'[by'[c]] = "left"
    <3>1. CASE requester[c]
      <4>1. by[c] = w
        BY <2>1, <2>2, <3>1
      <4>2. Serves(w)
        BY <3>1, <4>1 DEF Deferred
      <4>3. exit[w] \in Intended
        BY <2>1, <4>2 DEF Serves, Intended
      <4>4. QED
        BY <2>1, <4>1, <4>3
    <3>2. CASE ~requester[c]
      BY <1>0, <2>1, <2>2, <3>2 DEF Running
    <3>3. QED
      BY <3>1, <3>2
  <2>3. QED
    BY <2>2
<1>5. ASSUME NEW w \in Slots, BotCrashes(w) PROVE LeftOnPurpose'
  BY <1>5 DEF BotCrashes
<1>6. ASSUME NEW w \in Slots, UserStop(w) PROVE LeftOnPurpose'
  BY <1>0, <1>6 DEF UserStop
<1>7. ASSUME NEW w \in Slots, CompleteUpdate(w) PROVE LeftOnPurpose'
  <2>1. job[w] \in Cmds /\ by[job[w]] = Unset
    BY <1>7 DEF CompleteUpdate, Served, Deferred
  <2>2. helper[job[w]] = "none"
    BY <2>1 DEF Deferred
  <2>3. QED
    BY <1>7, <2>1, <2>2 DEF CompleteUpdate
<1>8. ASSUME NEW c \in Cmds, SpawnHelper(c) PROVE LeftOnPurpose'
  BY <1>8 DEF SpawnHelper
<1>9. ASSUME NEW c \in Cmds, NEW from, NEW to, HelperTo(c, from, to), from # "none", UNCHANGED crashes
      PROVE  LeftOnPurpose'
  BY <1>9 DEF HelperTo
<1>10. ASSUME NEW c \in Cmds,
              \/ Ready(c) \/ SeesBotGone(c) \/ SeesWatchdogGone(c)
              \/ Exchange(c)
       PROVE  LeftOnPurpose'
  BY <1>9, <1>10 DEF Ready, SeesBotGone, SeesWatchdogGone, Exchange, Save, Delete, Copy, Restore, HelperFails, CopyFails, Breaks, RestoreFails, OneMoreFailure
<1>11. ASSUME NEW c \in Cmds, NEW w \in Slots, StartWatchdog(c, w) PROVE LeftOnPurpose'
  BY <1>11 DEF StartWatchdog
<1>12. CASE UNCHANGED <<bot, phase, by, helper, requester, crashes>>
  BY <1>12
<1>13. ASSUME NEW w \in Slots, NEW c \in Cmds, ClaimUpdate(w, c)
       PROVE  UNCHANGED <<bot, phase, by, helper, requester, crashes>>
  BY <1>13 DEF ClaimUpdate
<1>14. ASSUME NEW w \in Slots, Prepare(w) \/ PrepareFails(w) PROVE UNCHANGED <<bot, phase, by, helper, requester, crashes>>
  BY <1>14 DEF Prepare, PrepareFails
<1>15. ASSUME NEW c \in Cmds, SeesReady(c) \/ Abort(c) \/ RequestRestart(c)
       PROVE  UNCHANGED <<bot, phase, by, helper, requester, crashes>>
  BY <1>15 DEF SeesReady, Abort, RequestRestart
<1>16. CASE UNCHANGED nodeVars
  BY <1>12, <1>16 DEF nodeVars
<1>17. QED
  BY <1>1, <1>2, <1>3, <1>4, <1>5, <1>6, <1>7, <1>8, <1>10, <1>11, <1>12, <1>13, <1>14, <1>15, <1>16
     DEF NodeNext, Bot, Apply, Helper, Exchange

\* A helper is spawned once and ends once; only a helper starts a watchdog.
LEMMA HelperMoves ==
  ASSUME NodeTyped, Deferred, [NodeNext]_nodeVars
  PROVE  \/ UNCHANGED <<helper, used, live, backup>>
         \/ \E c \in Cmds :
               \/ /\ helper[c] \in {"spawned", "waitBot", "waitWatchdog"}
                  /\ helper' = [helper EXCEPT ![c] = helper'[c]]
                  /\ helper'[c] \in {"waitBot", "waitWatchdog", "saving"}
                  /\ UNCHANGED <<used, live, backup>>
               \/ SpawnHelper(c) /\ helper[c] = "none"
               \/ Exchange(c)
               \/ \E w \in Slots : StartWatchdog(c, w)
<1> USE DEF NodeTyped, watch, prog, update, files, budget
<1>1. ASSUME NEW c \in Cmds, Ready(c) \/ SeesBotGone(c) \/ SeesWatchdogGone(c)
      PROVE  /\ helper[c] \in {"spawned", "waitBot", "waitWatchdog"}
             /\ helper' = [helper EXCEPT ![c] = helper'[c]]
             /\ helper'[c] \in {"waitBot", "waitWatchdog", "saving"}
             /\ UNCHANGED <<used, live, backup>>
  BY <1>1 DEF Ready, SeesBotGone, SeesWatchdogGone, HelperTo
<1>2. ASSUME NEW c \in Cmds, SpawnHelper(c) PROVE helper[c] = "none"
  BY <1>2 DEF SpawnHelper, Deferred
<1>3. ASSUME NEW w \in Slots, NEW c \in Cmds, ClaimUpdate(w, c) PROVE UNCHANGED <<helper, used, live, backup>>
  BY <1>3 DEF ClaimUpdate
<1>4. ASSUME NEW w \in Slots,
             \/ Launch(w) \/ Notice(w) \/ Boot(w) \/ Exits(w) \/ BotCrashes(w) \/ UserStop(w)
             \/ Prepare(w) \/ PrepareFails(w) \/ CompleteUpdate(w)
      PROVE  UNCHANGED <<helper, used, live, backup>>
  BY <1>4 DEF Launch, Notice, Boot, Exits, BotCrashes, Gone, UserStop, Prepare, PrepareFails, CompleteUpdate
<1>5. ASSUME NEW c \in Cmds, SeesReady(c) \/ Abort(c) \/ RequestRestart(c)
      PROVE  UNCHANGED <<helper, used, live, backup>>
  BY <1>5 DEF SeesReady, Abort, RequestRestart
<1>6. CASE UNCHANGED nodeVars
  BY <1>6 DEF nodeVars
<1>7. QED
  BY <1>1, <1>2, <1>3, <1>4, <1>5, <1>6 DEF NodeNext, Bot, Apply, Helper, Exchange

LEMMA OneByOneStep == NodeTyped /\ Deferred /\ OneByOne /\ [NodeNext]_nodeVars => OneByOne'
<1> SUFFICES ASSUME NodeTyped, Deferred, OneByOne, [NodeNext]_nodeVars PROVE OneByOne'
  OBVIOUS
<1> USE DEF NodeTyped, OneByOne, watch
<1>1. ASSUME NEW c \in Cmds, NEW w \in Slots, StartWatchdog(c, w) PROVE OneByOne'
  BY <1>1 DEF StartWatchdog
<1>2. CASE UNCHANGED <<helper, used>>
  BY <1>2
<1>3. ASSUME NEW c \in Cmds, helper[c] # "over", helper' = [helper EXCEPT ![c] = helper'[c]], UNCHANGED used
      PROVE  OneByOne'
  BY <1>3
<1>4. ASSUME NEW c \in Cmds, SpawnHelper(c), helper[c] = "none" PROVE OneByOne'
  BY <1>4 DEF SpawnHelper
<1>5. ASSUME NEW c \in Cmds, Exchange(c) PROVE OneByOne'
  BY <1>5 DEF Exchange, Save, Delete, Copy, Restore, HelperFails, CopyFails, Breaks, RestoreFails, OneMoreFailure, HelperTo
<1>6. QED
  BY <1>1, <1>2, <1>3, <1>4, <1>5, HelperMoves

\* A completed command stays so; the files change by what a helper copies.
LEMMA FromRecordStep ==
  NodeTyped /\ Served /\ Deferred /\ FromRecord /\ [NodeNext]_nodeVars => FromRecord'
<1> SUFFICES ASSUME NodeTyped, Served, Deferred, FromRecord, [NodeNext]_nodeVars,
                    NEW c \in Cmds, c \in live' \cup backup'
             PROVE  row'[c] = "completed"
  BY DEF FromRecord
<1> USE DEF NodeTyped, files
<1>1. row[c] = "completed"
  <2>1. ASSUME NEW d \in Cmds, Exchange(d), ~Copy(d) PROVE c \in live \cup backup
    BY <2>1 DEF Exchange, Save, Delete, Restore, HelperFails, CopyFails, Breaks, RestoreFails
  <2>2. ASSUME NEW d \in Cmds, Copy(d) PROVE c \in live \cup backup \/ row[c] = "completed"
    BY <2>2 DEF Copy, HelperTo, Deferred
  <2>3. ASSUME NEW d \in Cmds, SpawnHelper(d) \/ \E w \in Slots : StartWatchdog(d, w) PROVE c \in live \cup backup
    BY <2>3 DEF SpawnHelper, StartWatchdog
  <2>4. c \in live \cup backup \/ row[c] = "completed"
    BY <2>1, <2>2, <2>3, HelperMoves
  <2>5. QED
    BY <2>4 DEF FromRecord
<1>2. \/ UNCHANGED row
      \/ \E w \in Slots : PrepareFails(w) \/ CompleteUpdate(w) \/ \E d \in Cmds : ClaimUpdate(w, d)
  BY DEF NodeNext, nodeVars, Bot, Launch, Notice, Boot, Exits, BotCrashes, Gone, UserStop, Prepare, Apply, Helper,
     SpawnHelper, SeesReady, Abort, RequestRestart, Ready, SeesBotGone, SeesWatchdogGone, Save, Delete, Copy,
     Restore, HelperFails, CopyFails, Breaks, RestoreFails, OneMoreFailure, HelperTo, StartWatchdog
<1>3. ASSUME NEW w \in Slots, PrepareFails(w) \/ CompleteUpdate(w) PROVE row'[c] = "completed"
  BY <1>1, <1>3 DEF PrepareFails, CompleteUpdate, Served
<1>4. ASSUME NEW w \in Slots, NEW d \in Cmds, ClaimUpdate(w, d) PROVE row'[c] = "completed"
  BY <1>1, <1>4 DEF ClaimUpdate
<1>5. QED
  BY <1>1, <1>2, <1>3, <1>4

\* With at most one helper there is no other.
LEMMA OneStarted ==
  ASSUME Cardinality(Started) <= 1, NEW c \in Started, NEW d \in Started
  PROVE  c = d
<1>1. IsFiniteSet(Started) /\ Started # {}
  BY NodeFacts, FS_Subset DEF Started
<1>2. Cardinality(Started) \in Nat /\ Cardinality(Started) # 0
  BY <1>1, FS_CardinalityType, FS_EmptySet
<1>3. Cardinality(Started) = 1
  BY <1>2
<1>4. QED
  BY <1>1, <1>3, FS_Singleton

\* A helper that has started stays started.
LEMMA StartedGrows ==
  ASSUME NodeTyped, Deferred, [NodeNext]_nodeVars, Cardinality(Started') <= 1
  PROVE  Started \subseteq Started' /\ Cardinality(Started) <= 1
<1>1. Started \subseteq Started'
  <2> USE DEF NodeTyped, Started
  <2>1. ASSUME NEW c \in Cmds, NEW w \in Slots, StartWatchdog(c, w) PROVE Started \subseteq Started'
    BY <2>1 DEF StartWatchdog
  <2>2. ASSUME NEW c \in Cmds, SpawnHelper(c) PROVE Started \subseteq Started'
    BY <2>2 DEF SpawnHelper
  <2>3. ASSUME NEW c \in Cmds, Exchange(c)
        PROVE  Started \subseteq Started'
    BY <2>3 DEF Exchange, Save, Delete, Copy, Restore, HelperFails, CopyFails, Breaks, RestoreFails, OneMoreFailure, HelperTo
  <2>4. QED
    BY <2>1, <2>2, <2>3, HelperMoves
<1>2. IsFiniteSet(Started')
  BY NodeFacts, FS_Subset DEF Started
<1>3. Cardinality(Started) <= Cardinality(Started') /\ Cardinality(Started) \in Nat /\ Cardinality(Started') \in Nat
  BY <1>1, <1>2, FS_Subset, FS_CardinalityType
<1>4. QED
  BY <1>1, <1>3

LEMMA ExchangedStep ==
  NodeTyped /\ Deferred /\ Exchanged /\ [NodeNext]_nodeVars => Exchanged'
<1> DEFINE Goal == /\ Copying' = {} /\ ~Lost' => Single(live)'
                   /\ Copying' # {} \/ Lost' => live' = {}
                   /\ \A c \in Cmds : helper'[c] \in Snapshot => Single(backup)'
<1> SUFFICES ASSUME NodeTyped, Deferred, Exchanged, [NodeNext]_nodeVars, Cardinality(Started') <= 1
             PROVE  Goal
  BY DEF Exchanged
<1>1. Cardinality(Started) <= 1
  BY StartedGrows
<1>2. /\ Copying = {} /\ ~Lost => Single(live)
      /\ Copying # {} \/ Lost => live = {}
      /\ \A c \in Cmds : helper[c] \in Snapshot => Single(backup)
  BY <1>1 DEF Exchanged
<1>3. \A c, d \in Cmds : helper[c] # "none" /\ helper[d] # "none" => c = d
  BY <1>1, OneStarted DEF Started
<1> USE DEF NodeTyped, Copying, Lost, Single, Snapshot
<1>4. CASE UNCHANGED <<helper, used, live, backup>>
  BY <1>2, <1>4
\* A step of a helper that is not exchanging and does not begin to.
<1>5. ASSUME NEW c \in Cmds, NEW to, helper[c] \notin {"copying", "restoring", "lost"},
             helper' = [helper EXCEPT ![c] = to],
             to \notin Snapshot, UNCHANGED live, UNCHANGED backup \/ helper[c] = "saving"
      PROVE  Goal
  <2>1. /\ Copying' = Copying /\ (Lost' <=> Lost)
        /\ \A d \in Cmds : helper'[d] \in Snapshot => helper'[d] = helper[d] /\ d # c
    BY <1>5
  <2>2. helper[c] = "saving" => \A d \in Cmds : helper'[d] \notin Snapshot
    BY <1>3, <2>1
  <2>3. QED
    BY <1>2, <1>5, <2>1, <2>2
<1>6. ASSUME NEW c \in Cmds, SpawnHelper(c), helper[c] = "none" PROVE Goal
  <2>1. PICK to \in {"spawned"} : helper' = [helper EXCEPT ![c] = to] /\ UNCHANGED <<live, backup>>
    BY <1>6 DEF SpawnHelper, files
  <2> HIDE DEF Goal
  <2>2. QED
    BY <1>5, <1>6, <2>1
<1>7. ASSUME NEW c \in Cmds, NEW w \in Slots, StartWatchdog(c, w) PROVE Goal
  <2>1. helper[c] = "replaced" /\ helper' = [helper EXCEPT ![c] = "over"] /\ UNCHANGED <<live, backup>>
    BY <1>7 DEF StartWatchdog, files
  <2> HIDE DEF Goal
  <2>2. QED
    BY <1>5, <2>1
<1>8. ASSUME NEW c \in Cmds, Save(c) PROVE Goal
  <2>1. Copying = {} /\ Copying' = {} /\ ~Lost /\ ~Lost'
    BY <1>3, <1>8 DEF Save, HelperTo
  <2>2. QED
    BY <1>2, <1>8, <2>1 DEF Save
<1>9. ASSUME NEW c \in Cmds, Delete(c) PROVE Goal
  <2>1. helper[c] = "saved" /\ helper' = [helper EXCEPT ![c] = "copying"] /\ live' = {} /\ UNCHANGED backup
    BY <1>9 DEF Delete, HelperTo
  <2>2. QED
    BY <1>2, <2>1
\* The exchange ends, well or with the roll-back.
<1>10. ASSUME NEW c \in Cmds, Copy(c) \/ Restore(c) PROVE Goal
  <2>1. /\ helper[c] \in {"copying", "restoring"} /\ helper' = [helper EXCEPT ![c] = helper'[c]]
        /\ helper'[c] \in {"replaced", "over"} /\ UNCHANGED backup
        /\ live' = live \cup {c} \/ live' = backup
    BY <1>10 DEF Copy, Restore, HelperTo
  <2>2. Copying' = {} /\ ~Lost' /\ \A d \in Cmds : helper'[d] \notin Snapshot
    BY <1>3, <2>1
  <2>3. live = {} /\ Single(backup)
    BY <1>2, <2>1
  <2>4. Single(live)'
    BY <2>1, <2>3 DEF Releases
  <2>5. QED
    BY <2>2, <2>4
\* The exchange goes on with the roll-back, or is lost: the snapshot stays.
<1>11. ASSUME NEW c \in Cmds, CopyFails(c) \/ Breaks(c) \/ RestoreFails(c) PROVE Goal
  <2>1. /\ helper[c] \in {"copying", "restoring"} /\ helper' = [helper EXCEPT ![c] = helper'[c]]
        /\ helper'[c] \in {"restoring", "lost"} /\ UNCHANGED backup
        /\ live' = live \/ live' = {}
    BY <1>11 DEF CopyFails, Breaks, RestoreFails, HelperTo, files
  <2>2. live' = {} /\ Single(backup)'
    BY <1>2, <2>1
  <2>3. Copying' # {} \/ Lost'
    BY <2>1
  <2>4. QED
    BY <2>2, <2>3
<1>12. ASSUME NEW c \in Cmds, HelperFails(c) PROVE Goal
  <2>1. /\ helper[c] \in {"spawned", "saving", "waitBot", "waitWatchdog", "saved", "replaced"}
        /\ \E to \in {"stillborn", "over"} : helper' = [helper EXCEPT ![c] = to]
        /\ UNCHANGED live /\ (UNCHANGED backup \/ helper[c] = "saving")
    BY <1>12 DEF HelperFails, HelperTo
  <2> HIDE DEF Goal
  <2>2. QED
    BY <1>5, <2>1
<1>13. QED
  BY <1>4, <1>5, <1>6, <1>7, <1>8, <1>9, <1>10, <1>11, <1>12, HelperMoves DEF Exchange

\* A helper whose bot has left on purpose is alone: as long as nothing crashed
\* and no other helper was started, no bot runs and none is launched before
\* that helper is over.
LEMMA NoneRuns ==
  ASSUME NodeTyped, Budgeted, Served, Deferred, LeftOnPurpose, OneByOne,
         crashes = 0, Cardinality(Started) <= 1,
         NEW c \in Cmds, helper[c] \in Snapshot, NEW w \in Slots
  PROVE  ~Running(w) /\ ~Launch(w)
<1>1. \A d \in Cmds : helper[d] # "over"
  BY OneStarted DEF Started, Snapshot
<1>2. used = {1} /\ by[c] \in used /\ ~requester[c]
  BY <1>1 DEF OneByOne, Deferred, Snapshot
<1>3. phase[by[c]] = "ended" \/ bot[by[c]] = "left"
  BY <1>2 DEF LeftOnPurpose, Snapshot
<1>4. by[c] \in Slots /\ (w \in used => w = by[c])
  BY <1>2 DEF NodeTyped
<1>5. CASE w \in used
  BY <1>3, <1>4, <1>5 DEF Budgeted, Running, Launch
<1>6. CASE w \notin used
  BY <1>6 DEF Served, Running, Launch
<1>7. QED
  BY <1>5, <1>6

\* A bot begins to run by a launch alone.
LEMMA OnlyLaunched ==
  ASSUME NodeTyped, NodeNext, NEW w \in Slots, ~Running(w), Running(w)'
  PROVE  Launch(w)
<1>1. ASSUME NEW v \in Slots, Launch(v) PROVE v = w
  BY <1>1 DEF Launch, Running, NodeTyped
<1>2. ASSUME NEW v \in Slots, Notice(v) PROVE FALSE
  BY <1>2 DEF Notice, Running, NodeTyped
<1>3. ASSUME NEW v \in Slots, Exits(v) \/ BotCrashes(v) PROVE FALSE
  BY <1>3 DEF Exits, BotCrashes, Gone, Running, NodeTyped
<1>4. bot' # bot
  BY DEF Running
<1>5. QED
  BY <1>1, <1>2, <1>3, <1>4 DEF NodeNext, Bot, Boot, UserStop, ClaimUpdate, Prepare, PrepareFails, CompleteUpdate,
    Apply, Helper, SpawnHelper, SeesReady, Abort, RequestRestart, Ready, SeesBotGone, SeesWatchdogGone,
    Save, Delete, Copy, Restore, HelperFails, CopyFails, Breaks, RestoreFails, HelperTo, StartWatchdog, watch

\* What is launched is launched from whole files.
LEMMA LaunchedWhole ==
  ASSUME NodeTyped, Budgeted, Served, Deferred, LeftOnPurpose, OneByOne, Exchanged,
         crashes = 0, Cardinality(Started) <= 1, NEW w \in Slots, Launch(w)
  PROVE  Whole
<1>1. Copying = {} /\ ~Lost
  BY NoneRuns DEF Copying, Lost, Snapshot
<1>2. PICK r \in Releases : live = {r}
  BY <1>1 DEF Exchanged, Single
<1>3. QED
  BY <1>1, <1>2, FS_Singleton DEF Whole

LEMMA InstalledStep ==
  NodeTyped /\ Budgeted /\ Served /\ Deferred /\ LeftOnPurpose /\ OneByOne /\ Exchanged /\ Installed
    /\ [NodeNext]_nodeVars => Installed'
<1> SUFFICES ASSUME NodeTyped, Budgeted, Served, Deferred, LeftOnPurpose, OneByOne, Exchanged, Installed,
                    [NodeNext]_nodeVars, crashes' = 0, Cardinality(Started') <= 1,
                    NEW w \in Slots, Running(w)'
             PROVE  image'[w] = live'
  BY DEF Installed
<1>1. Cardinality(Started) <= 1
  BY StartedGrows
<1>2. UNCHANGED crashes \/ \E v \in Slots : BotCrashes(v)
  BY DEF NodeNext, nodeVars, Bot, Boot, Launch, Notice, Exits, UserStop, ClaimUpdate, Prepare, PrepareFails,
    CompleteUpdate, Apply, Helper, SpawnHelper, SeesReady, Abort, RequestRestart, Ready, SeesBotGone,
    SeesWatchdogGone, Save, Delete, Copy, Restore, HelperFails, CopyFails, Breaks, RestoreFails, OneMoreFailure,
    StartWatchdog, budget
<1>3. crashes = 0
  BY <1>2, NodeFacts DEF BotCrashes, NodeTyped
<1>4. CASE ~Running(w)
  <2>1. Launch(w)
    BY <1>4, OnlyLaunched DEF nodeVars, Running
  <2>2. Whole
    BY <1>1, <1>3, <2>1, LaunchedWhole
  <2>3. QED
    BY <2>1, <2>2 DEF Launch, files, NodeTyped
<1>5. CASE Running(w)
  <2>1. image[w] = live
    BY <1>1, <1>3, <1>5 DEF Installed
  <2>2. image'[w] = image[w]
    <3>1. ASSUME NEW v \in Slots, Launch(v) PROVE image'[w] = image[w]
      BY <1>5, <3>1 DEF Launch, Running, NodeTyped
    <3>2. UNCHANGED image \/ \E v \in Slots : Launch(v)
      BY DEF NodeNext, nodeVars, Bot, Boot, Notice, Exits, BotCrashes, Gone, UserStop, ClaimUpdate, Prepare,
        PrepareFails, CompleteUpdate, Apply, Helper, SpawnHelper, SeesReady, Abort, RequestRestart, Ready,
        SeesBotGone, SeesWatchdogGone, Save, Delete, Copy, Restore, HelperFails, CopyFails, Breaks,
        RestoreFails, HelperTo, StartWatchdog, prog
    <3>3. QED
      BY <3>1, <3>2
  <2>3. \A c \in Cmds : helper[c] \notin Snapshot
    BY <1>1, <1>3, <1>5, NoneRuns
  <2>4. ASSUME NEW c \in Cmds, Exchange(c) PROVE UNCHANGED live
    BY <2>3, <2>4 DEF Exchange, Save, Delete, Copy, Restore, HelperFails, CopyFails, Breaks, RestoreFails,
      HelperTo, Snapshot
  <2>5. ASSUME NEW c \in Cmds, SpawnHelper(c) \/ \E v \in Slots : StartWatchdog(c, v) PROVE UNCHANGED live
    BY <2>5 DEF SpawnHelper, StartWatchdog, files
  <2>6. UNCHANGED live
    BY <2>4, <2>5, HelperMoves
  <2>7. QED
    BY <2>1, <2>2, <2>6
<1>6. QED
  BY <1>4, <1>5

LEMMA NodeInvariance == NodeSpec => []NodeIInv
<1>1. NodeIInv /\ [NodeNext]_nodeVars => NodeIInv'
  BY NodeTypedStep, ServedStep, DeferredStep, LeftStep, OneByOneStep, FromRecordStep, ExchangedStep,
     InstalledStep DEF NodeIInv
<1>2. QED
  BY NodeInitial, <1>1, PTL DEF NodeSpec

\* A node never has half of an update: for any number of commands, watchdogs,
\* crashes, failures and stops the live files hold only releases whose command is
\* on record as completed, and after a single update, whatever failed in it, a
\* whole release can be had whenever no helper is exchanging the files: live, or
\* as the snapshot if the helper was lost in mid-exchange or its roll-back threw.
THEOREM UpdatesAreWhole == NodeSpec => []NoHalfUpdate
<1>1. NodeIInv => NoHalfUpdate
  <2>1. ASSUME NodeIInv, Copying = {}, Cardinality(Started) <= 1
        PROVE  Cardinality(IF Lost THEN backup ELSE live) = 1
    <3>1. \E r \in Releases : (IF Lost THEN backup ELSE live) = {r}
      BY <2>1 DEF NodeIInv, Exchanged, Single, Lost, Snapshot
    <3>2. QED
      BY <3>1, FS_Singleton
  <2>2. QED
    BY <2>1 DEF NodeIInv, NoHalfUpdate, AppliedIsCompleted, FromRecord, WholeWhenQuiet
<1>2. QED
  BY NodeInvariance, <1>1, PTL

\* As long as no bot crashed and a single update was started, no bot is loaded
\* from files that are being exchanged: the watchdog of the bot that left for the
\* update has ended before its helper deletes a file, and starts no other.
THEOREM WholeFilesLoad == NodeSpec => LoadsWholeFiles
<1>1. NodeIInv /\ [NodeNext]_nodeVars =>
        [crashes = 0 /\ Cardinality(Started) <= 1 =>
           \A w \in Slots : ~Running(w) /\ Running(w)' => Whole]_nodeVars
  BY OnlyLaunched, LaunchedWhole DEF NodeIInv
<1>2. QED
  BY NodeInvariance, <1>1, PTL DEF NodeSpec, LoadsWholeFiles

\* Under the same conditions no file is exchanged under a running bot, which was
\* loaded from the files as they are, for any number of failures and stops.
THEOREM InstalledRuns == NodeSpec => []RunsWhatIsInstalled
<1>1. NodeIInv => RunsWhatIsInstalled
  <2> SUFFICES ASSUME NodeIInv, crashes = 0, Cardinality(Started) <= 1, NEW w \in Slots, Running(w)
               PROVE  image[w] = live /\ Copying = {}
    BY DEF RunsWhatIsInstalled
  <2>1. Copying = {}
    BY NoneRuns DEF NodeIInv, Copying, Snapshot
  <2>2. QED
    BY <2>1 DEF NodeIInv, Installed
<1>2. QED
  BY NodeInvariance, <1>1, PTL

------------------------------------------------------------------------------
(* ComputerCommands: the queue, for every number of nodes, users, contents,  *)
(* rows and faults.  A command in hand, or with an outcome on its way, is    *)
(* out of the queue for good, and one node alone works on it (InHand); how   *)
(* often it ran follows from its row and from what is done with it (Counted).*)

Taken == {"claimed", "completed", "failed"}

Busy(n) == agent[n].pc \in {"run", "complete", "defer", "fail"}

InHand ==
  /\ \A n \in Node : Busy(n) =>
       agent[n].cmd \in DOMAIN rows /\ rows[agent[n].cmd].status \in Taken
  /\ \A m, n \in Node : Busy(m) /\ Busy(n) /\ agent[m].cmd = agent[n].cmd => m = n
  /\ \A m \in late : m.cmd \in DOMAIN rows /\ rows[m.cmd].status \in Taken

IsSetting(c) == rows[c].action = "settings"

Untouched(c) == c \notin DOMAIN rows \/ rows[c].status \in {"pending", "expired"}

Counted ==
  /\ AtMostOnce
  /\ \A c \in Row : Untouched(c) => ran[c] = 0
  /\ \A n \in Node : agent[n].pc = "run" => ran[agent[n].cmd] = 0
  /\ \A n \in Node : agent[n].pc \in {"complete", "defer"} =>
       ran[agent[n].cmd] = IF IsSetting(agent[n].cmd) THEN 1 ELSE 0
  /\ \A m \in late : m.status = "completed" /\ IsSetting(m.cmd) => ran[m.cmd] = 1
  /\ \A c \in DOMAIN rows : rows[c].status = "completed" /\ IsSetting(c) => ran[c] = 1

CommandsIInv == CommandsTyped /\ InHand /\ Counted /\ InOrder

LEMMA CommandsFacts ==
  /\ MaxRows \in Nat /\ MaxUploads \in Nat /\ MaxFaults \in Nat /\ NoPackage \in 0..MaxUploads
  /\ {"settings", "sleep", "update"} = Actions
BY CommandsAssumption DEF NoPackage, Actions

LEMMA RowFacts ==
  ASSUME CommandsTyped
  PROVE  /\ DOMAIN rows = 1..Len(rows) /\ Len(rows) \in 0..MaxRows /\ DOMAIN rows \subseteq Row
         /\ \A c \in DOMAIN rows : rows[c] \in Commands
BY CommandsFacts DEF CommandsTyped, Row

LEMMA CommandsInitial == CommandsInit => CommandsIInv
<1> SUFFICES ASSUME CommandsInit PROVE CommandsIInv
  OBVIOUS
<1> USE CommandsFacts
<1>1. rows = <<>> /\ DOMAIN rows = {} /\ Len(rows) = 0 /\ rows \in Seq(Commands)
  BY DEF CommandsInit
<1>2. CommandsTyped
  <2>1. user \in [User -> [pc : {"idle", "prune", "queue"},
                           package : 0 .. MaxUploads, todo : SUBSET Node]]
    BY DEF CommandsInit, Idle
  <2>2. agent \in [Node -> [pc : {"down", "sweep", "claim", "run", "complete",
                                  "defer", "fail"}, cmd : 0 .. MaxRows]]
    BY DEF CommandsInit, At
  <2>3. QED
    BY <1>1, <2>1, <2>2 DEF CommandsInit, CommandsTyped
<1>3. \A n \in Node : agent[n].pc = "down"
  BY DEF CommandsInit, At
<1>4. InHand /\ InOrder
  BY <1>1, <1>3 DEF CommandsInit, InHand, InOrder, Busy
<1>5. Counted
  BY <1>1, <1>3 DEF CommandsInit, Counted, AtMostOnce
<1>6. QED
  BY <1>2, <1>4, <1>5 DEF CommandsIInv

(* What a statement does to the rows.                                        *)

\* The row of c keeps what it asks for, and is due once it was.
Same(c) == /\ rows'[c].node = rows[c].node /\ rows'[c].action = rows[c].action
           /\ rows'[c].package = rows[c].package /\ (rows[c].due => rows'[c].due)

\* A status that is written changes one row, and nothing else of it.
LEMMA RecordStep ==
  ASSUME CommandsTyped, NEW c \in DOMAIN rows, NEW s \in Status, Record(c, s)
  PROVE  /\ rows' \in Seq(Commands) /\ DOMAIN rows' = DOMAIN rows /\ Len(rows') = Len(rows)
         /\ \A d \in DOMAIN rows : Same(d) /\ (d # c => rows'[d] = rows[d])
         /\ rows'[c].status = s /\ rows'[c].due = rows[c].due
<1> USE RowFacts DEF CommandsTyped
<1>1. rows[c] \in Commands /\ [rows[c] EXCEPT !.status = s] \in Commands
  BY DEF Commands
<1>2. rows' = [rows EXCEPT ![c] = [rows[c] EXCEPT !.status = s]]
  BY DEF Record
<1>3. rows' \in Seq(Commands) /\ DOMAIN rows' = DOMAIN rows /\ Len(rows') = Len(rows)
  BY <1>1, <1>2
<1>4. rows'[c] = [rows[c] EXCEPT !.status = s] /\ \A d \in DOMAIN rows : d # c => rows'[d] = rows[d]
  BY <1>2
<1>5. Same(c) /\ rows'[c].status = s /\ rows'[c].due = rows[c].due
  BY <1>1, <1>4 DEF Commands, Same
<1>6. QED
  BY <1>3, <1>4, <1>5 DEF Same

LEMMA DueStep ==
  ASSUME CommandsTyped, NEW c \in Row, Due(c)
  PROVE  /\ rows' \in Seq(Commands) /\ DOMAIN rows' = DOMAIN rows /\ Len(rows') = Len(rows)
         /\ \A d \in DOMAIN rows : Same(d) /\ rows'[d].status = rows[d].status
<1> USE RowFacts DEF CommandsTyped
<1>1. c \in DOMAIN rows /\ rows[c] \in Commands /\ [rows[c] EXCEPT !.due = TRUE] \in Commands
  BY DEF Commands, Due
<1>2. rows' = [rows EXCEPT ![c] = [rows[c] EXCEPT !.due = TRUE]]
  BY DEF Due
<1>3. rows' \in Seq(Commands) /\ DOMAIN rows' = DOMAIN rows /\ Len(rows') = Len(rows)
  BY <1>1, <1>2
<1>4. rows'[c] = [rows[c] EXCEPT !.due = TRUE] /\ \A d \in DOMAIN rows : d # c => rows'[d] = rows[d]
  BY <1>1, <1>2
<1>5. Same(c) /\ rows'[c].status = rows[c].status
  BY <1>1, <1>4 DEF Commands, Same
<1>6. QED
  BY <1>3, <1>4, <1>5 DEF Same

LEMMA ExpiredStep ==
  ASSUME CommandsTyped, rows' = Expired
  PROVE  /\ rows' \in Seq(Commands) /\ DOMAIN rows' = DOMAIN rows /\ Len(rows') = Len(rows)
         /\ \A d \in DOMAIN rows : /\ Same(d) /\ rows'[d].due = rows[d].due
                                   /\ rows[d].status # "pending" \/ ~rows[d].due => rows'[d] = rows[d]
                                   /\ rows[d].status = "pending" /\ rows[d].due => rows'[d].status = "expired"
<1> USE RowFacts DEF CommandsTyped
<1>1. /\ DOMAIN rows' = 1..Len(rows)
      /\ \A d \in DOMAIN rows : rows'[d] = IF rows[d].status = "pending" /\ rows[d].due
                THEN [rows[d] EXCEPT !.status = "expired"] ELSE rows[d]
  BY DEF Expired
<1>2. \A d \in DOMAIN rows : [rows[d] EXCEPT !.status = "expired"] \in Commands
  BY DEF Commands, Status
<1>3. \A d \in DOMAIN rows : rows'[d] \in Commands
  BY <1>1, <1>2
<1>4. rows' \in [1..Len(rows) -> Commands]
  BY <1>1, <1>3 DEF Expired
<1>5. rows' \in Seq(Commands) /\ Len(rows') = Len(rows)
  <2>1. Len(rows) \in Nat
    BY CommandsFacts
  <2>2. QED
    BY <1>4, <2>1
<1>6. ASSUME NEW d \in DOMAIN rows
      PROVE  /\ Same(d) /\ rows'[d].due = rows[d].due
             /\ rows[d].status # "pending" \/ ~rows[d].due => rows'[d] = rows[d]
             /\ rows[d].status = "pending" /\ rows[d].due => rows'[d].status = "expired"
  <2>1. CASE rows[d].status = "pending" /\ rows[d].due
    BY <1>1, <2>1 DEF Same, Commands
  <2>2. CASE ~(rows[d].status = "pending" /\ rows[d].due)
    BY <1>1, <2>2 DEF Same
  <2>3. QED
    BY <2>1, <2>2
<1>7. QED
  BY <1>1, <1>5, <1>6

LEMMA InsertStep ==
  ASSUME CommandsTyped, NEW n \in Node, NEW action \in Actions, NEW package \in 0..MaxUploads,
         Insert(n, action, package)
  PROVE  /\ rows' \in Seq(Commands) /\ Len(rows') = Len(rows) + 1 /\ Len(rows') <= MaxRows
         /\ DOMAIN rows' = DOMAIN rows \cup {Len(rows) + 1}
         /\ \A d \in DOMAIN rows : rows'[d] = rows[d]
         /\ rows'[Len(rows) + 1].status = "pending"
<1> USE RowFacts, CommandsFacts DEF CommandsTyped
<1> DEFINE new == [node |-> n, action |-> action, package |-> package,
                   status |-> "pending", due |-> FALSE]
<1>1. new \in Commands /\ new.status = "pending"
  BY DEF Commands, Status
<1>2. rows' = Append(rows, new) /\ Len(rows) < MaxRows
  BY DEF Insert
<1> HIDE DEF new
<1>3. rows' \in Seq(Commands) /\ Len(rows') = Len(rows) + 1 /\ DOMAIN rows' = 1..(Len(rows) + 1)
  BY <1>1, <1>2
<1>4. (\A d \in DOMAIN rows : rows'[d] = rows[d]) /\ rows'[Len(rows) + 1] = new
  BY <1>1, <1>2
<1>5. QED
  BY <1>1, <1>2, <1>3, <1>4

\* The action of c was carried out: its row says so, or will.
Done(c) == \/ rows[c].status = "completed"
           \/ \E n \in Node : agent[n].pc = "complete" /\ agent[n].cmd = c
           \/ \E m \in late : m.status = "completed" /\ m.cmd = c

\* What no step does to a row: take back an outcome, a claim or an expiry, or
\* take a command that is not the first of its node's.
RowsKept ==
  /\ rows' \in Seq(Commands) /\ Len(rows') <= MaxRows /\ DOMAIN rows \subseteq DOMAIN rows'
  /\ \A c \in DOMAIN rows :
       /\ Same(c)
       /\ rows[c].status \in Taken => rows'[c].status \in Taken
       /\ rows[c].status = "expired" => rows'[c].status = "expired"
       /\ rows'[c].status = "pending" => rows[c].status = "pending"
       /\ rows[c].status = "pending" /\ rows'[c].status \notin {"pending", "expired"} =>
            c \in Candidate(rows[c].node)
       /\ rows'[c].status = "completed" => Done(c)
  /\ \A d \in DOMAIN rows' \ DOMAIN rows : d = Len(rows) + 1 /\ rows'[d].status = "pending"

LEMMA RowsUnchanged == ASSUME CommandsTyped, UNCHANGED rows PROVE RowsKept
<1>1. rows' = rows /\ rows \in Seq(Commands) /\ Len(rows) <= MaxRows
  BY DEF CommandsTyped
<1>2. QED
  BY <1>1 DEF RowsKept, Same, Done

LEMMA OutcomeWritten ==
  ASSUME CommandsTyped, NEW c \in DOMAIN rows, rows[c].status \in Taken,
         NEW s \in {"completed", "failed"}, s = "completed" => Done(c), Record(c, s)
  PROVE  RowsKept
<1>1. s \in Status /\ s \in Taken /\ s # "pending"
  BY DEF Status, Taken
<1>2. /\ rows' \in Seq(Commands) /\ DOMAIN rows' = DOMAIN rows /\ Len(rows') = Len(rows)
      /\ \A d \in DOMAIN rows : Same(d) /\ (d # c => rows'[d] = rows[d])
      /\ rows'[c].status = s /\ rows'[c].due = rows[c].due
  BY <1>1, RecordStep
<1>3. Len(rows) <= MaxRows
  BY DEF CommandsTyped
<1>4. QED
  BY <1>1, <1>2, <1>3 DEF RowsKept, Taken, Done

LEMMA ClaimWritten ==
  ASSUME CommandsTyped, NEW n \in Node, NEW c \in Candidate(n), Record(c, "claimed")
  PROVE  /\ RowsKept /\ c \in DOMAIN rows /\ rows[c].status = "pending"
         /\ rows'[c].status = "claimed"
<1>1. c \in DOMAIN rows /\ rows[c].status = "pending" /\ rows[c].node = n /\ "claimed" \in Status
  BY DEF Candidate, Open, Status
<1>2. /\ rows' \in Seq(Commands) /\ DOMAIN rows' = DOMAIN rows /\ Len(rows') = Len(rows)
      /\ \A d \in DOMAIN rows : Same(d) /\ (d # c => rows'[d] = rows[d])
      /\ rows'[c].status = "claimed" /\ rows'[c].due = rows[c].due
  BY <1>1, RecordStep
<1>3. Len(rows) <= MaxRows
  BY DEF CommandsTyped
<1>4. QED
  BY <1>1, <1>2, <1>3 DEF RowsKept, Taken, Done

LEMMA ExpiryWritten == ASSUME CommandsTyped, rows' = Expired PROVE RowsKept
<1>1. /\ rows' \in Seq(Commands) /\ DOMAIN rows' = DOMAIN rows /\ Len(rows') = Len(rows)
      /\ \A d \in DOMAIN rows : /\ Same(d) /\ rows'[d].due = rows[d].due
                                /\ rows[d].status # "pending" \/ ~rows[d].due => rows'[d] = rows[d]
                                /\ rows[d].status = "pending" /\ rows[d].due => rows'[d].status = "expired"
  BY ExpiredStep
<1>2. Len(rows) <= MaxRows
  BY DEF CommandsTyped
<1>3. ASSUME NEW d \in DOMAIN rows
      PROVE  /\ rows[d].status \in Taken => rows'[d].status \in Taken
             /\ rows[d].status = "expired" => rows'[d].status = "expired"
             /\ rows'[d].status = "pending" => rows[d].status = "pending"
             /\ rows[d].status = "pending" => rows'[d].status \in {"pending", "expired"}
             /\ rows'[d].status = "completed" => Done(d)
  BY <1>1, <1>3 DEF Taken, Done
<1>4. QED
  BY <1>1, <1>2, <1>3 DEF RowsKept

LEMMA RequestWritten ==
  ASSUME CommandsTyped, NEW n \in Node, NEW action \in Actions, NEW package \in 0..MaxUploads,
         Insert(n, action, package)
  PROVE  RowsKept
<1>1. /\ rows' \in Seq(Commands) /\ Len(rows') = Len(rows) + 1 /\ Len(rows') <= MaxRows
      /\ DOMAIN rows' = DOMAIN rows \cup {Len(rows) + 1}
      /\ \A d \in DOMAIN rows : rows'[d] = rows[d]
      /\ rows'[Len(rows) + 1].status = "pending"
  BY InsertStep
<1>2. QED
  BY <1>1 DEF RowsKept, Same, Done

LEMMA QueuedPackage ==
  ASSUME CommandsTyped, NEW u \in User, QueueUpdate(u)
  PROVE  \E n \in Node : Insert(n, "update", user[u].package) /\ user[u].package \in 0..MaxUploads
BY DEF CommandsTyped, QueueUpdate

\* Every step keeps the rows.
LEMMA RowsStep == CommandsTyped /\ InHand /\ [CommandsNext]_commandVars => RowsKept
<1> SUFFICES ASSUME CommandsTyped, InHand, [CommandsNext]_commandVars PROVE RowsKept
  OBVIOUS
<1>1. CASE UNCHANGED rows
  BY <1>1, RowsUnchanged
<1>2. ASSUME NEW u \in User, Enqueue(u) PROVE RowsKept
  <2>1. \E n \in Node, action \in Actions : Insert(n, action, NoPackage)
    BY <1>2 DEF Enqueue
  <2>2. QED
    BY <2>1, CommandsFacts, RequestWritten
<1>3. ASSUME NEW u \in User, QueueUpdate(u) PROVE RowsKept
  <2>1. PICK n \in Node : Insert(n, "update", user[u].package) /\ user[u].package \in 0..MaxUploads
    BY <1>3, QueuedPackage
  <2>2. QED
    BY <2>1, CommandsFacts, RequestWritten
<1>4. ASSUME NEW c \in Row, Due(c) PROVE RowsKept
  <2>1. /\ rows' \in Seq(Commands) /\ DOMAIN rows' = DOMAIN rows /\ Len(rows') = Len(rows)
        /\ \A d \in DOMAIN rows : Same(d) /\ rows'[d].status = rows[d].status
    BY <1>4, DueStep
  <2>2. Len(rows) <= MaxRows
    BY DEF CommandsTyped
  <2>3. QED
    BY <2>1, <2>2 DEF RowsKept, Done
<1>5. CASE rows' = Expired
  BY <1>5, ExpiryWritten
<1>6. ASSUME NEW n \in Node, NEW c \in Candidate(n), Record(c, "claimed") PROVE RowsKept
  BY <1>6, ClaimWritten
<1>7. ASSUME NEW n \in Node, Busy(n), NEW s \in {"completed", "failed"},
             s = "completed" => agent[n].pc = "complete", Record(agent[n].cmd, s)
      PROVE  RowsKept
  BY <1>7, OutcomeWritten DEF InHand, Done
<1>8. ASSUME NEW m \in late, WriteLate(m) PROVE RowsKept
  <2>1. m.status \in {"completed", "failed"} /\ Record(m.cmd, m.status)
    BY <1>8 DEF WriteLate, CommandsTyped
  <2>2. QED
    BY <2>1, OutcomeWritten DEF InHand, Done
<1>9. ASSUME NEW n \in Node, Works(n) \/ Start(n) \/ Crash(n) \/ SweepFault(n) \/ ClaimFault(n) \/ OutcomeFault(n)
      PROVE  RowsKept
  <2>1. \/ rows' = rows \/ rows' = Expired
        \/ \E c \in Candidate(n) : Record(c, "claimed")
        \/ /\ Busy(n)
           /\ \E s \in {"completed", "failed"} :
                Record(agent[n].cmd, s) /\ (s = "completed" => agent[n].pc = "complete")
    <3>1. CASE Sweep(n) \/ Claim(n) \/ NothingToDo(n) \/ Start(n) \/ Crash(n) \/ SweepFault(n) \/ ClaimFault(n)
      BY <3>1 DEF Sweep, Claim, NothingToDo, Start, Crash, SweepFault, ClaimFault, queue
    <3>2. CASE Succeeds(n) \/ Fails(n) \/ Complete(n) \/ Defer(n) \/ Fail(n)
      BY <3>2 DEF Succeeds, Fails, Complete, Defer, Fail, Busy
    <3>3. CASE OutcomeFault(n)
      BY <3>3 DEF OutcomeFault, Unconfirmed, Busy
    <3>4. QED
      BY <1>9, <3>1, <3>2, <3>3 DEF Works
  <2>2. QED
    BY <1>1, <1>5, <1>6, <1>7, <2>1
<1>10. ASSUME NEW u \in User, Upload(u) \/ Prune(u) \/ GiveUp(u) PROVE UNCHANGED rows
  BY <1>10 DEF Upload, Prune, GiveUp, queue
<1>11. QED
  BY <1>1, <1>2, <1>3, <1>4, <1>8, <1>9, <1>10 DEF CommandsNext, commandVars

LEMMA InOrderStep == CommandsTyped /\ InOrder /\ RowsKept => InOrder'
<1> SUFFICES ASSUME CommandsTyped, InOrder, RowsKept, NEW c \in DOMAIN rows', NEW d \in DOMAIN rows',
                    c < d, rows'[c].node = rows'[d].node, rows'[c].status = "pending", ~rows'[c].due
             PROVE  rows'[d].status \in {"pending", "expired"}
  BY DEF InOrder
<1> USE RowFacts DEF RowsKept, Same
<1>1. CASE d \notin DOMAIN rows
  BY <1>1
<1>2. CASE d \in DOMAIN rows
  <2>1. c \in DOMAIN rows
    BY <1>2, CommandsFacts
  <2>2. rows[c].status = "pending" /\ ~rows[c].due /\ rows[c].node = rows[d].node
    BY <1>2, <2>1
  <2>3. rows[d].status \in {"pending", "expired"} /\ c \in Open(rows[d].node)
    BY <1>2, <2>1, <2>2 DEF InOrder, Open
  <2>4. d \notin Candidate(rows[d].node)
    BY <1>2, <2>1, <2>3, CommandsFacts DEF Candidate
  <2>5. QED
    BY <1>2, <2>3, <2>4
<1>3. QED
  BY <1>1, <1>2

(* What a step does with the commands in hand.                               *)

\* A command comes to hand by a claim, one in a step, and an outcome on its way
\* is that of a command in hand.
HandKept ==
  /\ \A n \in Node : Busy(n)' =>
       \/ Busy(n) /\ agent'[n].cmd = agent[n].cmd
       \/ /\ agent'[n].pc = "run" /\ agent'[n].cmd \in Open(n)
          /\ rows'[agent'[n].cmd].status = "claimed"
  /\ \A m, n \in Node : agent'[n] # agent[n] /\ agent'[m] # agent[m] => m = n
  /\ \A m \in late' : m \in late \/ \E n \in Node :
       Busy(n) /\ m.cmd = agent[n].cmd /\ (m.status = "completed" => agent[n].pc = "complete")

LEMMA HandStep == CommandsTyped /\ InHand /\ [CommandsNext]_commandVars => HandKept
<1> SUFFICES ASSUME CommandsTyped, InHand, [CommandsNext]_commandVars PROVE HandKept
  OBVIOUS
<1>1. agent \in [Node -> [pc : {"down", "sweep", "claim", "run", "complete",
                                "defer", "fail"}, cmd : 0 .. MaxRows]]
  BY DEF CommandsTyped
<1>2. CASE UNCHANGED <<agent, late>>
  BY <1>2 DEF HandKept, Busy
<1>3. ASSUME NEW m \in late, WriteLate(m) PROVE HandKept
  BY <1>3 DEF WriteLate, HandKept, Busy
<1>4. ASSUME NEW n \in Node, UNCHANGED late, NEW to \in {"down", "sweep", "claim"}, NEW c,
             agent' = [agent EXCEPT ![n] = At(to, c)]
      PROVE  HandKept
  BY <1>1, <1>4 DEF HandKept, Busy, At
<1>5. ASSUME NEW n \in Node, Busy(n), NEW to, agent' = [agent EXCEPT ![n] = At(to, agent[n].cmd)],
             UNCHANGED late
      PROVE  HandKept
  BY <1>1, <1>5 DEF HandKept, Busy, At
<1>6. ASSUME NEW n \in Node, Claim(n) PROVE HandKept
  <2>1. PICK c \in Candidate(n) : Record(c, "claimed") /\ agent' = [agent EXCEPT ![n] = At("run", c)]
    BY <1>6 DEF Claim
  <2>2. rows'[c].status = "claimed"
    BY <2>1, ClaimWritten
  <2>3. c \in Open(n) /\ UNCHANGED late
    BY <1>6 DEF Candidate, Claim
  <2>4. agent'[n].pc = "run" /\ agent'[n].cmd = c /\ \A m \in Node \ {n} : agent'[m] = agent[m]
    BY <1>1, <2>1 DEF At
  <2>5. QED
    BY <2>2, <2>3, <2>4 DEF HandKept, Busy
<1>7. ASSUME NEW n \in Node, OutcomeFault(n) PROVE HandKept
  <2>1. Busy(n)
    BY <1>7 DEF OutcomeFault, Busy
  <2>2. \A m \in late' : m \in late \/
          /\ m.cmd = agent[n].cmd
          /\ m.status = "completed" => agent[n].pc = "complete"
    BY <1>7 DEF OutcomeFault, Unconfirmed
  <2>3. /\ \A m \in Node \ {n} : agent'[m] = agent[m]
        /\ agent'[n].pc = "sweep" \/ agent'[n].cmd = agent[n].cmd
    BY <1>1, <1>7 DEF OutcomeFault, Goto, Poll, At
  <2>4. QED
    BY <2>1, <2>2, <2>3 DEF HandKept, Busy
<1>8. ASSUME NEW n \in Node, Sweep(n) \/ NothingToDo(n) \/ Start(n) \/ Crash(n) \/ SweepFault(n)
                             \/ ClaimFault(n) \/ Defer(n) \/ Fail(n)
      PROVE  HandKept
  BY <1>2, <1>4, <1>8 DEF Sweep, NothingToDo, Start, Crash, SweepFault, ClaimFault, Defer, Fail, Goto, Poll
<1>9. ASSUME NEW n \in Node, Succeeds(n) \/ Fails(n) \/ Complete(n) PROVE HandKept
  BY <1>5, <1>9 DEF Succeeds, Fails, Complete, Goto, Busy
<1>10. ASSUME NEW u \in User, Enqueue(u) \/ Upload(u) \/ Prune(u) \/ QueueUpdate(u) \/ GiveUp(u)
       PROVE  UNCHANGED <<agent, late>>
  BY <1>10 DEF Enqueue, Upload, Prune, QueueUpdate, GiveUp
<1>11. ASSUME NEW c \in Row, Due(c) PROVE UNCHANGED <<agent, late>>
  BY <1>11 DEF Due
<1>12. QED
  BY <1>2, <1>3, <1>6, <1>7, <1>8, <1>9, <1>10, <1>11 DEF CommandsNext, Works, commandVars

LEMMA InHandStep == CommandsTyped /\ InHand /\ RowsKept /\ HandKept => InHand'
<1> SUFFICES ASSUME CommandsTyped, InHand, RowsKept, HandKept PROVE InHand'
  OBVIOUS
<1>1. ASSUME NEW c \in DOMAIN rows, rows[c].status \in Taken
      PROVE  c \in DOMAIN rows' /\ rows'[c].status \in Taken
  BY <1>1 DEF RowsKept
<1>2. \A n \in Node : Busy(n)' =>
        agent'[n].cmd \in DOMAIN rows' /\ rows'[agent'[n].cmd].status \in Taken
  <2> SUFFICES ASSUME NEW n \in Node, Busy(n)'
               PROVE  agent'[n].cmd \in DOMAIN rows' /\ rows'[agent'[n].cmd].status \in Taken
    OBVIOUS
  <2>1. CASE Busy(n) /\ agent'[n].cmd = agent[n].cmd
    BY <1>1, <2>1 DEF InHand
  <2>2. CASE agent'[n].cmd \in Open(n) /\ rows'[agent'[n].cmd].status = "claimed"
    BY <2>2 DEF Open, RowsKept, Taken
  <2>3. QED
    BY <2>1, <2>2 DEF HandKept
<1>3. ASSUME NEW m \in Node, NEW n \in Node, Busy(m)', Busy(n)', agent'[m].cmd = agent'[n].cmd
      PROVE  m = n
  <2>1. ASSUME NEW k \in Node, Busy(k)'
        PROVE  \/ Busy(k) /\ agent'[k].cmd = agent[k].cmd /\ rows[agent'[k].cmd].status \in Taken
               \/ agent'[k] # agent[k] /\ rows[agent'[k].cmd].status = "pending"
    <3>1. CASE Busy(k) /\ agent'[k].cmd = agent[k].cmd
      BY <3>1 DEF InHand
    <3>2. CASE agent'[k].cmd \in Open(k) /\ ~(Busy(k) /\ agent'[k].cmd = agent[k].cmd)
      BY <2>1, <3>2 DEF Open, Busy
    <3>3. QED
      BY <2>1, <3>1, <3>2 DEF HandKept
  <2>2. "pending" \notin Taken
    BY DEF Taken
  <2>3. QED
    BY <1>3, <2>1, <2>2 DEF HandKept, InHand
<1>4. \A m \in late' : m.cmd \in DOMAIN rows' /\ rows'[m.cmd].status \in Taken
  BY <1>1 DEF HandKept, InHand
<1>5. QED
  BY <1>2, <1>3, <1>4 DEF InHand

LEMMA HandIsRow ==
  ASSUME CommandsTyped, InHand, NEW n \in Node, Busy(n)
  PROVE  agent[n].cmd \in DOMAIN rows /\ agent[n].cmd \in Row
BY RowFacts DEF InHand

LEMMA CommandsTypedStep ==
  CommandsTyped /\ InHand /\ AtMostOnce /\ RowsKept /\ [CommandsNext]_commandVars => CommandsTyped'
<1> SUFFICES ASSUME CommandsTyped, InHand, AtMostOnce, RowsKept, [CommandsNext]_commandVars
             PROVE  CommandsTyped'
  OBVIOUS
<1> USE CommandsFacts
<1> DEFINE Stages == {"down", "sweep", "claim", "run", "complete", "defer", "fail"}
           Users == [pc : {"idle", "prune", "queue"}, package : 0 .. MaxUploads, todo : SUBSET Node]
<1>1. /\ rows' \in Seq(Commands) /\ Len(rows') <= MaxRows
      /\ ran \in [Row -> 0 .. 2]
      /\ store \subseteq [id : 1 .. MaxUploads, sha : Sha]
      /\ uploads \in 0 .. MaxUploads
      /\ user \in [User -> Users]
      /\ agent \in [Node -> [pc : Stages, cmd : 0 .. MaxRows]]
      /\ late \subseteq [cmd : Row, status : {"completed", "failed"}]
      /\ faults \in 0 .. MaxFaults
  BY DEF CommandsTyped, RowsKept
<1>0. Idle \in Users /\ \A c \in Row : ran[c] + 1 \in 0..2
  <2>1. Idle \in Users
    BY DEF Idle
  <2>2. \A c \in Row : ran[c] \in 0..2 /\ ran[c] <= 1
    BY <1>1 DEF AtMostOnce
  <2>3. QED
    BY <2>1, <2>2
<1>2. \A n \in Node : /\ Busy(n) => agent[n].cmd \in Row
                      /\ agent[n].cmd \in 0..MaxRows
                      /\ \A to \in Stages : At(to, agent[n].cmd) \in [pc : Stages, cmd : 0 .. MaxRows]
  BY <1>1, HandIsRow DEF At
<1>3. \A to \in Stages : At(to, 0) \in [pc : Stages, cmd : 0 .. MaxRows]
  BY DEF At
<1>4. ran' \in [Row -> 0 .. 2]
  <2>1. ASSUME NEW n \in Node, Busy(n), ran' = [ran EXCEPT ![agent[n].cmd] = @ + 1]
        PROVE  ran' \in [Row -> 0 .. 2]
    BY <1>0, <1>1, <1>2, <2>1
  <2>2. \/ UNCHANGED ran
        \/ \E n \in Node : Busy(n) /\ ran' = [ran EXCEPT ![agent[n].cmd] = @ + 1]
    BY DEF CommandsNext, commandVars, Works, Sweep, Claim, NothingToDo, Succeeds, Fails, Complete, Defer,
        Fail, Start, Crash, SweepFault, ClaimFault, OutcomeFault, WriteLate, Due, Enqueue, Upload, Prune,
        QueueUpdate, GiveUp, Insert, queue, Busy
  <2>3. QED
    BY <1>1, <2>1, <2>2
<1>5. agent' \in [Node -> [pc : Stages, cmd : 0 .. MaxRows]]
  <2>1. ASSUME NEW n \in Node, NEW to \in Stages, NEW c \in 0..MaxRows,
               agent' = [agent EXCEPT ![n] = At(to, c)]
        PROVE  agent' \in [Node -> [pc : Stages, cmd : 0 .. MaxRows]]
    BY <1>1, <2>1 DEF At
  <2>2. ASSUME NEW n \in Node, Works(n) \/ Start(n) \/ Crash(n) \/ SweepFault(n) \/ ClaimFault(n) \/ OutcomeFault(n)
        PROVE  agent' = agent \/ \E to \in Stages, c \in 0..MaxRows : agent' = [agent EXCEPT ![n] = At(to, c)]
    <3>1. CASE Claim(n)
      <4>1. PICK c \in Candidate(n) : agent' = [agent EXCEPT ![n] = At("run", c)]
        BY <3>1 DEF Claim
      <4>2. c \in 0..MaxRows
        BY RowFacts DEF Candidate, Open, Row
      <4>3. QED
        BY <4>1, <4>2
    <3>2. CASE Sweep(n) \/ Succeeds(n) \/ Fails(n) \/ Complete(n) \/ OutcomeFault(n)
      BY <1>2, <3>2 DEF Sweep, Succeeds, Fails, Complete, OutcomeFault, Goto, Poll
    <3>3. CASE NothingToDo(n) \/ Defer(n) \/ Fail(n) \/ Start(n) \/ Crash(n) \/ ClaimFault(n) \/ SweepFault(n)
      BY <3>3 DEF NothingToDo, Defer, Fail, Start, Crash, ClaimFault, SweepFault, Poll
    <3>4. QED
      BY <2>2, <3>1, <3>2, <3>3 DEF Works
  <2>3. \/ UNCHANGED agent
        \/ \E n \in Node : Works(n) \/ Start(n) \/ Crash(n) \/ SweepFault(n) \/ ClaimFault(n) \/ OutcomeFault(n)
    BY DEF CommandsNext, commandVars, WriteLate, Due, Enqueue, Upload, Prune, QueueUpdate, GiveUp
  <2>4. QED
    BY <1>1, <2>1, <2>2, <2>3
<1>6. late' \subseteq [cmd : Row, status : {"completed", "failed"}]
  <2>1. \/ late' \subseteq late
        \/ \E n \in Node : Busy(n) /\ \E s \in {"completed", "failed"} :
             late' = late \cup {[cmd |-> agent[n].cmd, status |-> s]}
    BY DEF CommandsNext, commandVars, Works, Sweep, Claim, NothingToDo, Succeeds, Fails, Complete, Defer,
        Fail, Start, Crash, SweepFault, ClaimFault, OutcomeFault, Unconfirmed, WriteLate, Due, Enqueue,
        Upload, Prune, QueueUpdate, GiveUp, Busy
  <2>2. QED
    BY <1>1, <1>2, <2>1
<1>7. faults' \in 0 .. MaxFaults
  <2>1. UNCHANGED faults \/ Fault
    BY DEF CommandsNext, commandVars, Works, Sweep, Claim, NothingToDo, Succeeds, Fails, Complete, Defer,
        Fail, Start, Crash, SweepFault, ClaimFault, OutcomeFault, WriteLate, Due, Enqueue,
        Upload, Prune, QueueUpdate, GiveUp
  <2>2. QED
    BY <1>1, <2>1 DEF Fault
<1>8. /\ store' \subseteq [id : 1 .. MaxUploads, sha : Sha] /\ uploads' \in 0 .. MaxUploads
      /\ user' \in [User -> Users]
  <2>1. ASSUME NEW u \in User, Upload(u)
        PROVE  /\ store' \subseteq [id : 1 .. MaxUploads, sha : Sha] /\ uploads' \in 0 .. MaxUploads
               /\ user' \in [User -> Users]
    <3>1. ASSUME NEW id \in 0..MaxUploads, user' = [user EXCEPT ![u].pc = "prune", ![u].package = id]
          PROVE  user' \in [User -> Users]
      BY <1>1, <3>1
    <3>2. ASSUME NEW p \in store, user' = [user EXCEPT ![u].pc = "prune", ![u].package = p.id]
          PROVE  user' \in [User -> Users]
      <4>1. p.id \in 0..MaxUploads
        BY <1>1
      <4>2. QED
        BY <3>1, <3>2, <4>1
    <3>3. ASSUME NEW sha \in Sha, uploads < MaxUploads, uploads' = uploads + 1,
                 store' = store \cup {[id |-> uploads + 1, sha |-> sha]}
          PROVE  /\ store' \subseteq [id : 1 .. MaxUploads, sha : Sha] /\ uploads' \in 0 .. MaxUploads
                 /\ uploads + 1 \in 0..MaxUploads
      BY <1>1, <3>3
    <3>4. QED
      BY <1>1, <2>1, <3>1, <3>2, <3>3 DEF Upload
  <2>2. ASSUME NEW u \in User, Prune(u)
        PROVE  store' \subseteq store /\ UNCHANGED uploads /\ user' \in [User -> Users]
    <3>1. PICK targets \in SUBSET Node : user' = [user EXCEPT ![u].pc = "queue", ![u].todo = targets]
      BY <2>2 DEF Prune
    <3>2. user' \in [User -> Users]
      BY <1>1, <3>1
    <3>3. store' \subseteq store /\ UNCHANGED uploads
      BY <2>2 DEF Prune
    <3>4. QED
      BY <3>2, <3>3
  <2>3. ASSUME NEW u \in User, QueueUpdate(u)
        PROVE  UNCHANGED <<store, uploads>> /\ user' \in [User -> Users]
    <3>1. PICK n \in user[u].todo : LET todo == user[u].todo \ {n} IN
            user' = [user EXCEPT ![u] = IF todo = {} THEN Idle ELSE [@ EXCEPT !.todo = todo]]
      BY <2>3 DEF QueueUpdate
    <3>2. [user[u] EXCEPT !.todo = user[u].todo \ {n}] \in Users
      BY <1>1
    <3>3. QED
      BY <1>0, <1>1, <2>3, <3>1, <3>2 DEF QueueUpdate
  <2>4. ASSUME NEW u \in User, GiveUp(u) PROVE UNCHANGED <<store, uploads>> /\ user' \in [User -> Users]
    BY <1>0, <1>1, <2>4 DEF GiveUp
  <2>5. \/ UNCHANGED <<store, uploads, user>>
        \/ \E u \in User : Upload(u) \/ Prune(u) \/ QueueUpdate(u) \/ GiveUp(u)
    BY DEF CommandsNext, commandVars, Works, Sweep, Claim, NothingToDo, Succeeds, Fails, Complete, Defer,
        Fail, Start, Crash, SweepFault, ClaimFault, OutcomeFault, WriteLate, Due, Enqueue, packages
  <2>6. QED
    BY <1>1, <2>1, <2>2, <2>3, <2>4, <2>5
<1>9. QED
  BY <1>1, <1>4, <1>5, <1>6, <1>7, <1>8 DEF CommandsTyped

\* The steps in which a command may take effect, and what they do to its count.
Effect(n) ==
  /\ Busy(n)
  /\ \/ agent[n].pc = "run" /\ agent'[n].pc \in {"complete", "fail"} /\ IsSetting(agent[n].cmd)
     \/ agent[n].pc = "defer" /\ agent'[n].pc = "sweep" /\ ~IsSetting(agent[n].cmd)
  /\ ran' = [ran EXCEPT ![agent[n].cmd] = @ + 1]
  /\ agent'[n].cmd = agent[n].cmd \/ agent'[n].pc = "sweep"

\* The other steps, and the stages a command reaches in them.
NoEffect ==
  /\ UNCHANGED ran
  /\ \A n \in Node :
       /\ agent'[n].pc = "run" =>
            \/ agent[n].pc = "run" /\ agent'[n].cmd = agent[n].cmd
            \/ agent'[n].cmd \in Open(n)
       /\ agent'[n].pc \in {"complete", "defer"} =>
            /\ agent'[n].cmd = agent[n].cmd
            /\ \/ agent[n].pc \in {"complete", "defer"}
               \/ agent[n].pc = "run" /\ ~IsSetting(agent[n].cmd)

LEMMA EffectStep ==
  CommandsTyped /\ [CommandsNext]_commandVars =>
    NoEffect \/ (UNCHANGED <<rows, late>> /\ \E n \in Node : Effect(n))
<1> SUFFICES ASSUME CommandsTyped, [CommandsNext]_commandVars
             PROVE  NoEffect \/ (UNCHANGED <<rows, late>> /\ \E n \in Node : Effect(n))
  OBVIOUS
<1>1. agent \in [Node -> [pc : {"down", "sweep", "claim", "run", "complete",
                                "defer", "fail"}, cmd : 0 .. MaxRows]]
  BY DEF CommandsTyped
<1>2. CASE UNCHANGED <<agent, ran>>
  BY <1>2 DEF NoEffect
<1>3. ASSUME NEW n \in Node, UNCHANGED ran, NEW to \in {"down", "sweep", "claim", "fail"}, NEW c,
             agent' = [agent EXCEPT ![n] = At(to, c)]
      PROVE  NoEffect
  BY <1>1, <1>3 DEF NoEffect, At
<1>4. ASSUME NEW n \in Node, Claim(n) PROVE NoEffect
  <2>1. PICK c \in Candidate(n) : agent' = [agent EXCEPT ![n] = At("run", c)]
    BY <1>4 DEF Claim
  <2>2. c \in Open(n) /\ UNCHANGED ran
    BY <1>4 DEF Claim, Candidate
  <2>3. QED
    BY <1>1, <2>1, <2>2 DEF NoEffect, At
<1>5. ASSUME NEW n \in Node, Complete(n) PROVE NoEffect
  BY <1>1, <1>5 DEF Complete, Goto, At, NoEffect
<1>6. ASSUME NEW n \in Node, Succeeds(n) PROVE NoEffect \/ (UNCHANGED <<rows, late>> /\ Effect(n))
  <2>1. CASE IsSetting(agent[n].cmd)
    BY <1>1, <1>6, <2>1 DEF Succeeds, Goto, At, Effect, Busy, IsSetting
  <2>2. CASE ~IsSetting(agent[n].cmd)
    BY <1>1, <1>6, <2>2 DEF Succeeds, Goto, At, NoEffect, IsSetting
  <2>3. QED
    BY <2>1, <2>2
<1>7. ASSUME NEW n \in Node, Fails(n) PROVE NoEffect \/ (UNCHANGED <<rows, late>> /\ Effect(n))
  <2>1. CASE UNCHANGED ran
    BY <1>3, <1>7, <2>1 DEF Fails, Goto
  <2>2. CASE IsSetting(agent[n].cmd) /\ ran' = [ran EXCEPT ![agent[n].cmd] = @ + 1]
    BY <1>1, <1>7, <2>2 DEF Fails, Goto, At, Effect, Busy
  <2>3. QED
    BY <1>7, <2>1, <2>2 DEF Fails, IsSetting
<1>8. ASSUME NEW n \in Node, Defer(n) PROVE NoEffect \/ (UNCHANGED <<rows, late>> /\ Effect(n))
  <2>1. CASE IsSetting(agent[n].cmd)
    BY <1>3, <1>8, <2>1 DEF Defer, Poll, IsSetting
  <2>2. CASE ~IsSetting(agent[n].cmd)
    BY <1>1, <1>8, <2>2 DEF Defer, Poll, At, Effect, Busy, IsSetting
  <2>3. QED
    BY <2>1, <2>2
<1>9. ASSUME NEW n \in Node, Sweep(n) \/ NothingToDo(n) \/ Start(n) \/ Crash(n) \/ SweepFault(n)
                             \/ ClaimFault(n) \/ Fail(n) \/ OutcomeFault(n)
      PROVE  NoEffect
  <2>1. UNCHANGED ran
    BY <1>9 DEF Sweep, NothingToDo, Start, Crash, SweepFault, ClaimFault, Fail, OutcomeFault, queue
  <2>2. CASE UNCHANGED agent
    BY <2>1, <2>2 DEF NoEffect
  <2>3. CASE \E to \in {"down", "sweep", "claim", "fail"}, c \in {0, agent[n].cmd} :
               agent' = [agent EXCEPT ![n] = At(to, c)]
    BY <1>3, <2>1, <2>3
  <2>4. QED
    BY <1>9, <2>2, <2>3 DEF Sweep, NothingToDo, Start, Crash, SweepFault, ClaimFault, Fail, OutcomeFault,
        Goto, Poll
<1>10. ASSUME NEW u \in User, Enqueue(u) \/ Upload(u) \/ Prune(u) \/ QueueUpdate(u) \/ GiveUp(u)
       PROVE  UNCHANGED <<agent, ran>>
  BY <1>10 DEF Enqueue, Upload, Prune, QueueUpdate, GiveUp, Insert, queue
<1>11. ASSUME NEW c \in Row, Due(c) PROVE UNCHANGED <<agent, ran>>
  BY <1>11 DEF Due
<1>12. ASSUME NEW m \in late, WriteLate(m) PROVE UNCHANGED <<agent, ran>>
  BY <1>12 DEF WriteLate
<1>13. QED
  BY <1>2, <1>4, <1>5, <1>6, <1>7, <1>8, <1>9, <1>10, <1>11, <1>12 DEF CommandsNext, Works, commandVars

LEMMA CountedStep ==
  CommandsTyped /\ InHand /\ Counted /\ RowsKept /\ HandKept /\ [CommandsNext]_commandVars => Counted'
<1> SUFFICES ASSUME CommandsTyped, InHand, Counted, RowsKept, HandKept, [CommandsNext]_commandVars
             PROVE  Counted'
  OBVIOUS
<1>0. ran \in [Row -> 0 .. 2] /\ \A c \in Row : ran[c] \in 0..1
  BY DEF CommandsTyped, Counted, AtMostOnce
<1>1. \A c \in DOMAIN rows : c \in DOMAIN rows' /\ c \in Row /\ (IsSetting(c)' <=> IsSetting(c))
  BY RowFacts DEF RowsKept, IsSetting, Same
<1>2. \A c \in Row : Untouched(c)' => Untouched(c)
  <2> SUFFICES ASSUME NEW c \in DOMAIN rows, Untouched(c)' PROVE rows[c].status \in {"pending", "expired"}
    BY DEF Untouched
  <2>1. rows[c].status \in Status /\ c \in DOMAIN rows'
    BY <1>1, RowFacts DEF Commands
  <2>2. rows[c].status \notin Taken
    BY <2>1 DEF RowsKept, Untouched, Taken
  <2>3. QED
    BY <2>1, <2>2 DEF Status, Taken
<1>3. \A c \in DOMAIN rows : Done(c) /\ IsSetting(c) => ran[c] = 1
  BY DEF Done, Counted
<1>4. ASSUME NEW c \in DOMAIN rows', rows'[c].status = "completed"
      PROVE  c \in DOMAIN rows /\ Done(c)
  BY <1>4 DEF RowsKept
<1>5. \A m \in late' : m.status = "completed" => m.cmd \in DOMAIN rows /\ Done(m.cmd)
  BY DEF HandKept, InHand, Done
<1>6. CASE NoEffect
  <2>1. AtMostOnce' /\ \A c \in Row : Untouched(c)' => ran'[c] = 0
    BY <1>2, <1>6 DEF NoEffect, Counted, AtMostOnce
  <2>2. \A n \in Node : agent'[n].pc = "run" => ran'[agent'[n].cmd] = 0
    <3>1. ASSUME NEW n \in Node, NEW c \in Open(n) PROVE ran[c] = 0
      BY <1>1 DEF Open, Counted, Untouched
    <3>2. QED
      BY <1>6, <3>1 DEF NoEffect, Counted
  <2>3. ASSUME NEW n \in Node, agent'[n].pc \in {"complete", "defer"}
        PROVE  ran'[agent'[n].cmd] = IF rows'[agent'[n].cmd].action = "settings" THEN 1 ELSE 0
    <3>1. Busy(n) /\ agent'[n].cmd = agent[n].cmd /\ UNCHANGED ran
      BY <1>6, <2>3 DEF NoEffect, Busy
    <3>2. agent[n].cmd \in DOMAIN rows
      BY <3>1 DEF InHand
    <3>3. ran[agent[n].cmd] = IF IsSetting(agent[n].cmd) THEN 1 ELSE 0
      BY <1>6, <2>3 DEF NoEffect, Counted
    <3>4. rows'[agent'[n].cmd].action = "settings" <=> IsSetting(agent[n].cmd)
      BY <1>1, <3>1, <3>2 DEF IsSetting
    <3>5. QED
      BY <3>1, <3>3, <3>4
  <2>4. \A m \in late' : m.status = "completed" /\ IsSetting(m.cmd)' => ran'[m.cmd] = 1
    BY <1>1, <1>3, <1>5, <1>6 DEF NoEffect
  <2>5. \A c \in DOMAIN rows' : rows'[c].status = "completed" /\ IsSetting(c)' => ran'[c] = 1
    BY <1>1, <1>3, <1>4, <1>6 DEF NoEffect
  <2>6. QED
    BY <2>1, <2>2, <2>3, <2>4, <2>5 DEF Counted, IsSetting
<1>7. ASSUME NEW n \in Node, Effect(n), UNCHANGED <<rows, late>> PROVE Counted'
  <2> DEFINE c == agent[n].cmd
  <2>1. c \in DOMAIN rows /\ c \in Row /\ rows[c].status \in Taken /\ Busy(n)
    BY <1>1, <1>7 DEF Effect, InHand
  <2>2. ran[c] = 0
    BY <1>7 DEF Effect, Counted
  <2>3. ran'[c] = 1 /\ \A d \in Row \ {c} : ran'[d] = ran[d]
    BY <1>0, <1>7, <2>1, <2>2 DEF Effect
  <2>4. AtMostOnce' /\ \A d \in Row : Untouched(d)' => ran'[d] = 0
    <3>1. ~Untouched(c)
      BY <2>1 DEF Untouched, Taken
    <3>2. QED
      BY <1>2, <2>3, <3>1 DEF Counted, AtMostOnce
  <2>5. ASSUME NEW m \in Node \ {n}
        PROVE  agent'[m] = agent[m] /\ (Busy(m) => agent[m].cmd \in Row \ {c})
    <3>1. agent'[n] # agent[n]
      BY <1>7 DEF Effect
    <3>2. QED
      BY <2>1, <3>1, HandIsRow DEF HandKept, InHand
  <2>6. agent'[n].pc # "run" /\ (agent'[n].pc \in {"complete", "defer"} => agent'[n].cmd = c /\ IsSetting(c)')
    BY <1>1, <1>7, <2>1 DEF Effect
  <2>7. \A m \in Node : agent'[m].pc = "run" => ran'[agent'[m].cmd] = 0
    BY <2>3, <2>5, <2>6 DEF Counted, Busy
  <2>8. ASSUME NEW m \in Node, agent'[m].pc \in {"complete", "defer"}
        PROVE  ran'[agent'[m].cmd] = IF rows'[agent'[m].cmd].action = "settings" THEN 1 ELSE 0
    <3>1. CASE m = n
      BY <2>3, <2>6, <2>8, <3>1 DEF IsSetting
    <3>2. CASE m # n
      <4>1. agent'[m] = agent[m] /\ agent[m].cmd \in Row \ {c}
        BY <2>5, <2>8, <3>2 DEF Busy
      <4>2. ran'[agent[m].cmd] = IF IsSetting(agent[m].cmd) THEN 1 ELSE 0
        BY <2>3, <2>8, <4>1 DEF Counted
      <4>3. QED
        BY <1>7, <4>1, <4>2 DEF IsSetting
    <3>3. QED
      BY <3>1, <3>2
  <2>9. \A d \in DOMAIN rows : Done(d) /\ IsSetting(d) => ran'[d] = 1
    BY <1>1, <1>3, <2>2, <2>3
  <2>10. \A m \in late' : m.status = "completed" /\ IsSetting(m.cmd)' => ran'[m.cmd] = 1
    BY <1>1, <1>5, <2>9
  <2>11. \A d \in DOMAIN rows' : rows'[d].status = "completed" /\ IsSetting(d)' => ran'[d] = 1
    BY <1>1, <1>4, <2>9
  <2>12. QED
    BY <2>4, <2>7, <2>8, <2>10, <2>11 DEF Counted, IsSetting
<1>8. QED
  BY <1>6, <1>7, EffectStep

LEMMA CommandsInvariance == CommandsSpec => []CommandsIInv
<1>1. CommandsIInv /\ [CommandsNext]_commandVars => CommandsIInv'
  BY RowsStep, HandStep, CommandsTypedStep, InHandStep, CountedStep, InOrderStep DEF CommandsIInv, Counted
<1>2. QED
  BY CommandsInitial, <1>1, PTL DEF CommandsSpec

\* Each command takes effect at most once, and a node takes its commands in the
\* order they were requested.
THEOREM ServedOnce == CommandsSpec => []ServedOnceInOrder
<1>1. CommandsIInv => ServedOnceInOrder
  BY DEF CommandsIInv, Counted, ServedOnceInOrder
<1>2. QED
  BY CommandsInvariance, <1>1, PTL

\* What the table says of a command is true of its effect.
THEOREM OutcomesAreTrue == CommandsSpec => []OutcomeIsTrue
<1>1. CommandsIInv => OutcomeIsTrue
  <2> SUFFICES ASSUME CommandsIInv, NEW c \in DOMAIN rows
               PROVE  /\ rows[c].status \in {"pending", "expired"} => ran[c] = 0
                      /\ rows[c].status = "completed" /\ rows[c].action = "settings" => ran[c] = 1
    BY DEF OutcomeIsTrue
  <2>1. c \in Row
    BY RowFacts DEF CommandsIInv
  <2>2. QED
    BY <2>1 DEF CommandsIInv, Counted, Untouched, IsSetting
<1>2. QED
  BY CommandsInvariance, <1>1, PTL

\* No upload prunes a package that an update waits for or works with.
THEOREM NeededStays == CommandsSpec => NeededIsKept
<1>1. CommandsNext => \A id \in Stored : Needs(id) /\ Needs(id)' => id \in Stored'
  <2> SUFFICES ASSUME CommandsNext, NEW id \in Stored, Needs(id) PROVE id \in Stored'
    OBVIOUS
  <2>1. CASE store \subseteq store'
    BY <2>1 DEF Stored
  <2>2. ASSUME NEW u \in User, Prune(u) PROVE id \in Stored'
    BY <2>2 DEF Prune, Stored, Spared
  <2>3. store \subseteq store' \/ \E u \in User : Prune(u)
    BY DEF CommandsNext, Works, Sweep, Claim, NothingToDo, Succeeds, Fails, Complete, Defer,
        Fail, Start, Crash, SweepFault, ClaimFault, OutcomeFault, WriteLate, Due, Enqueue, Upload,
        QueueUpdate, GiveUp, packages
  <2>4. QED
    BY <2>1, <2>2, <2>3
<1>2. QED
  BY <1>1, PTL DEF CommandsSpec, NeededIsKept
==============================================================================
