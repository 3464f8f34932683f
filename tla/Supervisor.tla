------------------------------ MODULE Supervisor ------------------------------
(***************************************************************************)
(* What the bot's watchdog promises                                        *)
(* (src/legacy/discord-ha-bot-starter/src/runtime/watchdogCore.ts), with   *)
(* no timers, no child handles and no events: at most one bot runs, a bot  *)
(* that left on purpose is never replaced, one that crashed is replaced    *)
(* within the budget, and supervision ends once, never beside a bot.       *)
(* Watchdog is shown to implement it; NodeUpdate is built on it.           *)
(***************************************************************************)
EXTENDS Naturals

CONSTANTS MaxRestarts,   \* restarts without a long run in between (10)
          Undecided      \* supervision has no exit code yet

VARIABLES bot,      \* "none", "running", or how the last one ended, until noticed
          phase,    \* "watching", "stopping" or "ended"
          fails,    \* failures since the last long run
          result    \* the exit code of the supervision

vars == <<bot, phase, fails, result>>

Init == bot = "none" /\ phase = "watching" /\ fails = 0 /\ result = Undecided

Ends(code) == phase' = "ended" /\ result' = code

Launch == /\ phase = "watching" /\ bot = "none" /\ fails <= MaxRestarts
          /\ bot' = "running"
          /\ UNCHANGED <<phase, fails, result>>

BotExits == /\ bot = "running"
            /\ bot' \in {"left", "crashed"}
            /\ UNCHANGED <<phase, fails, result>>

\* A failure counts as the first one after a long run.
CountsFailure ==
  \E n \in {fails, 0} :
    /\ fails' = n + 1
    /\ IF n < MaxRestarts THEN UNCHANGED <<phase, result>> ELSE Ends(1)

LaunchFails == phase = "watching" /\ bot = "none" /\ CountsFailure /\ UNCHANGED bot

NoticesLeft == /\ bot = "left" /\ phase = "watching"
               /\ bot' = "none" /\ Ends(0) /\ UNCHANGED fails

NoticesCrash == phase = "watching" /\ bot = "crashed" /\ bot' = "none" /\ CountsFailure

\* With a bot, stopping waits for its end.
Stop(code) == /\ phase = "watching"
              /\ phase' \in {"stopping"} \cup {x \in {"ended"} : bot = "none"}
              /\ result' = code
              /\ UNCHANGED <<bot, fails>>

Stopped == /\ phase = "stopping" /\ bot # "running"
           /\ bot' = "none" /\ phase' = "ended"
           /\ UNCHANGED <<fails, result>>

Next == \/ Launch \/ BotExits \/ LaunchFails \/ NoticesLeft \/ NoticesCrash
        \/ (\E code \in {0, 1} : Stop(code))
        \/ Stopped

Spec == Init /\ [][Next]_vars
===============================================================================
