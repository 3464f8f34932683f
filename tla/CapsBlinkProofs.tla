--------------------------- MODULE CapsBlinkProofs ---------------------------
(***************************************************************************)
(* Proofs about CapsBlink for any set of keyboards, any number of retries  *)
(* and every bound.                                                        *)
(***************************************************************************)
EXTENDS CapsBlink, TLAPS

-----------------------------------------------------------------------------
(* The inductive invariant: besides the types and the invariants            *)
(* themselves, where the driver may owe an answer (OwedWhere), what a       *)
(* session knows in each of its steps (SessionKnows) and what the           *)
(* restoration has seen (RestorationKnows).                                 *)

\* A restoration is tried only while tries are left.
TypeInv == TypeOK /\ (pc \in {"reread", "restore"} => run.tries < Retries)

OwedWhere == pending # NoOp => pc \in {"stopping", "settle"}

SessionKnows ==
    /\ run.original # "unknown" => run.opened
    /\ pc \in {"top", "logical", "write", "publish"} => run.opened
    /\ pc \in {"head", "starting", "open", "top", "logical", "write", "publish"}
          => ~Failed
    /\ pc # "none" /\ snap.failed => Failed

RestorationKnows ==
    /\ pc = "restore" /\ run.fresh => toggled \/ (/\ run.seen = logical
                                                 /\ run.now = led[run.target])
    /\ pc = "close" /\ run.original # "unknown" /\ ~run.cleanupError
          => toggled \/ led[run.target] = logical

\* Outside Update's join, disabled settings in force mean no worker.
NoWorkerInForce ==
    /\ at = "join" => config = cfg
    /\ at # "join" /\ ~Enabled(config) => pc = "none"
    /\ at = "gone" => pc = "none"

IInv == /\ TypeInv /\ OwedWhere /\ SessionKnows /\ RestorationKnows
        /\ NoWorkerInForce /\ SnapshotIsHonest /\ IndicatorRestored

-----------------------------------------------------------------------------
LEMMA NewSessionType == ASSUME NEW t \in Target PROVE NewSession(t) \in Sessions
  BY CapsAssumption DEF NewSession, Sessions

LEMMA SnapshotType ==
    ASSUME NEW p \in Phases, NEW a \in BOOLEAN, NEW b \in BOOLEAN
    PROVE  [phase |-> p, running |-> a, failed |-> b] \in Snapshots
  BY DEF Snapshots

\* A timed-out restoration uses up one of the tries that are left.
LEMMA TimesOutType ==
    ASSUME run \in Sessions, run.tries < Retries, NEW op, TimesOut(op)
    PROVE  run' \in Sessions
<1>1. PICK thrown \in BOOLEAN :
        run' = [run EXCEPT !.tries = @ + 1, !.cleanupError = @ \/ thrown]
  BY DEF TimesOut
<1>2. run.tries + 1 \in 0 .. Retries
  BY CapsAssumption DEF Sessions
<1>3. (run.cleanupError \/ thrown) \in BOOLEAN
  OBVIOUS
<1>4. ASSUME NEW x \in 0 .. Retries, NEW y \in BOOLEAN
      PROVE  [run EXCEPT !.tries = x, !.cleanupError = y] \in Sessions
  BY DEF Sessions
<1>5. QED
  BY <1>1, <1>2, <1>3, <1>4

LEMMA TypeStep == TypeInv /\ [Next]_vars => TypeOK'
<1> SUFFICES ASSUME TypeInv, [Next]_vars PROVE TypeOK'
  OBVIOUS
<1>0. /\ run \in Sessions /\ logical \in BOOLEAN
      /\ led \in [Target -> BOOLEAN]
  BY DEF TypeInv, TypeOK
<1>1. CASE Edit
  BY <1>1, CapsAssumption DEF Edit, window, poll, shared, worker, device, world, TypeOK,
     Settings, Snapshots, Phases, Sessions, Operations, NoOp, Reading, Writing,
     WorkerStates, PollStates, Enabled, TypeInv
<1>2. CASE AskRestart
  BY <1>2, CapsAssumption DEF AskRestart, window, poll, shared, worker, device, world,
     TypeOK, Settings, Snapshots, Phases, Sessions, Operations, NoOp, Reading, Writing,
     WorkerStates, PollStates, Enabled, TypeInv
<1>3. CASE Toggle
  BY <1>3, CapsAssumption DEF Toggle, window, poll, shared, worker, device, world,
     TypeOK, Settings, Snapshots, Phases, Sessions, Operations, NoOp, Reading, Writing,
     WorkerStates, PollStates, Enabled, TypeInv
<1>4. CASE DriverFinishes
  BY <1>4, CapsAssumption DEF DriverFinishes, window, poll, shared, worker, device,
     world, TypeOK, Settings, Snapshots, Phases, Sessions, Operations, NoOp, Reading,
     Writing, WorkerStates, PollStates, Enabled, TypeInv
<1>5. CASE TickCancels
  BY <1>5, CapsAssumption DEF TickCancels, RequestStop, window, poll, shared, worker,
     device, world, TypeOK, Settings, Snapshots, Phases, Sessions, Operations, NoOp,
     Reading, Writing, WorkerStates, PollStates, Enabled, TypeInv
<1>6. CASE TickRefreshes
  BY <1>6, CapsAssumption DEF TickRefreshes, window, poll, shared, worker, device,
     world, TypeOK, Settings, Snapshots, Phases, Sessions, Operations, NoOp, Reading,
     Writing, WorkerStates, PollStates, Enabled, TypeInv
<1>7. CASE TakeRestart
  <2>0. /\ run \in Sessions
        /\ snap \in Snapshots
        /\ logical \in BOOLEAN
        /\ led \in [Target -> BOOLEAN]
        /\ faults \in 0 .. MaxFaults
        /\ stop \in BOOLEAN
        /\ pending \in Operations
        /\ config \in Settings
        /\ cfg \in Settings
        /\ key \in Settings \union {NoKey}
        /\ held \in BOOLEAN
        /\ pc \in WorkerStates
        /\ at \in PollStates
        /\ running \in BOOLEAN
        /\ toggled \in BOOLEAN
        /\ pc \in {"reread", "restore"} => run.tries < Retries
    BY DEF TypeInv, TypeOK
  <2>1. UNCHANGED <<want, edits, cfg, look, config, running, pc, run, held, pending, led, logical, toggled, faults>>
    BY <1>7 DEF TakeRestart, outside, window, poll, shared, worker, device, world, RequestStop
  <2>2. key' \in Settings \union {NoKey}
    BY <1>7, <2>0, CapsAssumption DEF TakeRestart, RequestStop, shared, Settings
  <2>3. stop' \in BOOLEAN
    BY <1>7, <2>0 DEF TakeRestart, RequestStop, shared
  <2>4. snap' \in Snapshots
    BY <1>7, <2>0 DEF TakeRestart, RequestStop, shared, Snapshots, Phases
  <2>5. restart' \in BOOLEAN
    BY <1>7, <2>0 DEF TakeRestart, RequestStop, shared
  <2>6. at' \in PollStates
    BY <1>7, <2>0 DEF TakeRestart, RequestStop, shared, PollStates
  <2>7. QED
    BY <2>1, <2>2, <2>3, <2>4, <2>5, <2>6 DEF TypeInv, TypeOK
<1>8. CASE Look
  BY <1>8, CapsAssumption DEF Look, window, poll, shared, worker, device, world, TypeOK,
     Settings, Snapshots, Phases, Sessions, Operations, NoOp, Reading, Writing,
     WorkerStates, PollStates, Enabled, TypeInv
<1>9. CASE BacksOff
  BY <1>9, CapsAssumption DEF BacksOff, RequestStop, NoLook, window, poll, shared,
     worker, device, world, TypeOK, Settings, Snapshots, Phases, Sessions, Operations,
     NoOp, Reading, Writing, WorkerStates, PollStates, Enabled, TypeInv
<1>10. CASE Satisfied
  BY <1>10, CapsAssumption DEF Satisfied, NoLook, window, poll, shared, worker, device,
     world, TypeOK, Settings, Snapshots, Phases, Sessions, Operations, NoOp, Reading,
     Writing, WorkerStates, PollStates, Enabled, TypeInv
<1>11. CASE Updates
  BY <1>11, CapsAssumption DEF Updates, NoLook, window, poll, shared, worker, device,
     world, TypeOK, Settings, Snapshots, Phases, Sessions, Operations, NoOp, Reading,
     Writing, WorkerStates, PollStates, Enabled, TypeInv
<1>12. CASE JoinedDisabled
  <2>0. /\ run \in Sessions
        /\ snap \in Snapshots
        /\ logical \in BOOLEAN
        /\ led \in [Target -> BOOLEAN]
        /\ faults \in 0 .. MaxFaults
        /\ stop \in BOOLEAN
        /\ pending \in Operations
        /\ config \in Settings
        /\ cfg \in Settings
        /\ key \in Settings \union {NoKey}
        /\ held \in BOOLEAN
        /\ pc \in WorkerStates
        /\ at \in PollStates
        /\ running \in BOOLEAN
        /\ toggled \in BOOLEAN
        /\ pc \in {"reread", "restore"} => run.tries < Retries
    BY DEF TypeInv, TypeOK
  <2>1. UNCHANGED <<want, restart, edits, cfg, look, key, config, stop, running, pc, run, held, pending, led, logical, toggled, faults>>
    BY <1>12 DEF JoinedDisabled, outside, window, poll, shared, worker, device, world
  <2>2. snap' \in Snapshots
    BY <1>12, <2>0 DEF JoinedDisabled, Joined, Snapshots, Phases
  <2>3. at' \in PollStates
    BY <1>12, <2>0 DEF JoinedDisabled, Joined, PollStates
  <2>4. QED
    BY <2>1, <2>2, <2>3 DEF TypeInv, TypeOK
<1>13. CASE JoinedStarts
  <2>0. /\ run \in Sessions
        /\ snap \in Snapshots
        /\ logical \in BOOLEAN
        /\ led \in [Target -> BOOLEAN]
        /\ faults \in 0 .. MaxFaults
        /\ stop \in BOOLEAN
        /\ pending \in Operations
        /\ config \in Settings
        /\ cfg \in Settings
        /\ key \in Settings \union {NoKey}
        /\ held \in BOOLEAN
        /\ pc \in WorkerStates
        /\ at \in PollStates
        /\ running \in BOOLEAN
        /\ toggled \in BOOLEAN
        /\ pc \in {"reread", "restore"} => run.tries < Retries
    BY DEF TypeInv, TypeOK
  <2>1. UNCHANGED <<want, restart, edits, cfg, look, key, config, held, pending, led, logical, toggled>>
    BY <1>13 DEF JoinedStarts, outside, window, poll, shared, worker, device, world
  <2>2. stop' \in BOOLEAN
    BY <1>13, <2>0 DEF JoinedStarts, Joined
  <2>3. running' \in BOOLEAN
    BY <1>13, <2>0 DEF JoinedStarts, Joined
  <2>4. pc' \in WorkerStates
    BY <1>13, <2>0 DEF JoinedStarts, Joined, WorkerStates
  <2>5. snap' \in Snapshots
      BY <1>13, SnapshotType DEF JoinedStarts, Phases
  <2>6. run' \in Sessions
    BY <1>13, <2>0, NewSessionType, CapsAssumption DEF JoinedStarts, Joined, Sessions,
       Enabled, Settings
  <2>7. faults' \in 0 .. MaxFaults
    BY <1>13, <2>0, CapsAssumption DEF JoinedStarts, Joined, Fault
  <2>8. at' \in PollStates
    BY <1>13, <2>0 DEF JoinedStarts, Joined, PollStates
  <2>9. QED
    BY <2>1, <2>2, <2>3, <2>4, <2>5, <2>6, <2>7, <2>8 DEF TypeInv, TypeOK
<1>14. CASE Quit
  BY <1>14, CapsAssumption DEF Quit, RequestStop, window, poll, shared, worker, device,
     world, TypeOK, Settings, Snapshots, Phases, Sessions, Operations, NoOp, Reading,
     Writing, WorkerStates, PollStates, Enabled, TypeInv
<1>15. CASE QuitJoins
  BY <1>15, CapsAssumption DEF QuitJoins, Joined, window, poll, shared, worker, device,
     world, TypeOK, Settings, Snapshots, Phases, Sessions, Operations, NoOp, Reading,
     Writing, WorkerStates, PollStates, Enabled, TypeInv
<1>16. CASE Begins
  <2>0. /\ run \in Sessions
        /\ snap \in Snapshots
        /\ logical \in BOOLEAN
        /\ led \in [Target -> BOOLEAN]
        /\ faults \in 0 .. MaxFaults
        /\ stop \in BOOLEAN
        /\ pending \in Operations
        /\ config \in Settings
        /\ cfg \in Settings
        /\ key \in Settings \union {NoKey}
        /\ held \in BOOLEAN
        /\ pc \in WorkerStates
        /\ at \in PollStates
        /\ running \in BOOLEAN
        /\ toggled \in BOOLEAN
        /\ pc \in {"reread", "restore"} => run.tries < Retries
    BY DEF TypeInv, TypeOK
  <2>1. UNCHANGED <<want, restart, edits, at, cfg, look, key, config, stop, running, snap, held, pending, led, logical, toggled, faults>>
    BY <1>16 DEF Begins, outside, window, poll, shared, worker, device, world
  <2>2. run' \in Sessions
    BY <1>16, <2>0, NewSessionType, CapsAssumption DEF Begins, Sessions, Enabled, Settings
  <2>3. pc' \in WorkerStates
    BY <1>16, <2>0 DEF Begins, WorkerStates
  <2>4. QED
    BY <2>1, <2>2, <2>3 DEF TypeInv, TypeOK
<1>17. CASE PublishStarting
  BY <1>17, CapsAssumption DEF PublishStarting, Publish, Failed, outside, window, poll,
     shared, worker, device, world, Fault, TypeOK, Settings, Snapshots, Phases,
     Sessions, Operations, NoOp, Reading, Writing, WorkerStates, PollStates, Enabled,
     TypeInv
<1>18. CASE Open
  <2>0. /\ run \in Sessions
        /\ snap \in Snapshots
        /\ logical \in BOOLEAN
        /\ led \in [Target -> BOOLEAN]
        /\ faults \in 0 .. MaxFaults
        /\ stop \in BOOLEAN
        /\ pending \in Operations
        /\ config \in Settings
        /\ cfg \in Settings
        /\ key \in Settings \union {NoKey}
        /\ held \in BOOLEAN
        /\ pc \in WorkerStates
        /\ at \in PollStates
        /\ running \in BOOLEAN
        /\ toggled \in BOOLEAN
        /\ pc \in {"reread", "restore"} => run.tries < Retries
    BY DEF TypeInv, TypeOK
  <2>1. UNCHANGED <<want, restart, edits, at, cfg, look, key, config, stop, running, snap, pending, led, logical, toggled>>
    BY <1>18 DEF Open, outside, window, poll, shared, worker, device, world
  <2>2. run' \in Sessions
    BY <1>18, <1>0 DEF Open, Sessions
  <2>3. pc' \in WorkerStates
    BY <1>18, <2>0 DEF Open, WorkerStates
  <2>4. held' \in BOOLEAN
    BY <1>18, <2>0 DEF Open
  <2>5. faults' \in 0 .. MaxFaults
    BY <1>18, <2>0, CapsAssumption DEF Open, Fault
  <2>6. QED
    BY <2>1, <2>2, <2>3, <2>4, <2>5 DEF TypeInv, TypeOK
<1>19. CASE LeaveLoop
  BY <1>19, CapsAssumption DEF LeaveLoop, Canceled, outside, window, poll, shared,
     worker, device, world, Fault, TypeOK, Settings, Snapshots, Phases, Sessions,
     Operations, NoOp, Reading, Writing, WorkerStates, PollStates, Enabled, TypeInv
<1>20. CASE Read
  <2>0. /\ run \in Sessions
        /\ snap \in Snapshots
        /\ logical \in BOOLEAN
        /\ led \in [Target -> BOOLEAN]
        /\ faults \in 0 .. MaxFaults
        /\ stop \in BOOLEAN
        /\ pending \in Operations
        /\ config \in Settings
        /\ cfg \in Settings
        /\ key \in Settings \union {NoKey}
        /\ held \in BOOLEAN
        /\ pc \in WorkerStates
        /\ at \in PollStates
        /\ running \in BOOLEAN
        /\ toggled \in BOOLEAN
        /\ pc \in {"reread", "restore"} => run.tries < Retries
    BY DEF TypeInv, TypeOK
  <2>1. UNCHANGED <<want, restart, edits, at, cfg, look, key, config, stop, running, snap, held, led, logical, toggled>>
    BY <1>20 DEF Read, outside, window, poll, shared, worker, device, world
  <2>2. run' \in Sessions
    BY <1>20, <1>0 DEF Read, FailsWith, Flag, Sessions
  <2>3. pc' \in WorkerStates
    BY <1>20, <2>0 DEF Read, FailsWith, Flag, WorkerStates
  <2>4. pending' \in Operations
    BY <1>20, <2>0 DEF Read, FailsWith, Flag, device, Operations, NoOp, Reading, Writing
  <2>5. faults' \in 0 .. MaxFaults
    BY <1>20, <2>0, CapsAssumption DEF Read, FailsWith, Flag, Fault
  <2>6. QED
    BY <2>1, <2>2, <2>3, <2>4, <2>5 DEF TypeInv, TypeOK
<1>21. CASE ReadLogical
  <2>0. /\ run \in Sessions
        /\ snap \in Snapshots
        /\ logical \in BOOLEAN
        /\ led \in [Target -> BOOLEAN]
        /\ faults \in 0 .. MaxFaults
        /\ stop \in BOOLEAN
        /\ pending \in Operations
        /\ config \in Settings
        /\ cfg \in Settings
        /\ key \in Settings \union {NoKey}
        /\ held \in BOOLEAN
        /\ pc \in WorkerStates
        /\ at \in PollStates
        /\ running \in BOOLEAN
        /\ toggled \in BOOLEAN
        /\ pc \in {"reread", "restore"} => run.tries < Retries
    BY DEF TypeInv, TypeOK
  <2>1. UNCHANGED <<want, restart, edits, at, cfg, look, key, config, stop, running, snap, held, pending, led, logical, toggled>>
    BY <1>21 DEF ReadLogical, outside, window, poll, shared, worker, device, world
  <2>2. run' \in Sessions
    BY <1>21, <1>0 DEF ReadLogical, FailsWith, Sessions
  <2>3. pc' \in WorkerStates
    BY <1>21, <2>0 DEF ReadLogical, FailsWith, WorkerStates
  <2>4. faults' \in 0 .. MaxFaults
    BY <1>21, <2>0, CapsAssumption DEF ReadLogical, FailsWith, Fault
  <2>5. QED
    BY <2>1, <2>2, <2>3, <2>4 DEF TypeInv, TypeOK
<1>22. CASE Write
  <2>0. /\ run \in Sessions
        /\ snap \in Snapshots
        /\ logical \in BOOLEAN
        /\ led \in [Target -> BOOLEAN]
        /\ faults \in 0 .. MaxFaults
        /\ stop \in BOOLEAN
        /\ pending \in Operations
        /\ config \in Settings
        /\ cfg \in Settings
        /\ key \in Settings \union {NoKey}
        /\ held \in BOOLEAN
        /\ pc \in WorkerStates
        /\ at \in PollStates
        /\ running \in BOOLEAN
        /\ toggled \in BOOLEAN
        /\ pc \in {"reread", "restore"} => run.tries < Retries
    BY DEF TypeInv, TypeOK
  <2>1. UNCHANGED <<want, restart, edits, at, cfg, look, key, config, stop, running, snap, held, logical, toggled>>
    BY <1>22 DEF Write, outside, window, poll, shared, worker, device, world
  <2>2. led' \in [Target -> BOOLEAN]
      <3>1. Pattern \in BOOLEAN /\ run.target \in Target
        BY <2>0 DEF Pattern, Sessions
      <3>2. QED
        BY <1>22, <2>0, <3>1 DEF Write, device
  <2>3. pc' \in WorkerStates
    BY <1>22, <2>0 DEF Write, FailsWith, Writing, WorkerStates
  <2>4. run' \in Sessions
    BY <1>22, <1>0 DEF Write, FailsWith, Sessions
  <2>5. pending' \in Operations
      <3>1. pending' = pending \/ pending' \in {NoOp, Writing(run.target, Pattern)}
        BY <1>22 DEF Write, device
      <3>2. Pattern \in BOOLEAN /\ run.target \in Target
        BY <2>0 DEF Pattern, Sessions
      <3>3. QED
        BY <2>0, <3>1, <3>2 DEF Operations, Reading
  <2>6. faults' \in 0 .. MaxFaults
      <3>1. faults' = faults \/ Fault
        BY <1>22 DEF Write
      <3>2. QED
        BY <2>0, <3>1, CapsAssumption DEF Fault
  <2>7. QED
    BY <2>1, <2>2, <2>3, <2>4, <2>5, <2>6 DEF TypeInv, TypeOK
<1>23. CASE PublishIteration
  BY <1>23, CapsAssumption DEF PublishIteration, Publish, Failed, outside, window, poll,
     shared, worker, device, world, Fault, TypeOK, Settings, Snapshots, Phases,
     Sessions, Operations, NoOp, Reading, Writing, WorkerStates, PollStates, Enabled,
     TypeInv
<1>24. CASE PublishStopping
  BY <1>24, CapsAssumption DEF PublishStopping, Publish, Failed, outside, window, poll,
     shared, worker, device, world, Fault, TypeOK, Settings, Snapshots, Phases,
     Sessions, Operations, NoOp, Reading, Writing, WorkerStates, PollStates, Enabled,
     TypeInv
<1>25. CASE Settle
  <2>0. /\ run \in Sessions
        /\ snap \in Snapshots
        /\ logical \in BOOLEAN
        /\ led \in [Target -> BOOLEAN]
        /\ faults \in 0 .. MaxFaults
        /\ stop \in BOOLEAN
        /\ pending \in Operations
        /\ config \in Settings
        /\ cfg \in Settings
        /\ key \in Settings \union {NoKey}
        /\ held \in BOOLEAN
        /\ pc \in WorkerStates
        /\ at \in PollStates
        /\ running \in BOOLEAN
        /\ toggled \in BOOLEAN
        /\ pc \in {"reread", "restore"} => run.tries < Retries
    BY DEF TypeInv, TypeOK
  <2>1. UNCHANGED <<want, restart, edits, at, cfg, look, key, config, stop, running, snap, held, pending, led, logical, toggled, faults>>
    BY <1>25 DEF Settle, outside, window, poll, shared, worker, device, world
  <2>2. run' \in Sessions
    BY <1>25, <1>0 DEF Settle, Sessions
  <2>3. pc' \in WorkerStates
    BY <1>25, <2>0 DEF Settle, WorkerStates
  <2>4. QED
    BY <2>1, <2>2, <2>3 DEF TypeInv, TypeOK
<1>26. CASE Reread
  <2>0. /\ run \in Sessions
        /\ snap \in Snapshots
        /\ logical \in BOOLEAN
        /\ led \in [Target -> BOOLEAN]
        /\ faults \in 0 .. MaxFaults
        /\ stop \in BOOLEAN
        /\ pending \in Operations
        /\ config \in Settings
        /\ cfg \in Settings
        /\ key \in Settings \union {NoKey}
        /\ held \in BOOLEAN
        /\ pc \in WorkerStates
        /\ at \in PollStates
        /\ running \in BOOLEAN
        /\ toggled \in BOOLEAN
        /\ pc \in {"reread", "restore"} => run.tries < Retries
    BY DEF TypeInv, TypeOK
  <2>1. UNCHANGED <<want, restart, edits, at, cfg, look, key, config, stop, running, snap, held, led, logical>>
    BY <1>26 DEF Reread, outside, window, poll, shared, worker, device, world
  <2>2. run' \in Sessions
      <3>1. CASE run' = [run EXCEPT !.now = led[run.target], !.seen = logical, !.fresh = TRUE]
        BY <2>0, <3>1 DEF Sessions
      <3>2. CASE run' = [run EXCEPT !.now = (run.original = "on"), !.seen = logical, !.fresh = FALSE]
        BY <2>0, <3>2 DEF Sessions
      <3>3. CASE run' = [run EXCEPT !.now = (run.original = "on"),
                                 !.seen = (run.original = "on"), !.fresh = FALSE]
        BY <2>0, <3>3 DEF Sessions
      <3>4. CASE TimesOut(Reading)
        BY <1>26, <2>0, <3>4, TimesOutType DEF Reread
      <3>5. QED
        BY <1>26, <3>1, <3>2, <3>3, <3>4 DEF Reread
  <2>3. pc' \in WorkerStates
    BY <1>26, <2>0 DEF Reread, TimesOut, WorkerStates
  <2>4. pending' \in Operations
    <3>1. pending' = pending \/ pending' = Reading
      BY <1>26 DEF Reread, TimesOut
    <3>2. QED
      BY <2>0, <3>1 DEF Operations
  <2>5. faults' \in 0 .. MaxFaults
      <3>1. faults' = faults \/ Fault
        BY <1>26 DEF Reread, TimesOut
      <3>2. QED
        BY <2>0, <3>1, CapsAssumption DEF Fault
  <2>6. toggled' \in BOOLEAN
    BY <1>26, <2>0 DEF Reread, TimesOut
  <2>7. QED
    BY <2>1, <2>2, <2>3, <2>4, <2>5, <2>6 DEF TypeInv, TypeOK
<1>27. CASE RestoreIndicators
  <2>0. /\ run \in Sessions
        /\ snap \in Snapshots
        /\ logical \in BOOLEAN
        /\ led \in [Target -> BOOLEAN]
        /\ faults \in 0 .. MaxFaults
        /\ stop \in BOOLEAN
        /\ pending \in Operations
        /\ config \in Settings
        /\ cfg \in Settings
        /\ key \in Settings \union {NoKey}
        /\ held \in BOOLEAN
        /\ pc \in WorkerStates
        /\ at \in PollStates
        /\ running \in BOOLEAN
        /\ toggled \in BOOLEAN
        /\ pc \in {"reread", "restore"} => run.tries < Retries
    BY DEF TypeInv, TypeOK
  <2>1. UNCHANGED <<want, restart, edits, at, cfg, look, key, config, stop, running, snap, held, logical, toggled>>
    BY <1>27 DEF RestoreIndicators, outside, window, poll, shared, worker, device, world
  <2>2. run' \in Sessions
      <3>1. CASE run' = [run EXCEPT !.cleanupError = run.cleanupError \/ ~run.fresh]
        BY <2>0, <3>1 DEF Sessions
      <3>2. CASE run' = [run EXCEPT !.cleanupError = TRUE]
        BY <2>0, <3>2 DEF Sessions
      <3>3. CASE TimesOut(Writing(run.target, Desired))
        BY <1>27, <2>0, <3>3, TimesOutType DEF RestoreIndicators
      <3>4. QED
        BY <1>27, <3>1, <3>2, <3>3 DEF RestoreIndicators
  <2>3. pc' \in WorkerStates
    BY <1>27, <2>0 DEF RestoreIndicators, TimesOut, Writing, WorkerStates
  <2>4. pending' \in Operations
      <3>1. pending' = pending \/ pending' \in {Writing(run.target, Desired)}
        BY <1>27 DEF RestoreIndicators, TimesOut, device
      <3>2. Desired \in BOOLEAN /\ run.target \in Target
        BY <2>0 DEF Desired, Sessions
      <3>3. QED
        BY <2>0, <3>1, <3>2 DEF Operations, Reading
  <2>5. faults' \in 0 .. MaxFaults
      <3>1. faults' = faults \/ Fault
        BY <1>27 DEF RestoreIndicators, TimesOut
      <3>2. QED
        BY <2>0, <3>1, CapsAssumption DEF Fault
  <2>6. led' \in [Target -> BOOLEAN]
      <3>1. Desired \in BOOLEAN /\ run.target \in Target
        BY <2>0 DEF Desired, Sessions
      <3>2. QED
        BY <1>27, <2>0, <3>1 DEF RestoreIndicators, device
  <2>7. QED
    BY <2>1, <2>2, <2>3, <2>4, <2>5, <2>6 DEF TypeInv, TypeOK
<1>28. CASE Close
  <2>0. /\ run \in Sessions
        /\ snap \in Snapshots
        /\ logical \in BOOLEAN
        /\ led \in [Target -> BOOLEAN]
        /\ faults \in 0 .. MaxFaults
        /\ stop \in BOOLEAN
        /\ pending \in Operations
        /\ config \in Settings
        /\ cfg \in Settings
        /\ key \in Settings \union {NoKey}
        /\ held \in BOOLEAN
        /\ pc \in WorkerStates
        /\ at \in PollStates
        /\ running \in BOOLEAN
        /\ toggled \in BOOLEAN
        /\ pc \in {"reread", "restore"} => run.tries < Retries
    BY DEF TypeInv, TypeOK
  <2>1. UNCHANGED <<want, restart, edits, at, cfg, look, key, config, stop, running, snap, pending, led, logical, toggled>>
    BY <1>28 DEF Close, outside, window, poll, shared, worker, device, world
  <2>2. run' \in Sessions
    BY <1>28, <1>0 DEF Close, Sessions
  <2>3. pc' \in WorkerStates
    BY <1>28, <2>0 DEF Close, WorkerStates
  <2>4. held' \in BOOLEAN
    BY <1>28, <2>0 DEF Close
  <2>5. faults' \in 0 .. MaxFaults
    BY <1>28, <2>0, CapsAssumption DEF Close, Fault
  <2>6. QED
    BY <2>1, <2>2, <2>3, <2>4, <2>5 DEF TypeInv, TypeOK
<1>29. CASE Ends
  <2>0. /\ run \in Sessions
        /\ snap \in Snapshots
        /\ logical \in BOOLEAN
        /\ led \in [Target -> BOOLEAN]
        /\ faults \in 0 .. MaxFaults
        /\ stop \in BOOLEAN
        /\ pending \in Operations
        /\ config \in Settings
        /\ cfg \in Settings
        /\ key \in Settings \union {NoKey}
        /\ held \in BOOLEAN
        /\ pc \in WorkerStates
        /\ at \in PollStates
        /\ running \in BOOLEAN
        /\ toggled \in BOOLEAN
        /\ pc \in {"reread", "restore"} => run.tries < Retries
    BY DEF TypeInv, TypeOK
  <2>1. UNCHANGED <<want, restart, edits, at, cfg, look, key, config, stop, run, held, pending, led, logical, toggled, faults>>
    BY <1>29 DEF Ends, outside, window, poll, shared, worker, device, world
  <2>2. snap' \in Snapshots
    BY <1>29, <2>0 DEF Ends, Snapshots, Phases
  <2>3. running' \in BOOLEAN
    BY <1>29, <2>0 DEF Ends
  <2>4. pc' \in WorkerStates
    BY <1>29, <2>0 DEF Ends, WorkerStates
  <2>5. QED
    BY <2>1, <2>2, <2>3, <2>4 DEF TypeInv, TypeOK
<1>30. CASE UNCHANGED vars
  BY <1>30, CapsAssumption DEF TypeOK, Settings, Snapshots, Phases, Sessions,
     Operations, NoOp, Reading, Writing, WorkerStates, PollStates, Enabled, TypeInv,
     vars, window, poll, shared, worker, device, world
<1>31. QED
  BY <1>1, <1>2, <1>3, <1>4, <1>5, <1>6, <1>7, <1>8, <1>9, <1>10, <1>11, <1>12, <1>13,
     <1>14, <1>15, <1>16, <1>17, <1>18, <1>19, <1>20, <1>21, <1>22, <1>23, <1>24, <1>25,
     <1>26, <1>27, <1>28, <1>29, <1>30 DEF Next, Window, Poll, Worker

LEMMA OwedWhereStep == IInv /\ [Next]_vars => OwedWhere'
<1> SUFFICES ASSUME IInv, [Next]_vars PROVE OwedWhere'
  OBVIOUS
<1>0. /\ OwedWhere
  BY DEF IInv, TypeInv, TypeOK
<1>1. CASE Edit
  BY <1>1, <1>0 DEF Edit, window, poll, shared, worker, device, world, OwedWhere, NoOp,
     Reading, Writing
<1>2. CASE AskRestart
  BY <1>2, <1>0 DEF AskRestart, window, poll, shared, worker, device, world, OwedWhere,
     NoOp, Reading, Writing
<1>3. CASE Toggle
  BY <1>3, <1>0 DEF Toggle, window, poll, shared, worker, device, world, OwedWhere,
     NoOp, Reading, Writing
<1>4. CASE DriverFinishes
  BY <1>4, <1>0 DEF DriverFinishes, window, poll, shared, worker, device, world,
     OwedWhere, NoOp, Reading, Writing
<1>5. CASE TickCancels
  BY <1>5, <1>0 DEF TickCancels, RequestStop, window, poll, shared, worker, device,
     world, OwedWhere, NoOp, Reading, Writing
<1>6. CASE TickRefreshes
  BY <1>6, <1>0 DEF TickRefreshes, window, poll, shared, worker, device, world,
     OwedWhere, NoOp, Reading, Writing
<1>7. CASE TakeRestart
  BY <1>7, <1>0 DEF TakeRestart, RequestStop, window, poll, shared, worker, device,
     world, OwedWhere, NoOp, Reading, Writing
<1>8. CASE Look
  BY <1>8, <1>0 DEF Look, window, poll, shared, worker, device, world, OwedWhere, NoOp,
     Reading, Writing
<1>9. CASE BacksOff
  BY <1>9, <1>0 DEF BacksOff, RequestStop, NoLook, window, poll, shared, worker, device,
     world, OwedWhere, NoOp, Reading, Writing
<1>10. CASE Satisfied
  BY <1>10, <1>0 DEF Satisfied, NoLook, window, poll, shared, worker, device, world,
     OwedWhere, NoOp, Reading, Writing
<1>11. CASE Updates
  BY <1>11, <1>0 DEF Updates, NoLook, window, poll, shared, worker, device, world,
     OwedWhere, NoOp, Reading, Writing
<1>12. CASE JoinedDisabled
  BY <1>12, <1>0 DEF JoinedDisabled, Joined, window, poll, shared, worker, device,
     world, OwedWhere, NoOp, Reading, Writing
<1>13. CASE JoinedStarts
  BY <1>13, <1>0 DEF JoinedStarts, Joined, NewSession, window, poll, shared, worker,
     device, world, OwedWhere, NoOp, Reading, Writing
<1>14. CASE Quit
  BY <1>14, <1>0 DEF Quit, RequestStop, window, poll, shared, worker, device, world,
     OwedWhere, NoOp, Reading, Writing
<1>15. CASE QuitJoins
  BY <1>15, <1>0 DEF QuitJoins, Joined, window, poll, shared, worker, device, world,
     OwedWhere, NoOp, Reading, Writing
<1>16. CASE Begins
  BY <1>16, <1>0 DEF Begins, NewSession, outside, window, poll, shared, worker, device,
     world, OwedWhere, NoOp, Reading, Writing
<1>17. CASE PublishStarting
  BY <1>17, <1>0 DEF PublishStarting, Publish, Failed, outside, window, poll, shared,
     worker, device, world, OwedWhere, NoOp, Reading, Writing
<1>18. CASE Open
  BY <1>18, <1>0 DEF Open, outside, window, poll, shared, worker, device, world,
     OwedWhere, NoOp, Reading, Writing
<1>19. CASE LeaveLoop
  BY <1>19, <1>0 DEF LeaveLoop, outside, window, poll, shared, worker, device, world,
     OwedWhere, NoOp, Reading, Writing
<1>20. CASE Read
  BY <1>20, <1>0 DEF Read, FailsWith, Flag, outside, window, poll, shared, worker,
     device, world, OwedWhere, NoOp, Reading, Writing
<1>21. CASE ReadLogical
  BY <1>21, <1>0 DEF ReadLogical, FailsWith, outside, window, poll, shared, worker,
     device, world, OwedWhere, NoOp, Reading, Writing
<1>22. CASE Write
  BY <1>22, <1>0 DEF Write, FailsWith, Writing, outside, window, poll, shared, worker,
     device, world, OwedWhere, NoOp, Reading, Writing
<1>23. CASE PublishIteration
  BY <1>23, <1>0 DEF PublishIteration, Publish, Failed, outside, window, poll, shared,
     worker, device, world, OwedWhere, NoOp, Reading, Writing
<1>24. CASE PublishStopping
  BY <1>24, <1>0 DEF PublishStopping, Publish, Failed, outside, window, poll, shared,
     worker, device, world, OwedWhere, NoOp, Reading, Writing
<1>25. CASE Settle
  BY <1>25, <1>0 DEF Settle, outside, window, poll, shared, worker, device, world,
     OwedWhere, NoOp, Reading, Writing
<1>26. CASE Reread
  BY <1>26, <1>0 DEF Reread, TimesOut, outside, window, poll, shared, worker, device,
     world, OwedWhere, NoOp, Reading, Writing
<1>27. CASE RestoreIndicators
  BY <1>27, <1>0 DEF RestoreIndicators, TimesOut, Desired, Writing, outside, window,
     poll, shared, worker, device, world, OwedWhere, NoOp, Reading, Writing
<1>28. CASE Close
  BY <1>28, <1>0 DEF Close, outside, window, poll, shared, worker, device, world,
     OwedWhere, NoOp, Reading, Writing
<1>29. CASE Ends
  BY <1>29, <1>0 DEF Ends, outside, window, poll, shared, worker, device, world,
     OwedWhere, NoOp, Reading, Writing
<1>30. CASE UNCHANGED vars
  BY <1>30, <1>0 DEF OwedWhere, NoOp, Reading, Writing, vars, window, poll, shared,
     worker, device, world
<1>31. QED
  BY <1>1, <1>2, <1>3, <1>4, <1>5, <1>6, <1>7, <1>8, <1>9, <1>10, <1>11, <1>12, <1>13,
     <1>14, <1>15, <1>16, <1>17, <1>18, <1>19, <1>20, <1>21, <1>22, <1>23, <1>24, <1>25,
     <1>26, <1>27, <1>28, <1>29, <1>30 DEF Next, Window, Poll, Worker

LEMMA SessionKnowsStep == IInv /\ [Next]_vars => SessionKnows'
<1> SUFFICES ASSUME IInv, [Next]_vars PROVE SessionKnows'
  OBVIOUS
<1>0. /\ SessionKnows
      /\ run \in Sessions
      /\ snap \in Snapshots
      /\ logical \in BOOLEAN
      /\ led \in [Target -> BOOLEAN]
  BY DEF IInv, TypeInv, TypeOK
<1>1. CASE Edit
  BY <1>1, <1>0 DEF Edit, window, poll, shared, worker, device, world, SessionKnows,
     Failed, Sessions, Snapshots
<1>2. CASE AskRestart
  BY <1>2, <1>0 DEF AskRestart, window, poll, shared, worker, device, world,
     SessionKnows, Failed, Sessions, Snapshots
<1>3. CASE Toggle
  BY <1>3, <1>0 DEF Toggle, window, poll, shared, worker, device, world, SessionKnows,
     Failed, Sessions, Snapshots
<1>4. CASE DriverFinishes
  BY <1>4, <1>0 DEF DriverFinishes, window, poll, shared, worker, device, world,
     SessionKnows, Failed, Sessions, Snapshots
<1>5. CASE TickCancels
  BY <1>5, <1>0 DEF TickCancels, RequestStop, window, poll, shared, worker, device,
     world, SessionKnows, Failed, Sessions, Snapshots
<1>6. CASE TickRefreshes
  BY <1>6, <1>0 DEF TickRefreshes, window, poll, shared, worker, device, world,
     SessionKnows, Failed, Sessions, Snapshots
<1>7. CASE TakeRestart
  BY <1>7, <1>0 DEF TakeRestart, RequestStop, window, poll, shared, worker, device,
     world, SessionKnows, Failed, Sessions, Snapshots
<1>8. CASE Look
  BY <1>8, <1>0 DEF Look, window, poll, shared, worker, device, world, SessionKnows,
     Failed, Sessions, Snapshots
<1>9. CASE BacksOff
  BY <1>9, <1>0 DEF BacksOff, RequestStop, NoLook, window, poll, shared, worker, device,
     world, SessionKnows, Failed, Sessions, Snapshots
<1>10. CASE Satisfied
  BY <1>10, <1>0 DEF Satisfied, NoLook, window, poll, shared, worker, device, world,
     SessionKnows, Failed, Sessions, Snapshots
<1>11. CASE Updates
  BY <1>11, <1>0 DEF Updates, NoLook, window, poll, shared, worker, device, world,
     SessionKnows, Failed, Sessions, Snapshots
<1>12. CASE JoinedDisabled
  BY <1>12, <1>0 DEF JoinedDisabled, Joined, window, poll, shared, worker, device,
     world, SessionKnows, Failed, Sessions, Snapshots
<1>13. CASE JoinedStarts
  BY <1>13, <1>0 DEF JoinedStarts, Joined, NewSession, window, poll, shared, worker,
     device, world, SessionKnows, Failed, Sessions, Snapshots
<1>14. CASE Quit
  BY <1>14, <1>0 DEF Quit, RequestStop, window, poll, shared, worker, device, world,
     SessionKnows, Failed, Sessions, Snapshots
<1>15. CASE QuitJoins
  BY <1>15, <1>0 DEF QuitJoins, Joined, window, poll, shared, worker, device, world,
     SessionKnows, Failed, Sessions, Snapshots
<1>16. CASE Begins
  BY <1>16, <1>0 DEF Begins, NewSession, outside, window, poll, shared, worker, device,
     world, SessionKnows, Failed, Sessions, Snapshots
<1>17. CASE PublishStarting
  BY <1>17, <1>0 DEF PublishStarting, Publish, Failed, outside, window, poll, shared,
     worker, device, world, SessionKnows, Failed, Sessions, Snapshots
<1>18. CASE Open
  BY <1>18, <1>0 DEF Open, outside, window, poll, shared, worker, device, world,
     SessionKnows, Failed, Sessions, Snapshots
<1>19. CASE LeaveLoop
  BY <1>19, <1>0 DEF LeaveLoop, outside, window, poll, shared, worker, device, world,
     SessionKnows, Failed, Sessions, Snapshots
<1>20. CASE Read
  BY <1>20, <1>0 DEF Read, FailsWith, Flag, outside, window, poll, shared, worker,
     device, world, SessionKnows, Failed, Sessions, Snapshots
<1>21. CASE ReadLogical
  BY <1>21, <1>0 DEF ReadLogical, FailsWith, outside, window, poll, shared, worker,
     device, world, SessionKnows, Failed, Sessions, Snapshots
<1>22. CASE Write
  BY <1>22, <1>0 DEF Write, FailsWith, outside, window, poll, shared, worker, device,
     world, SessionKnows, Failed, Sessions, Snapshots
<1>23. CASE PublishIteration
  BY <1>23, <1>0 DEF PublishIteration, Publish, Failed, outside, window, poll, shared,
     worker, device, world, SessionKnows, Failed, Sessions, Snapshots
<1>24. CASE PublishStopping
  BY <1>24, <1>0 DEF PublishStopping, Publish, Failed, outside, window, poll, shared,
     worker, device, world, SessionKnows, Failed, Sessions, Snapshots
<1>25. CASE Settle
  BY <1>25, <1>0 DEF Settle, outside, window, poll, shared, worker, device, world,
     SessionKnows, Failed, Sessions, Snapshots
<1>26. CASE Reread
  BY <1>26, <1>0 DEF Reread, TimesOut, outside, window, poll, shared, worker, device,
     world, SessionKnows, Failed, Sessions, Snapshots
<1>27. CASE RestoreIndicators
  BY <1>27, <1>0 DEF RestoreIndicators, TimesOut, Desired, outside, window, poll,
     shared, worker, device, world, SessionKnows, Failed, Sessions, Snapshots
<1>28. CASE Close
  BY <1>28, <1>0 DEF Close, outside, window, poll, shared, worker, device, world,
     SessionKnows, Failed, Sessions, Snapshots
<1>29. CASE Ends
  BY <1>29, <1>0 DEF Ends, outside, window, poll, shared, worker, device, world,
     SessionKnows, Failed, Sessions, Snapshots
<1>30. CASE UNCHANGED vars
  BY <1>30, <1>0 DEF SessionKnows, Failed, Sessions, Snapshots, vars, window, poll,
     shared, worker, device, world
<1>31. QED
  BY <1>1, <1>2, <1>3, <1>4, <1>5, <1>6, <1>7, <1>8, <1>9, <1>10, <1>11, <1>12, <1>13,
     <1>14, <1>15, <1>16, <1>17, <1>18, <1>19, <1>20, <1>21, <1>22, <1>23, <1>24, <1>25,
     <1>26, <1>27, <1>28, <1>29, <1>30 DEF Next, Window, Poll, Worker

LEMMA RestorationKnowsStep == IInv /\ [Next]_vars => RestorationKnows'
<1> SUFFICES ASSUME IInv, [Next]_vars PROVE RestorationKnows'
  OBVIOUS
<1>0. /\ RestorationKnows
      /\ SessionKnows
      /\ OwedWhere
      /\ run \in Sessions
      /\ led \in [Target -> BOOLEAN]
      /\ logical \in BOOLEAN
      /\ toggled \in BOOLEAN
  BY DEF IInv, TypeInv, TypeOK
<1>1. CASE Edit
  BY <1>1, <1>0 DEF Edit, window, poll, shared, worker, device, world, RestorationKnows,
     SessionKnows, OwedWhere, Failed, Sessions, NoOp
<1>2. CASE AskRestart
  BY <1>2, <1>0 DEF AskRestart, window, poll, shared, worker, device, world,
     RestorationKnows, SessionKnows, OwedWhere, Failed, Sessions, NoOp
<1>3. CASE Toggle
  BY <1>3, <1>0 DEF Toggle, window, poll, shared, worker, device, world,
     RestorationKnows, SessionKnows, OwedWhere, Failed, Sessions, NoOp
<1>4. CASE DriverFinishes
  BY <1>4, <1>0 DEF DriverFinishes, window, poll, shared, worker, device, world,
     RestorationKnows, SessionKnows, OwedWhere, Failed, Sessions, NoOp
<1>5. CASE TickCancels
  BY <1>5, <1>0 DEF TickCancels, RequestStop, window, poll, shared, worker, device,
     world, RestorationKnows, SessionKnows, OwedWhere, Failed, Sessions, NoOp
<1>6. CASE TickRefreshes
  BY <1>6, <1>0 DEF TickRefreshes, window, poll, shared, worker, device, world,
     RestorationKnows, SessionKnows, OwedWhere, Failed, Sessions, NoOp
<1>7. CASE TakeRestart
  BY <1>7, <1>0 DEF TakeRestart, RequestStop, window, poll, shared, worker, device,
     world, RestorationKnows, SessionKnows, OwedWhere, Failed, Sessions, NoOp
<1>8. CASE Look
  BY <1>8, <1>0 DEF Look, window, poll, shared, worker, device, world, RestorationKnows,
     SessionKnows, OwedWhere, Failed, Sessions, NoOp
<1>9. CASE BacksOff
  BY <1>9, <1>0 DEF BacksOff, RequestStop, NoLook, window, poll, shared, worker, device,
     world, RestorationKnows, SessionKnows, OwedWhere, Failed, Sessions, NoOp
<1>10. CASE Satisfied
  BY <1>10, <1>0 DEF Satisfied, NoLook, window, poll, shared, worker, device, world,
     RestorationKnows, SessionKnows, OwedWhere, Failed, Sessions, NoOp
<1>11. CASE Updates
  BY <1>11, <1>0 DEF Updates, NoLook, window, poll, shared, worker, device, world,
     RestorationKnows, SessionKnows, OwedWhere, Failed, Sessions, NoOp
<1>12. CASE JoinedDisabled
  BY <1>12, <1>0 DEF JoinedDisabled, Joined, window, poll, shared, worker, device,
     world, RestorationKnows, SessionKnows, OwedWhere, Failed, Sessions, NoOp
<1>13. CASE JoinedStarts
  BY <1>13, <1>0 DEF JoinedStarts, Joined, NewSession, window, poll, shared, worker,
     device, world, RestorationKnows, SessionKnows, OwedWhere, Failed, Sessions, NoOp
<1>14. CASE Quit
  BY <1>14, <1>0 DEF Quit, RequestStop, window, poll, shared, worker, device, world,
     RestorationKnows, SessionKnows, OwedWhere, Failed, Sessions, NoOp
<1>15. CASE QuitJoins
  BY <1>15, <1>0 DEF QuitJoins, Joined, window, poll, shared, worker, device, world,
     RestorationKnows, SessionKnows, OwedWhere, Failed, Sessions, NoOp
<1>16. CASE Begins
  BY <1>16, <1>0 DEF Begins, NewSession, outside, window, poll, shared, worker, device,
     world, RestorationKnows, SessionKnows, OwedWhere, Failed, Sessions, NoOp
<1>17. CASE PublishStarting
  BY <1>17, <1>0 DEF PublishStarting, Publish, Failed, outside, window, poll, shared,
     worker, device, world, RestorationKnows, SessionKnows, OwedWhere, Failed, Sessions,
     NoOp
<1>18. CASE Open
  BY <1>18, <1>0 DEF Open, outside, window, poll, shared, worker, device, world,
     RestorationKnows, SessionKnows, OwedWhere, Failed, Sessions, NoOp
<1>19. CASE LeaveLoop
  BY <1>19, <1>0 DEF LeaveLoop, outside, window, poll, shared, worker, device, world,
     RestorationKnows, SessionKnows, OwedWhere, Failed, Sessions, NoOp
<1>20. CASE Read
  BY <1>20, <1>0 DEF Read, FailsWith, Flag, outside, window, poll, shared, worker,
     device, world, RestorationKnows, SessionKnows, OwedWhere, Failed, Sessions, NoOp
<1>21. CASE ReadLogical
  BY <1>21, <1>0 DEF ReadLogical, FailsWith, outside, window, poll, shared, worker,
     device, world, RestorationKnows, SessionKnows, OwedWhere, Failed, Sessions, NoOp
<1>22. CASE Write
  BY <1>22, <1>0 DEF Write, FailsWith, outside, window, poll, shared, worker, device,
     world, RestorationKnows, SessionKnows, OwedWhere, Failed, Sessions, NoOp
<1>23. CASE PublishIteration
  BY <1>23, <1>0 DEF PublishIteration, Publish, Failed, outside, window, poll, shared,
     worker, device, world, RestorationKnows, SessionKnows, OwedWhere, Failed, Sessions,
     NoOp
<1>24. CASE PublishStopping
  BY <1>24, <1>0 DEF PublishStopping, Publish, Failed, outside, window, poll, shared,
     worker, device, world, RestorationKnows, SessionKnows, OwedWhere, Failed, Sessions,
     NoOp
<1>25. CASE Settle
  <2>1. run.tries < Retries \/ run.tries = Retries
    BY <1>0, CapsAssumption DEF Sessions
  <2>2. pc' = "close" => \/ run.original = "unknown" /\ run'.original = "unknown"
                        \/ run'.cleanupError
    BY <1>25, <1>0, <2>1 DEF Settle, Sessions, SessionKnows
  <2>3. QED
    BY <1>25, <2>2 DEF Settle, RestorationKnows
<1>26. CASE Reread
  <2>1. /\ pc' # "close" /\ led' = led /\ logical' = logical
        /\ \/ run' = [run EXCEPT !.now = led[run.target], !.seen = logical,
                                 !.fresh = TRUE]
           \/ run'.fresh = FALSE \/ pc' = "settle"
    BY <1>26, <1>0 DEF Reread, TimesOut, Sessions
  <2>2. QED
    BY <1>0, <2>1 DEF RestorationKnows, Sessions
<1>27. CASE RestoreIndicators
  BY <1>27, <1>0 DEF RestoreIndicators, TimesOut, Desired, outside, window, poll,
     shared, worker, device, world, RestorationKnows, SessionKnows, OwedWhere, Failed,
     Sessions, NoOp
<1>28. CASE Close
  BY <1>28, <1>0 DEF Close, outside, window, poll, shared, worker, device, world,
     RestorationKnows, SessionKnows, OwedWhere, Failed, Sessions, NoOp
<1>29. CASE Ends
  BY <1>29, <1>0 DEF Ends, outside, window, poll, shared, worker, device, world,
     RestorationKnows, SessionKnows, OwedWhere, Failed, Sessions, NoOp
<1>30. CASE UNCHANGED vars
  BY <1>30, <1>0 DEF RestorationKnows, SessionKnows, OwedWhere, Failed, Sessions, NoOp,
     vars, window, poll, shared, worker, device, world
<1>31. QED
  BY <1>1, <1>2, <1>3, <1>4, <1>5, <1>6, <1>7, <1>8, <1>9, <1>10, <1>11, <1>12, <1>13,
     <1>14, <1>15, <1>16, <1>17, <1>18, <1>19, <1>20, <1>21, <1>22, <1>23, <1>24, <1>25,
     <1>26, <1>27, <1>28, <1>29, <1>30 DEF Next, Window, Poll, Worker

LEMMA NoWorkerInForceStep == IInv /\ [Next]_vars => NoWorkerInForce'
<1> SUFFICES ASSUME IInv, [Next]_vars PROVE NoWorkerInForce'
  OBVIOUS
<1>0. /\ NoWorkerInForce
  BY DEF IInv, TypeInv, TypeOK
<1>1. CASE Edit
  BY <1>1, <1>0 DEF Edit, window, poll, shared, worker, device, world, NoWorkerInForce, Enabled
<1>2. CASE AskRestart
  BY <1>2, <1>0 DEF AskRestart, window, poll, shared, worker, device, world,
     NoWorkerInForce, Enabled
<1>3. CASE Toggle
  BY <1>3, <1>0 DEF Toggle, window, poll, shared, worker, device, world,
     NoWorkerInForce, Enabled
<1>4. CASE DriverFinishes
  BY <1>4, <1>0 DEF DriverFinishes, window, poll, shared, worker, device, world,
     NoWorkerInForce, Enabled
<1>5. CASE TickCancels
  BY <1>5, <1>0 DEF TickCancels, RequestStop, window, poll, shared, worker, device,
     world, NoWorkerInForce, Enabled
<1>6. CASE TickRefreshes
  BY <1>6, <1>0 DEF TickRefreshes, window, poll, shared, worker, device, world,
     NoWorkerInForce, Enabled
<1>7. CASE TakeRestart
  BY <1>7, <1>0 DEF TakeRestart, RequestStop, window, poll, shared, worker, device,
     world, NoWorkerInForce, Enabled
<1>8. CASE Look
  BY <1>8, <1>0 DEF Look, window, poll, shared, worker, device, world, NoWorkerInForce, Enabled
<1>9. CASE BacksOff
  BY <1>9, <1>0 DEF BacksOff, RequestStop, NoLook, window, poll, shared, worker, device,
     world, NoWorkerInForce, Enabled
<1>10. CASE Satisfied
  BY <1>10, <1>0 DEF Satisfied, NoLook, window, poll, shared, worker, device, world,
     NoWorkerInForce, Enabled
<1>11. CASE Updates
  BY <1>11, <1>0 DEF Updates, NoLook, window, poll, shared, worker, device, world,
     NoWorkerInForce, Enabled
<1>12. CASE JoinedDisabled
  BY <1>12, <1>0 DEF JoinedDisabled, Joined, window, poll, shared, worker, device,
     world, NoWorkerInForce, Enabled
<1>13. CASE JoinedStarts
  BY <1>13, <1>0 DEF JoinedStarts, Joined, NewSession, window, poll, shared, worker,
     device, world, NoWorkerInForce, Enabled
<1>14. CASE Quit
  BY <1>14, <1>0 DEF Quit, RequestStop, window, poll, shared, worker, device, world,
     NoWorkerInForce, Enabled
<1>15. CASE QuitJoins
  BY <1>15, <1>0 DEF QuitJoins, Joined, window, poll, shared, worker, device, world,
     NoWorkerInForce, Enabled
<1>16. CASE Begins
  BY <1>16, <1>0 DEF Begins, NewSession, outside, window, poll, shared, worker, device,
     world, NoWorkerInForce, Enabled
<1>17. CASE PublishStarting
  BY <1>17, <1>0 DEF PublishStarting, Publish, Failed, outside, window, poll, shared,
     worker, device, world, NoWorkerInForce, Enabled
<1>18. CASE Open
  BY <1>18, <1>0 DEF Open, outside, window, poll, shared, worker, device, world,
     NoWorkerInForce, Enabled
<1>19. CASE LeaveLoop
  BY <1>19, <1>0 DEF LeaveLoop, outside, window, poll, shared, worker, device, world,
     NoWorkerInForce, Enabled
<1>20. CASE Read
  BY <1>20, <1>0 DEF Read, FailsWith, Flag, outside, window, poll, shared, worker,
     device, world, NoWorkerInForce, Enabled
<1>21. CASE ReadLogical
  BY <1>21, <1>0 DEF ReadLogical, FailsWith, outside, window, poll, shared, worker,
     device, world, NoWorkerInForce, Enabled
<1>22. CASE Write
  BY <1>22, <1>0 DEF Write, FailsWith, outside, window, poll, shared, worker, device,
     world, NoWorkerInForce, Enabled
<1>23. CASE PublishIteration
  BY <1>23, <1>0 DEF PublishIteration, Publish, Failed, outside, window, poll, shared,
     worker, device, world, NoWorkerInForce, Enabled
<1>24. CASE PublishStopping
  BY <1>24, <1>0 DEF PublishStopping, Publish, Failed, outside, window, poll, shared,
     worker, device, world, NoWorkerInForce, Enabled
<1>25. CASE Settle
  BY <1>25, <1>0 DEF Settle, outside, window, poll, shared, worker, device, world,
     NoWorkerInForce, Enabled
<1>26. CASE Reread
  BY <1>26, <1>0 DEF Reread, TimesOut, outside, window, poll, shared, worker, device,
     world, NoWorkerInForce, Enabled
<1>27. CASE RestoreIndicators
  BY <1>27, <1>0 DEF RestoreIndicators, TimesOut, Desired, outside, window, poll,
     shared, worker, device, world, NoWorkerInForce, Enabled
<1>28. CASE Close
  BY <1>28, <1>0 DEF Close, outside, window, poll, shared, worker, device, world,
     NoWorkerInForce, Enabled
<1>29. CASE Ends
  BY <1>29, <1>0 DEF Ends, outside, window, poll, shared, worker, device, world,
     NoWorkerInForce, Enabled
<1>30. CASE UNCHANGED vars
  BY <1>30, <1>0 DEF NoWorkerInForce, Enabled, vars, window, poll, shared, worker,
     device, world
<1>31. QED
  BY <1>1, <1>2, <1>3, <1>4, <1>5, <1>6, <1>7, <1>8, <1>9, <1>10, <1>11, <1>12, <1>13,
     <1>14, <1>15, <1>16, <1>17, <1>18, <1>19, <1>20, <1>21, <1>22, <1>23, <1>24, <1>25,
     <1>26, <1>27, <1>28, <1>29, <1>30 DEF Next, Window, Poll, Worker

LEMMA SnapshotIsHonestStep == IInv /\ [Next]_vars => SnapshotIsHonest'
<1> SUFFICES ASSUME IInv, [Next]_vars PROVE SnapshotIsHonest'
  OBVIOUS
<1>0. /\ SnapshotIsHonest
      /\ snap \in Snapshots
      /\ running \in BOOLEAN
  BY DEF IInv, TypeInv, TypeOK
<1>1. CASE Edit
  BY <1>1, <1>0 DEF Edit, window, poll, shared, worker, device, world, SnapshotIsHonest,
     Snapshots
<1>2. CASE AskRestart
  BY <1>2, <1>0 DEF AskRestart, window, poll, shared, worker, device, world,
     SnapshotIsHonest, Snapshots
<1>3. CASE Toggle
  BY <1>3, <1>0 DEF Toggle, window, poll, shared, worker, device, world,
     SnapshotIsHonest, Snapshots
<1>4. CASE DriverFinishes
  BY <1>4, <1>0 DEF DriverFinishes, window, poll, shared, worker, device, world,
     SnapshotIsHonest, Snapshots
<1>5. CASE TickCancels
  BY <1>5, <1>0 DEF TickCancels, RequestStop, window, poll, shared, worker, device,
     world, SnapshotIsHonest, Snapshots
<1>6. CASE TickRefreshes
  BY <1>6, <1>0 DEF TickRefreshes, window, poll, shared, worker, device, world,
     SnapshotIsHonest, Snapshots
<1>7. CASE TakeRestart
  BY <1>7, <1>0 DEF TakeRestart, RequestStop, window, poll, shared, worker, device,
     world, SnapshotIsHonest, Snapshots
<1>8. CASE Look
  BY <1>8, <1>0 DEF Look, window, poll, shared, worker, device, world, SnapshotIsHonest,
     Snapshots
<1>9. CASE BacksOff
  BY <1>9, <1>0 DEF BacksOff, RequestStop, NoLook, window, poll, shared, worker, device,
     world, SnapshotIsHonest, Snapshots
<1>10. CASE Satisfied
  BY <1>10, <1>0 DEF Satisfied, NoLook, window, poll, shared, worker, device, world,
     SnapshotIsHonest, Snapshots
<1>11. CASE Updates
  BY <1>11, <1>0 DEF Updates, NoLook, window, poll, shared, worker, device, world,
     SnapshotIsHonest, Snapshots
<1>12. CASE JoinedDisabled
  BY <1>12, <1>0 DEF JoinedDisabled, Joined, window, poll, shared, worker, device,
     world, SnapshotIsHonest, Snapshots
<1>13. CASE JoinedStarts
  <2>1. pc = "none" /\ running = FALSE
    BY <1>13, <1>0 DEF JoinedStarts, Joined, SnapshotIsHonest
  <2>2. \/ /\ running' = TRUE /\ pc' = "head" /\ snap'.running = TRUE
        \/ /\ running' = FALSE /\ pc' = "none" /\ snap'.running = FALSE
    BY <1>13, <2>1 DEF JoinedStarts
  <2>3. QED
    BY <2>2, Zenon DEF SnapshotIsHonest
<1>14. CASE Quit
  BY <1>14, <1>0 DEF Quit, RequestStop, window, poll, shared, worker, device, world,
     SnapshotIsHonest, Snapshots
<1>15. CASE QuitJoins
  BY <1>15, <1>0 DEF QuitJoins, Joined, window, poll, shared, worker, device, world,
     SnapshotIsHonest, Snapshots
<1>16. CASE Begins
  BY <1>16, <1>0 DEF Begins, NewSession, outside, window, poll, shared, worker, device,
     world, SnapshotIsHonest, Snapshots
<1>17. CASE PublishStarting
  BY <1>17, <1>0 DEF PublishStarting, Publish, Failed, outside, window, poll, shared,
     worker, device, world, SnapshotIsHonest, Snapshots
<1>18. CASE Open
  BY <1>18, <1>0 DEF Open, outside, window, poll, shared, worker, device, world,
     SnapshotIsHonest, Snapshots
<1>19. CASE LeaveLoop
  BY <1>19, <1>0 DEF LeaveLoop, outside, window, poll, shared, worker, device, world,
     SnapshotIsHonest, Snapshots
<1>20. CASE Read
  BY <1>20, <1>0 DEF Read, FailsWith, Flag, outside, window, poll, shared, worker,
     device, world, SnapshotIsHonest, Snapshots
<1>21. CASE ReadLogical
  BY <1>21, <1>0 DEF ReadLogical, FailsWith, outside, window, poll, shared, worker,
     device, world, SnapshotIsHonest, Snapshots
<1>22. CASE Write
  BY <1>22, <1>0 DEF Write, FailsWith, outside, window, poll, shared, worker, device,
     world, SnapshotIsHonest, Snapshots
<1>23. CASE PublishIteration
  BY <1>23, <1>0 DEF PublishIteration, Publish, Failed, outside, window, poll, shared,
     worker, device, world, SnapshotIsHonest, Snapshots
<1>24. CASE PublishStopping
  BY <1>24, <1>0 DEF PublishStopping, Publish, Failed, outside, window, poll, shared,
     worker, device, world, SnapshotIsHonest, Snapshots
<1>25. CASE Settle
  BY <1>25, <1>0 DEF Settle, outside, window, poll, shared, worker, device, world,
     SnapshotIsHonest, Snapshots
<1>26. CASE Reread
  BY <1>26, <1>0 DEF Reread, TimesOut, outside, window, poll, shared, worker, device,
     world, SnapshotIsHonest, Snapshots
<1>27. CASE RestoreIndicators
  BY <1>27, <1>0 DEF RestoreIndicators, TimesOut, Desired, outside, window, poll,
     shared, worker, device, world, SnapshotIsHonest, Snapshots
<1>28. CASE Close
  BY <1>28, <1>0 DEF Close, outside, window, poll, shared, worker, device, world,
     SnapshotIsHonest, Snapshots
<1>29. CASE Ends
  BY <1>29, <1>0 DEF Ends, outside, window, poll, shared, worker, device, world,
     SnapshotIsHonest, Snapshots
<1>30. CASE UNCHANGED vars
  BY <1>30, <1>0 DEF SnapshotIsHonest, Snapshots, vars, window, poll, shared, worker,
     device, world
<1>31. QED
  BY <1>1, <1>2, <1>3, <1>4, <1>5, <1>6, <1>7, <1>8, <1>9, <1>10, <1>11, <1>12, <1>13,
     <1>14, <1>15, <1>16, <1>17, <1>18, <1>19, <1>20, <1>21, <1>22, <1>23, <1>24, <1>25,
     <1>26, <1>27, <1>28, <1>29, <1>30 DEF Next, Window, Poll, Worker

LEMMA IndicatorRestoredStep == IInv /\ [Next]_vars => IndicatorRestored'
<1> SUFFICES ASSUME IInv, [Next]_vars PROVE IndicatorRestored'
  OBVIOUS
<1>0. /\ IndicatorRestored
      /\ RestorationKnows
      /\ SessionKnows
      /\ OwedWhere
      /\ run \in Sessions
      /\ led \in [Target -> BOOLEAN]
      /\ logical \in BOOLEAN
      /\ toggled \in BOOLEAN
  BY DEF IInv, TypeInv, TypeOK
<1>1. CASE Edit
  BY <1>1, <1>0 DEF Edit, window, poll, shared, worker, device, world,
     IndicatorRestored, RestorationKnows, SessionKnows, OwedWhere, Failed, Sessions,
     NoOp
<1>2. CASE AskRestart
  BY <1>2, <1>0 DEF AskRestart, window, poll, shared, worker, device, world,
     IndicatorRestored, RestorationKnows, SessionKnows, OwedWhere, Failed, Sessions,
     NoOp
<1>3. CASE Toggle
  BY <1>3, <1>0 DEF Toggle, window, poll, shared, worker, device, world,
     IndicatorRestored, RestorationKnows, SessionKnows, OwedWhere, Failed, Sessions,
     NoOp
<1>4. CASE DriverFinishes
  BY <1>4, <1>0 DEF DriverFinishes, window, poll, shared, worker, device, world,
     IndicatorRestored, RestorationKnows, SessionKnows, OwedWhere, Failed, Sessions,
     NoOp
<1>5. CASE TickCancels
  BY <1>5, <1>0 DEF TickCancels, RequestStop, window, poll, shared, worker, device,
     world, IndicatorRestored, RestorationKnows, SessionKnows, OwedWhere, Failed,
     Sessions, NoOp
<1>6. CASE TickRefreshes
  BY <1>6, <1>0 DEF TickRefreshes, window, poll, shared, worker, device, world,
     IndicatorRestored, RestorationKnows, SessionKnows, OwedWhere, Failed, Sessions,
     NoOp
<1>7. CASE TakeRestart
  BY <1>7, <1>0 DEF TakeRestart, RequestStop, window, poll, shared, worker, device,
     world, IndicatorRestored, RestorationKnows, SessionKnows, OwedWhere, Failed,
     Sessions, NoOp
<1>8. CASE Look
  BY <1>8, <1>0 DEF Look, window, poll, shared, worker, device, world,
     IndicatorRestored, RestorationKnows, SessionKnows, OwedWhere, Failed, Sessions,
     NoOp
<1>9. CASE BacksOff
  BY <1>9, <1>0 DEF BacksOff, RequestStop, NoLook, window, poll, shared, worker, device,
     world, IndicatorRestored, RestorationKnows, SessionKnows, OwedWhere, Failed,
     Sessions, NoOp
<1>10. CASE Satisfied
  BY <1>10, <1>0 DEF Satisfied, NoLook, window, poll, shared, worker, device, world,
     IndicatorRestored, RestorationKnows, SessionKnows, OwedWhere, Failed, Sessions,
     NoOp
<1>11. CASE Updates
  BY <1>11, <1>0 DEF Updates, NoLook, window, poll, shared, worker, device, world,
     IndicatorRestored, RestorationKnows, SessionKnows, OwedWhere, Failed, Sessions,
     NoOp
<1>12. CASE JoinedDisabled
  BY <1>12, <1>0 DEF JoinedDisabled, Joined, window, poll, shared, worker, device,
     world, IndicatorRestored, RestorationKnows, SessionKnows, OwedWhere, Failed,
     Sessions, NoOp
<1>13. CASE JoinedStarts
  BY <1>13, <1>0 DEF JoinedStarts, Joined, NewSession, window, poll, shared, worker,
     device, world, IndicatorRestored, RestorationKnows, SessionKnows, OwedWhere,
     Failed, Sessions, NoOp
<1>14. CASE Quit
  BY <1>14, <1>0 DEF Quit, RequestStop, window, poll, shared, worker, device, world,
     IndicatorRestored, RestorationKnows, SessionKnows, OwedWhere, Failed, Sessions,
     NoOp
<1>15. CASE QuitJoins
  BY <1>15, <1>0 DEF QuitJoins, Joined, window, poll, shared, worker, device, world,
     IndicatorRestored, RestorationKnows, SessionKnows, OwedWhere, Failed, Sessions,
     NoOp
<1>16. CASE Begins
  BY <1>16, <1>0 DEF Begins, NewSession, outside, window, poll, shared, worker, device,
     world, IndicatorRestored, RestorationKnows, SessionKnows, OwedWhere, Failed,
     Sessions, NoOp
<1>17. CASE PublishStarting
  BY <1>17, <1>0 DEF PublishStarting, Publish, Failed, outside, window, poll, shared,
     worker, device, world, IndicatorRestored, RestorationKnows, SessionKnows,
     OwedWhere, Failed, Sessions, NoOp
<1>18. CASE Open
  BY <1>18, <1>0 DEF Open, outside, window, poll, shared, worker, device, world,
     IndicatorRestored, RestorationKnows, SessionKnows, OwedWhere, Failed, Sessions,
     NoOp
<1>19. CASE LeaveLoop
  BY <1>19, <1>0 DEF LeaveLoop, outside, window, poll, shared, worker, device, world,
     IndicatorRestored, RestorationKnows, SessionKnows, OwedWhere, Failed, Sessions,
     NoOp
<1>20. CASE Read
  BY <1>20, <1>0 DEF Read, FailsWith, Flag, outside, window, poll, shared, worker,
     device, world, IndicatorRestored, RestorationKnows, SessionKnows, OwedWhere,
     Failed, Sessions, NoOp
<1>21. CASE ReadLogical
  BY <1>21, <1>0 DEF ReadLogical, FailsWith, outside, window, poll, shared, worker,
     device, world, IndicatorRestored, RestorationKnows, SessionKnows, OwedWhere,
     Failed, Sessions, NoOp
<1>22. CASE Write
  BY <1>22, <1>0 DEF Write, FailsWith, outside, window, poll, shared, worker, device,
     world, IndicatorRestored, RestorationKnows, SessionKnows, OwedWhere, Failed,
     Sessions, NoOp
<1>23. CASE PublishIteration
  BY <1>23, <1>0 DEF PublishIteration, Publish, Failed, outside, window, poll, shared,
     worker, device, world, IndicatorRestored, RestorationKnows, SessionKnows,
     OwedWhere, Failed, Sessions, NoOp
<1>24. CASE PublishStopping
  BY <1>24, <1>0 DEF PublishStopping, Publish, Failed, outside, window, poll, shared,
     worker, device, world, IndicatorRestored, RestorationKnows, SessionKnows,
     OwedWhere, Failed, Sessions, NoOp
<1>25. CASE Settle
  BY <1>25, <1>0 DEF Settle, outside, window, poll, shared, worker, device, world,
     IndicatorRestored, RestorationKnows, SessionKnows, OwedWhere, Failed, Sessions,
     NoOp
<1>26. CASE Reread
  BY <1>26, <1>0 DEF Reread, TimesOut, outside, window, poll, shared, worker, device,
     world, IndicatorRestored, RestorationKnows, SessionKnows, OwedWhere, Failed,
     Sessions, NoOp
<1>27. CASE RestoreIndicators
  BY <1>27, <1>0 DEF RestoreIndicators, TimesOut, Desired, outside, window, poll,
     shared, worker, device, world, IndicatorRestored, RestorationKnows, SessionKnows,
     OwedWhere, Failed, Sessions, NoOp
<1>28. CASE Close
  BY <1>28, <1>0 DEF Close, outside, window, poll, shared, worker, device, world,
     IndicatorRestored, RestorationKnows, SessionKnows, OwedWhere, Failed, Sessions,
     NoOp
<1>29. CASE Ends
  BY <1>29, <1>0 DEF Ends, outside, window, poll, shared, worker, device, world,
     IndicatorRestored, RestorationKnows, SessionKnows, OwedWhere, Failed, Sessions,
     NoOp
<1>30. CASE UNCHANGED vars
  BY <1>30, <1>0 DEF IndicatorRestored, RestorationKnows, SessionKnows, OwedWhere,
     Failed, Sessions, NoOp, vars, window, poll, shared, worker, device, world
<1>31. QED
  BY <1>1, <1>2, <1>3, <1>4, <1>5, <1>6, <1>7, <1>8, <1>9, <1>10, <1>11, <1>12, <1>13,
     <1>14, <1>15, <1>16, <1>17, <1>18, <1>19, <1>20, <1>21, <1>22, <1>23, <1>24, <1>25,
     <1>26, <1>27, <1>28, <1>29, <1>30 DEF Next, Window, Poll, Worker

\* Settle lets a restoration begin only while tries are left.
LEMMA TryingStep ==
    TypeInv /\ [Next]_vars => (pc' \in {"reread", "restore"} => run'.tries < Retries)
<1> SUFFICES ASSUME TypeInv, [Next]_vars
             PROVE  pc' \in {"reread", "restore"} => run'.tries < Retries
  OBVIOUS
<1>0. /\ run \in Sessions
      /\ pc \in {"reread", "restore"} => run.tries < Retries
  BY DEF TypeInv, TypeOK
<1>1. CASE Edit
  BY <1>1, <1>0 DEF Edit, window, poll, shared, worker, device, world, Sessions
<1>2. CASE AskRestart
  BY <1>2, <1>0 DEF AskRestart, window, poll, shared, worker, device, world, Sessions
<1>3. CASE Toggle
  BY <1>3, <1>0 DEF Toggle, window, poll, shared, worker, device, world, Sessions
<1>4. CASE DriverFinishes
  BY <1>4, <1>0 DEF DriverFinishes, window, poll, shared, worker, device, world, Sessions
<1>5. CASE TickCancels
  BY <1>5, <1>0 DEF TickCancels, RequestStop, window, poll, shared, worker, device,
     world, Sessions
<1>6. CASE TickRefreshes
  BY <1>6, <1>0 DEF TickRefreshes, window, poll, shared, worker, device, world, Sessions
<1>7. CASE TakeRestart
  BY <1>7, <1>0 DEF TakeRestart, RequestStop, window, poll, shared, worker, device,
     world, Sessions
<1>8. CASE Look
  BY <1>8, <1>0 DEF Look, window, poll, shared, worker, device, world, Sessions
<1>9. CASE BacksOff
  BY <1>9, <1>0 DEF BacksOff, RequestStop, NoLook, window, poll, shared, worker, device,
     world, Sessions
<1>10. CASE Satisfied
  BY <1>10, <1>0 DEF Satisfied, NoLook, window, poll, shared, worker, device, world, Sessions
<1>11. CASE Updates
  BY <1>11, <1>0 DEF Updates, NoLook, window, poll, shared, worker, device, world, Sessions
<1>12. CASE JoinedDisabled
  BY <1>12, <1>0 DEF JoinedDisabled, Joined, window, poll, shared, worker, device,
     world, Sessions
<1>13. CASE JoinedStarts
  BY <1>13, <1>0 DEF JoinedStarts, Joined, NewSession, window, poll, shared, worker,
     device, world, Sessions
<1>14. CASE Quit
  BY <1>14, <1>0 DEF Quit, RequestStop, window, poll, shared, worker, device, world, Sessions
<1>15. CASE QuitJoins
  BY <1>15, <1>0 DEF QuitJoins, Joined, window, poll, shared, worker, device, world, Sessions
<1>16. CASE Begins
  BY <1>16, <1>0 DEF Begins, NewSession, outside, window, poll, shared, worker, device,
     world, Sessions
<1>17. CASE PublishStarting
  BY <1>17, <1>0 DEF PublishStarting, Publish, Failed, outside, window, poll, shared,
     worker, device, world, Sessions
<1>18. CASE Open
  BY <1>18, <1>0 DEF Open, outside, window, poll, shared, worker, device, world, Sessions
<1>19. CASE LeaveLoop
  BY <1>19, <1>0 DEF LeaveLoop, outside, window, poll, shared, worker, device, world, Sessions
<1>20. CASE Read
  BY <1>20, <1>0 DEF Read, FailsWith, Flag, outside, window, poll, shared, worker,
     device, world, Sessions
<1>21. CASE ReadLogical
  BY <1>21, <1>0 DEF ReadLogical, FailsWith, outside, window, poll, shared, worker,
     device, world, Sessions
<1>22. CASE Write
  BY <1>22, <1>0 DEF Write, FailsWith, outside, window, poll, shared, worker, device,
     world, Sessions
<1>23. CASE PublishIteration
  BY <1>23, <1>0 DEF PublishIteration, Publish, Failed, outside, window, poll, shared,
     worker, device, world, Sessions
<1>24. CASE PublishStopping
  BY <1>24, <1>0 DEF PublishStopping, Publish, Failed, outside, window, poll, shared,
     worker, device, world, Sessions
<1>25. CASE Settle
  BY <1>25, <1>0 DEF Settle, outside, window, poll, shared, worker, device, world, Sessions
<1>26. CASE Reread
  BY <1>26, <1>0 DEF Reread, TimesOut, outside, window, poll, shared, worker, device,
     world, Sessions
<1>27. CASE RestoreIndicators
  BY <1>27, <1>0 DEF RestoreIndicators, TimesOut, Desired, outside, window, poll,
     shared, worker, device, world, Sessions
<1>28. CASE Close
  BY <1>28, <1>0 DEF Close, outside, window, poll, shared, worker, device, world, Sessions
<1>29. CASE Ends
  BY <1>29, <1>0 DEF Ends, outside, window, poll, shared, worker, device, world, Sessions
<1>30. CASE UNCHANGED vars
  BY <1>30, <1>0 DEF Sessions, vars, window, poll, shared, worker, device, world
<1>31. QED
  BY <1>1, <1>2, <1>3, <1>4, <1>5, <1>6, <1>7, <1>8, <1>9, <1>10, <1>11, <1>12, <1>13,
     <1>14, <1>15, <1>16, <1>17, <1>18, <1>19, <1>20, <1>21, <1>22, <1>23, <1>24, <1>25,
     <1>26, <1>27, <1>28, <1>29, <1>30 DEF Next, Window, Poll, Worker

THEOREM Inductive == Spec => []IInv
<1>1. Init => IInv
  <2> SUFFICES ASSUME Init PROVE IInv
    OBVIOUS
  <2>1. run \in Sessions /\ run.original = "unknown" /\ ~Failed
    BY NewSessionType DEF Init, NewSession, Failed
  <2>2. TypeOK
    <3>1. snap \in Snapshots /\ look \in Snapshots
      BY SnapshotType DEF Init, NoLook, Phases
    <3>2. edits \in 0 .. MaxEdits /\ faults \in 0 .. MaxFaults
      BY CapsAssumption DEF Init
    <3>3. /\ want \in Settings /\ at \in PollStates /\ cfg \in Settings
          /\ key \in Settings \union {NoKey} /\ config \in Settings
          /\ pc \in WorkerStates
      BY DEF Init, Settings, PollStates, WorkerStates
    <3>4. pending \in Operations /\ led \in [Target -> BOOLEAN]
      BY DEF Init, Operations
    <3>5. QED
      BY <2>1, <3>1, <3>2, <3>3, <3>4 DEF Init, TypeOK
  <2>3. QED
    BY <2>1, <2>2 DEF Init, NoLook, IInv, TypeInv, OwedWhere, SessionKnows,
       RestorationKnows, NoWorkerInForce, SnapshotIsHonest, IndicatorRestored
<1>2. IInv /\ [Next]_vars => IInv'
  <2>1. IInv => TypeInv
    BY DEF IInv
  <2>2. TypeInv /\ [Next]_vars => TypeInv'
    BY TypeStep, TryingStep DEF TypeInv
  <2>3. QED
    BY <2>1, <2>2, OwedWhereStep, SessionKnowsStep, RestorationKnowsStep,
       NoWorkerInForceStep, SnapshotIsHonestStep, IndicatorRestoredStep DEF IInv
<1>3. QED
  BY <1>1, <1>2, PTL DEF Spec

-----------------------------------------------------------------------------
(* The theorems.                                                            *)

\* Every variable keeps its type.
THEOREM TypeCorrect == Spec => []TypeOK
<1>1. IInv => TypeOK
  BY DEF IInv, TypeInv
<1>2. QED
  BY <1>1, Inductive, PTL

\* The worker lets go of a keyboard only when the driver owes nothing any
\* more: no late write can reach a keyboard that was let go.
THEOREM NoLateWrite == Spec => []ClosesSettled
<1>1. IInv => ClosesSettled
  BY DEF IInv, OwedWhere, ClosesSettled
<1>2. QED
  BY <1>1, Inductive, PTL

\* After a session the indicator shows Caps Lock or a failure is on record.
THEOREM Restoration == Spec => []IndicatorRestored
<1>1. IInv => IndicatorRestored
  BY DEF IInv
<1>2. QED
  BY <1>1, Inductive, PTL

\* Disabled settings in force, and the end of the program, mean no worker.
THEOREM DisabledIsQuiet == Spec => []DisabledMeansNoWorker
<1>1. IInv => DisabledMeansNoWorker
  BY DEF IInv, NoWorkerInForce, DisabledMeansNoWorker
<1>2. QED
  BY <1>1, Inductive, PTL

\* The snapshot says `running' exactly while a worker may still act.
THEOREM HonestSnapshot == Spec => []SnapshotIsHonest
<1>1. IInv => SnapshotIsHonest
  BY DEF IInv
<1>2. QED
  BY <1>1, Inductive, PTL

\* No failure disappears before a new worker is started.
LEMMA FailureStep == IInv /\ [Next]_vars => [KeepsFailure]_vars
<1> SUFFICES ASSUME IInv, [Next]_vars PROVE KeepsFailure
  OBVIOUS
<1>0. /\ SessionKnows
      /\ run \in Sessions /\ snap \in Snapshots
  BY DEF IInv, TypeInv, TypeOK
<1>1. CASE Edit
  BY <1>1, <1>0 DEF Edit, window, poll, shared, worker, device, world, KeepsFailure,
     Failed, SessionKnows, Sessions, Snapshots
<1>2. CASE AskRestart
  BY <1>2, <1>0 DEF AskRestart, window, poll, shared, worker, device, world,
     KeepsFailure, Failed, SessionKnows, Sessions, Snapshots
<1>3. CASE Toggle
  BY <1>3, <1>0 DEF Toggle, window, poll, shared, worker, device, world, KeepsFailure,
     Failed, SessionKnows, Sessions, Snapshots
<1>4. CASE DriverFinishes
  BY <1>4, <1>0 DEF DriverFinishes, window, poll, shared, worker, device, world,
     KeepsFailure, Failed, SessionKnows, Sessions, Snapshots
<1>5. CASE TickCancels
  BY <1>5, <1>0 DEF TickCancels, RequestStop, window, poll, shared, worker, device,
     world, KeepsFailure, Failed, SessionKnows, Sessions, Snapshots
<1>6. CASE TickRefreshes
  BY <1>6, <1>0 DEF TickRefreshes, window, poll, shared, worker, device, world,
     KeepsFailure, Failed, SessionKnows, Sessions, Snapshots
<1>7. CASE TakeRestart
  BY <1>7, <1>0 DEF TakeRestart, RequestStop, window, poll, shared, worker, device,
     world, KeepsFailure, Failed, SessionKnows, Sessions, Snapshots
<1>8. CASE Look
  BY <1>8, <1>0 DEF Look, window, poll, shared, worker, device, world, KeepsFailure,
     Failed, SessionKnows, Sessions, Snapshots
<1>9. CASE BacksOff
  BY <1>9, <1>0 DEF BacksOff, RequestStop, NoLook, window, poll, shared, worker, device,
     world, KeepsFailure, Failed, SessionKnows, Sessions, Snapshots
<1>10. CASE Satisfied
  BY <1>10, <1>0 DEF Satisfied, NoLook, window, poll, shared, worker, device, world,
     KeepsFailure, Failed, SessionKnows, Sessions, Snapshots
<1>11. CASE Updates
  BY <1>11, <1>0 DEF Updates, NoLook, window, poll, shared, worker, device, world,
     KeepsFailure, Failed, SessionKnows, Sessions, Snapshots
<1>12. CASE JoinedDisabled
  BY <1>12, <1>0 DEF JoinedDisabled, Joined, window, poll, shared, worker, device,
     world, KeepsFailure, Failed, SessionKnows, Sessions, Snapshots
<1>13. CASE JoinedStarts
  BY <1>13, <1>0 DEF JoinedStarts, Joined, NewSession, window, poll, shared, worker,
     device, world, KeepsFailure, Failed, SessionKnows, Sessions, Snapshots
<1>14. CASE Quit
  BY <1>14, <1>0 DEF Quit, RequestStop, window, poll, shared, worker, device, world,
     KeepsFailure, Failed, SessionKnows, Sessions, Snapshots
<1>15. CASE QuitJoins
  BY <1>15, <1>0 DEF QuitJoins, Joined, window, poll, shared, worker, device, world,
     KeepsFailure, Failed, SessionKnows, Sessions, Snapshots
<1>16. CASE Begins
  BY <1>16, <1>0 DEF Begins, NewSession, outside, window, poll, shared, worker, device,
     world, KeepsFailure, Failed, SessionKnows, Sessions, Snapshots
<1>17. CASE PublishStarting
  BY <1>17, <1>0 DEF PublishStarting, Publish, Failed, outside, window, poll, shared,
     worker, device, world, KeepsFailure, Failed, SessionKnows, Sessions, Snapshots
<1>18. CASE Open
  BY <1>18, <1>0 DEF Open, outside, window, poll, shared, worker, device, world,
     KeepsFailure, Failed, SessionKnows, Sessions, Snapshots
<1>19. CASE LeaveLoop
  BY <1>19, <1>0 DEF LeaveLoop, outside, window, poll, shared, worker, device, world,
     KeepsFailure, Failed, SessionKnows, Sessions, Snapshots
<1>20. CASE Read
  BY <1>20, <1>0 DEF Read, FailsWith, Flag, outside, window, poll, shared, worker,
     device, world, KeepsFailure, Failed, SessionKnows, Sessions, Snapshots
<1>21. CASE ReadLogical
  BY <1>21, <1>0 DEF ReadLogical, FailsWith, outside, window, poll, shared, worker,
     device, world, KeepsFailure, Failed, SessionKnows, Sessions, Snapshots
<1>22. CASE Write
  BY <1>22, <1>0 DEF Write, FailsWith, outside, window, poll, shared, worker, device,
     world, KeepsFailure, Failed, SessionKnows, Sessions, Snapshots
<1>23. CASE PublishIteration
  BY <1>23, <1>0 DEF PublishIteration, Publish, Failed, outside, window, poll, shared,
     worker, device, world, KeepsFailure, Failed, SessionKnows, Sessions, Snapshots
<1>24. CASE PublishStopping
  BY <1>24, <1>0 DEF PublishStopping, Publish, Failed, outside, window, poll, shared,
     worker, device, world, KeepsFailure, Failed, SessionKnows, Sessions, Snapshots
<1>25. CASE Settle
  BY <1>25, <1>0 DEF Settle, outside, window, poll, shared, worker, device, world,
     KeepsFailure, Failed, SessionKnows, Sessions, Snapshots
<1>26. CASE Reread
  <2>1. snap' = snap
    BY <1>26 DEF Reread, shared
  <2>2. run'.error = run.error /\ (run.cleanupError => run'.cleanupError)
    BY <1>26, <1>0 DEF Reread, TimesOut, Sessions
  <2>3. QED
    BY <2>1, <2>2 DEF KeepsFailure, Failed
<1>27. CASE RestoreIndicators
  BY <1>27, <1>0 DEF RestoreIndicators, TimesOut, Desired, outside, window, poll,
     shared, worker, device, world, KeepsFailure, Failed, SessionKnows, Sessions,
     Snapshots
<1>28. CASE Close
  BY <1>28, <1>0 DEF Close, outside, window, poll, shared, worker, device, world,
     KeepsFailure, Failed, SessionKnows, Sessions, Snapshots
<1>29. CASE Ends
  BY <1>29, <1>0 DEF Ends, outside, window, poll, shared, worker, device, world,
     KeepsFailure, Failed, SessionKnows, Sessions, Snapshots
<1>30. CASE UNCHANGED vars
  BY <1>30, <1>0 DEF KeepsFailure, Failed, SessionKnows, Sessions, Snapshots, vars,
     window, poll, shared, worker, device, world
<1>31. QED
  BY <1>1, <1>2, <1>3, <1>4, <1>5, <1>6, <1>7, <1>8, <1>9, <1>10, <1>11, <1>12, <1>13,
     <1>14, <1>15, <1>16, <1>17, <1>18, <1>19, <1>20, <1>21, <1>22, <1>23, <1>24, <1>25,
     <1>26, <1>27, <1>28, <1>29, <1>30 DEF Next, Window, Poll, Worker

THEOREM FailuresAreReported == Spec => FailureStaysVisible
<1>1. QED
  BY Inductive, FailureStep, PTL DEF Spec, FailureStaysVisible
=============================================================================
