----------------------- MODULE GalleryTransactionProofs -----------------------
(***************************************************************************)
(* Theorems about GalleryTransaction, for every set of images and tiles,   *)
(* any number of redistributions, failures, crashes and outside edits.     *)
(***************************************************************************)
EXTENDS GalleryTransaction, TLAPS

\* Outside a suspension, the ledger in memory that a refresh may use unread is
\* the one on disk.
MemoryIsCurrent == ~suspended /\ ~reload /\ memory # None => memory = ledger

\* What is published, and what the worker is about to show, is owned.
FramesAreOwned == \A u \in frames : ledger.owner[u[2]] = u[1]
WorkerIsOwned == worker # None => ledger.owner[worker[2]] = worker[1]

\* While settings are at work nothing is published and the worker rests; at
\* startup the poll thread has not begun.
Quiet == /\ settings # "idle" => frames = {} /\ worker = None
         /\ settings = "startup" => captured = None

\* The worker and a record are never there together, except a record that a
\* failed recovery left, which the worker has no update for.
Fenced == worker # None => journal = None

\* A queue that is not to be cleared any more is empty.
ClearingProgress ==
    settings = "clearing" =>
        /\ ledger = journal.ledger
        /\ \A t \in Tiles : t \notin todo => shown[t] = {}

\* From the reset to the removal the ledger is one of the recorded two.
Endpoint ==
    settings = "removing" => ledger \in {journal.ledger, Unused(journal.epoch)}

Inv == /\ TypeOK
       /\ MemoryIsCurrent /\ FramesAreOwned /\ WorkerIsOwned
       /\ Quiet /\ Fenced /\ ClearingProgress /\ Endpoint
       /\ ShownIsOwned
------------------------------------------------------------------------------
\* An unused ledger is a ledger in which nobody owns anything.
LEMMA UnusedLedger ==
    ASSUME NEW e \in Nat
    PROVE  /\ Unused(e) \in Ledgers
           /\ Unused(e).epoch = e
           /\ \A i \in Images : Unused(e).owner[i] = None
  BY DEF Unused, Ledgers

\* Reserving keeps every owner there is, and what is published is owned.
LEMMA Reserving ==
    ASSUME NEW l \in Ledgers, NEW c \in Configs, NEW found \in SUBSET Images,
           NEW owner \in [Images -> Tiles \cup {None}], Reserves(l, c, found, owner)
    PROVE  /\ [epoch |-> l.epoch, owner |-> owner] \in Ledgers
           /\ \A i \in Images : l.owner[i] # None => owner[i] = l.owner[i]
           /\ Published([epoch |-> l.epoch, owner |-> owner], c, found) \in SUBSET Updates
           /\ \A u \in Published([epoch |-> l.epoch, owner |-> owner], c, found) : owner[u[2]] = u[1]
  BY DEF Ledgers, Reserves, Published

\* None is no update, no ledger and no record.
LEMMA Apart ==
    /\ None \notin Tiles /\ None \notin Configs /\ None \notin Ledgers
    /\ None \notin Records /\ None \notin Updates
  BY TransactionAssumption DEF TransactionAssumption

LEMMA InitInv == Init => Inv
  <1> SUFFICES ASSUME Init PROVE Inv OBVIOUS
  <1>1. TypeOK
    BY TransactionAssumption, UnusedLedger
    DEF TransactionAssumption, Init, TypeOK, FilesTyped
  <1>2. MemoryIsCurrent /\ FramesAreOwned /\ WorkerIsOwned /\ Quiet /\ Fenced
    BY DEF Init, MemoryIsCurrent, FramesAreOwned, WorkerIsOwned, Quiet, Fenced
  <1>3. ClearingProgress /\ Endpoint /\ ShownIsOwned
    BY DEF Init, ClearingProgress, Endpoint, ShownIsOwned
  <1> QED BY <1>1, <1>2, <1>3 DEF Inv
------------------------------------------------------------------------------
\* The steps of the program, one by one.
LEMMA Steps ==
    ASSUME Next
    PROVE  \/ Capture \/ CaptureFails \/ RefreshSuspended
           \/ \E found \in SUBSET Images : Refresh(found)
           \/ WorkerUpdates \/ WorkerFails \/ \E u \in Updates : WorkerChecks(u)
           \/ Begin \/ Refused \/ Reset \/ WriteIni \/ Fails
           \/ \E config \in Configs : Record(config)
           \/ \E t \in Tiles : ClearQueue(t)
           \/ RecoveryBegins \/ NothingToRecover \/ Recover \/ Conflict \/ Remove \/ RecoveryFails
           \/ Resume \/ Crash
           \/ \E config \in Configs : MenuEdit(config) \/ OutsideEdit(config)
  BY DEF Next, Poll, Worker, Redistribution, Recovery, Environment

\* What a refresh does to ledger, memory and frames: it only adds
\* reservations, saves them if its own ledger is the current one, and
\* publishes nothing else than what the tiles own.
LEMMA Refreshing ==
    ASSUME TypeOK, NEW found \in SUBSET Images, Refresh(found)
    PROVE  /\ ledger' \in Ledgers /\ memory' \in Ledgers \cup {None} /\ frames' \subseteq Updates
           /\ budget' \in Nat
           /\ ledger'.epoch = ledger.epoch
           /\ \A i \in Images : ledger.owner[i] # None => ledger'.owner[i] = ledger.owner[i]
           /\ MemoryIsCurrent =>
                 /\ memory' # None => memory' = ledger'
                 /\ \A u \in frames' : ledger'.owner[u[2]] = u[1]
  <1> DEFINE l == IF reload \/ memory = None THEN ledger ELSE memory
  <1>1. l \in Ledgers /\ ledger \in Ledgers /\ captured \in Configs /\ ~suspended
    BY DEF TypeOK, FilesTyped, Refresh
  <1>2. PICK owner \in [Images -> Tiles \cup {None}] :
          /\ Reserves(l, captured, found, owner)
          /\ LET candidate == [epoch |-> l.epoch, owner |-> owner] IN
             \/ /\ candidate = l \/ l = ledger
                /\ ledger' = IF candidate = l THEN ledger ELSE candidate
                /\ memory' = candidate
                /\ frames' = Published(candidate, captured, found)
                /\ UNCHANGED budget
             \/ /\ candidate # l
                /\ memory' = IF l = ledger THEN l ELSE None
                /\ frames' = {}
                /\ Spend
                /\ UNCHANGED ledger
    BY DEF Refresh
  <1> DEFINE candidate == [epoch |-> l.epoch, owner |-> owner]
  <1>3. /\ candidate \in Ledgers
        /\ \A i \in Images : l.owner[i] # None => owner[i] = l.owner[i]
        /\ Published(candidate, captured, found) \in SUBSET Updates
        /\ \A u \in Published(candidate, captured, found) : owner[u[2]] = u[1]
    BY <1>1, <1>2, Reserving
  <1>4. candidate.epoch = l.epoch /\ candidate.owner = owner
    OBVIOUS
  <1>5. MemoryIsCurrent => l = ledger
    BY <1>1 DEF MemoryIsCurrent
  <1> HIDE DEF l, candidate
  <1>6. CASE /\ candidate = l \/ l = ledger
             /\ ledger' = IF candidate = l THEN ledger ELSE candidate
             /\ memory' = candidate
             /\ frames' = Published(candidate, captured, found)
             /\ UNCHANGED budget
    BY <1>1, <1>3, <1>4, <1>5, <1>6 DEF TypeOK
  <1>7. CASE /\ candidate # l
             /\ memory' = IF l = ledger THEN l ELSE None
             /\ frames' = {}
             /\ Spend
             /\ UNCHANGED ledger
    BY <1>1, <1>7 DEF TypeOK, Spend
  <1> QED BY <1>2, <1>6, <1>7 DEF candidate

\* A step keeps every variable's type.
LEMMA Typing == TypeOK /\ [Next]_vars => TypeOK'
  <1> SUFFICES ASSUME TypeOK, [Next]_vars PROVE TypeOK' OBVIOUS
  <1> USE Apart, TransactionAssumption DEF TransactionAssumption, TypeOK, FilesTyped, files, runtime, Spend
  <1>1. CASE Capture
    BY <1>1 DEF Capture
  <1>2. CASE CaptureFails
    BY <1>2 DEF CaptureFails
  <1>3. CASE RefreshSuspended
    BY <1>3 DEF RefreshSuspended
  <1>4. ASSUME NEW found \in SUBSET Images, Refresh(found) PROVE TypeOK'
    BY <1>4, Refreshing DEF Refresh
  <1>5. CASE WorkerUpdates
    BY <1>5, Apart DEF WorkerUpdates, Updates
  <1>6. CASE WorkerFails
    BY <1>6 DEF WorkerFails
  <1>7. ASSUME NEW u \in Updates, WorkerChecks(u) PROVE TypeOK'
    BY <1>7 DEF WorkerChecks
  <1>8. CASE Begin
    <2>1. FilesTyped'
      BY <1>8 DEF Begin, Suspends, GenerationHeld, GenerationFree
    <2>2. memory' \in Ledgers \cup {None} /\ frames' \subseteq Updates /\ todo' \subseteq Tiles
      BY <1>8 DEF Begin, Suspends, GenerationHeld, GenerationFree
    <2>3. suspended' = (settings' \notin {"startup", "idle"}) /\ reload' \in BOOLEAN
      BY <1>8 DEF Begin, Suspends, GenerationHeld, GenerationFree
    <2>4. /\ captured' \in Configs \cup {None} /\ worker' \in Updates \cup {None} /\ budget' \in Nat
          /\ settings' \in {"startup", "idle", "suspended", "clearing", "writing", "finishing",
                             "recovering", "removing", "resuming"}
          /\ settings' \in {"clearing", "writing", "finishing", "recovering", "removing"} => journal' # None
      BY <1>8 DEF Begin, Suspends, GenerationHeld, GenerationFree
    <2> QED BY <2>1, <2>2, <2>3, <2>4 DEF TypeOK
  <1>9. CASE Refused
    BY <1>9 DEF Refused
  <1>10. CASE Reset
    BY <1>10, UnusedLedger DEF Reset, Records
  <1>11. CASE WriteIni
    BY <1>11, Apart DEF WriteIni, Records
  <1>12. CASE Fails
    BY <1>12 DEF Fails
  <1>13. ASSUME NEW config \in Configs, Record(config) PROVE TypeOK'
    BY <1>13, Apart DEF Record, Records, QueuesToClear, Holders
  <1>14. ASSUME NEW t \in Tiles, ClearQueue(t) PROVE TypeOK'
    BY <1>14 DEF ClearQueue
  <1>15. CASE RecoveryBegins
    <2>1. FilesTyped'
      BY <1>15 DEF RecoveryBegins, Suspends, GenerationFree
    <2>2. memory' \in Ledgers \cup {None} /\ frames' \subseteq Updates /\ todo' \subseteq Tiles
      BY <1>15 DEF RecoveryBegins, Suspends, GenerationFree
    <2>3. suspended' = (settings' \notin {"startup", "idle"}) /\ reload' \in BOOLEAN
      BY <1>15 DEF RecoveryBegins, Suspends, GenerationFree
    <2>4. /\ captured' \in Configs \cup {None} /\ worker' \in Updates \cup {None} /\ budget' \in Nat
          /\ settings' \in {"startup", "idle", "suspended", "clearing", "writing", "finishing",
                             "recovering", "removing", "resuming"}
          /\ settings' \in {"clearing", "writing", "finishing", "recovering", "removing"} => journal' # None
      BY <1>15 DEF RecoveryBegins, Suspends, GenerationFree
    <2> QED BY <2>1, <2>2, <2>3, <2>4 DEF TypeOK
  <1>16. CASE NothingToRecover
    BY <1>16 DEF NothingToRecover
  <1>17. CASE Recover
    BY <1>17, Apart DEF Recover, Records
  <1>18. CASE Conflict
    BY <1>18 DEF Conflict
  <1>19. CASE Remove
    BY <1>19 DEF Remove
  <1>20. CASE RecoveryFails
    BY <1>20 DEF RecoveryFails
  <1>21. CASE Resume
    BY <1>21, Apart DEF Resume, Resumed
  <1>22. CASE Crash
    <2>1. FilesTyped'
      BY <1>22 DEF Crash
    <2>2. memory' \in Ledgers \cup {None} /\ frames' \subseteq Updates /\ todo' \subseteq Tiles
      BY <1>22 DEF Crash
    <2>3. suspended' = (settings' \notin {"startup", "idle"}) /\ reload' \in BOOLEAN
      BY <1>22 DEF Crash
    <2>4. /\ captured' \in Configs \cup {None} /\ worker' \in Updates \cup {None} /\ budget' \in Nat
          /\ settings' \in {"startup", "idle", "suspended", "clearing", "writing", "finishing",
                             "recovering", "removing", "resuming"}
          /\ settings' \in {"clearing", "writing", "finishing", "recovering", "removing"} => journal' # None
      BY <1>22 DEF Crash
    <2> QED BY <2>1, <2>2, <2>3, <2>4 DEF TypeOK
  <1>23. ASSUME NEW config \in Configs, MenuEdit(config) PROVE TypeOK'
    BY <1>23 DEF MenuEdit
  <1>24. ASSUME NEW config \in Configs, OutsideEdit(config) PROVE TypeOK'
    BY <1>24 DEF OutsideEdit
  <1>25. CASE UNCHANGED vars
    BY <1>25 DEF vars
  <1> QED BY <1>1, <1>2, <1>3, <1>4, <1>5, <1>6, <1>7, <1>8, <1>9, <1>10, <1>11, <1>12, <1>13, <1>14, <1>15, <1>16, <1>17, <1>18, <1>19, <1>20, <1>21, <1>22, <1>23, <1>24, <1>25, Steps
------------------------------------------------------------------------------
\* Only a refresh, the reset and a rollback write the ledger, and the last two
\* only while publication is suspended.
LEMMA LedgerMoves ==
    ASSUME TypeOK, [Next]_vars
    PROVE  \/ \E found \in SUBSET Images : Refresh(found)
           \/ suspended /\ suspended' /\ (Reset \/ Recover)
           \/ /\ ledger' = ledger
              /\ reload' = reload \/ reload' = TRUE \/ memory' = None
              /\ memory' = memory \/ memory' = None
              /\ suspended' = suspended \/ suspended' = TRUE \/ reload' = TRUE \/ memory' = None
  <1>1. CASE Reset
    BY <1>1 DEF Reset, TypeOK, runtime
  <1>2. CASE Recover
    BY <1>2 DEF Recover, TypeOK, runtime
  <1>3. CASE Capture \/ CaptureFails \/ RefreshSuspended \/ WorkerUpdates \/ WorkerFails
             \/ \E u \in Updates : WorkerChecks(u)
    BY <1>3 DEF files, runtime, Capture, CaptureFails, RefreshSuspended, WorkerUpdates, WorkerFails, WorkerChecks
  <1>4. CASE Begin \/ Refused \/ WriteIni \/ Fails \/ \E config \in Configs : Record(config)
    BY <1>4 DEF files, runtime, Begin, Suspends, Refused, WriteIni, Fails, Record
  <1>5. CASE RecoveryBegins \/ NothingToRecover \/ Conflict \/ Remove \/ RecoveryFails \/ Resume
    BY <1>5 DEF files, runtime, RecoveryBegins, Suspends, NothingToRecover, Conflict, Remove, RecoveryFails, Resume, Resumed
  <1>6. CASE Crash \/ \E config \in Configs : MenuEdit(config) \/ OutsideEdit(config)
    BY <1>6 DEF files, runtime, Crash, MenuEdit, OutsideEdit
  <1>7. CASE \E t \in Tiles : ClearQueue(t)
    BY <1>7 DEF files, runtime, ClearQueue
  <1>8. CASE UNCHANGED vars
    BY <1>8 DEF vars, files, runtime
  <1> QED BY <1>1, <1>2, <1>3, <1>4, <1>5, <1>6, <1>7, <1>8, Steps

LEMMA MemoryStep == Inv /\ [Next]_vars => MemoryIsCurrent'
  <1> SUFFICES ASSUME Inv, [Next]_vars PROVE MemoryIsCurrent' OBVIOUS
  <1>1. TypeOK /\ MemoryIsCurrent BY DEF Inv
  <1>2. ASSUME NEW found \in SUBSET Images, Refresh(found) PROVE MemoryIsCurrent'
    BY <1>1, <1>2, Refreshing DEF MemoryIsCurrent
  <1>3. CASE suspended'
    BY <1>3 DEF MemoryIsCurrent
  <1>4. CASE /\ ledger' = ledger
             /\ reload' = reload \/ reload' = TRUE \/ memory' = None
             /\ memory' = memory \/ memory' = None
             /\ suspended' = suspended \/ suspended' = TRUE \/ reload' = TRUE \/ memory' = None
    BY <1>1, <1>4 DEF MemoryIsCurrent
  <1> QED BY <1>1, <1>2, <1>3, <1>4, LedgerMoves

\* A refresh meets neither a suspension nor the startup.
LEMMA RefreshIsIdle ==
    ASSUME Inv, NEW found \in SUBSET Images, Refresh(found)
    PROVE  settings = "idle"
  BY DEF Inv, TypeOK, Quiet, Refresh

\* The frames are a refresh's, or some of those there were.
LEMMA FrameMoves ==
    ASSUME TypeOK, [Next]_vars
    PROVE  (\E found \in SUBSET Images : Refresh(found)) \/ frames' \subseteq frames
  <1>1. CASE Reset \/ Recover \/ Capture \/ CaptureFails \/ RefreshSuspended
             \/ WorkerUpdates \/ WorkerFails \/ \E u \in Updates : WorkerChecks(u)
    BY <1>1 DEF runtime, Reset, Recover, Capture, CaptureFails, RefreshSuspended, WorkerUpdates, WorkerFails, WorkerChecks
  <1>2. CASE Begin \/ Refused \/ WriteIni \/ Fails \/ \E config \in Configs : Record(config)
    BY <1>2 DEF runtime, Begin, Suspends, Refused, WriteIni, Fails, Record
  <1>3. CASE RecoveryBegins \/ NothingToRecover \/ Conflict \/ Remove \/ RecoveryFails \/ Resume
    BY <1>3 DEF runtime, RecoveryBegins, Suspends, NothingToRecover, Conflict, Remove, RecoveryFails, Resume
  <1>4. CASE Crash \/ (\E config \in Configs : MenuEdit(config) \/ OutsideEdit(config)) \/ \E t \in Tiles : ClearQueue(t)
    BY <1>4 DEF runtime, Crash, MenuEdit, OutsideEdit, ClearQueue
  <1>5. CASE UNCHANGED vars
    BY <1>5 DEF vars, runtime
  <1> QED BY <1>1, <1>2, <1>3, <1>4, <1>5, Steps

LEMMA FramesStep == Inv /\ [Next]_vars => FramesAreOwned'
  <1> SUFFICES ASSUME Inv, [Next]_vars PROVE FramesAreOwned' OBVIOUS
  <1>1. TypeOK /\ MemoryIsCurrent /\ FramesAreOwned /\ Quiet BY DEF Inv
  <1>2. ASSUME NEW found \in SUBSET Images, Refresh(found) PROVE FramesAreOwned'
    BY <1>1, <1>2, Refreshing DEF FramesAreOwned
  <1>3. CASE frames' \subseteq frames /\ ledger' = ledger
    BY <1>1, <1>3 DEF FramesAreOwned
  <1>4. CASE frames' \subseteq frames /\ suspended
    BY <1>1, <1>4 DEF FramesAreOwned, Quiet, TypeOK
  <1> QED BY <1>1, <1>2, <1>3, <1>4, LedgerMoves, FrameMoves

\* The worker takes a published update when nothing is pending, or keeps what
\* it had, or is done.
LEMMA WorkerMoves ==
    ASSUME TypeOK, [Next]_vars
    PROVE  worker' = worker \/ worker' = None \/ \E u \in Updates : WorkerChecks(u)
  <1>1. CASE Reset \/ Recover \/ Capture \/ CaptureFails \/ RefreshSuspended \/ WorkerUpdates \/ WorkerFails
             \/ \E found \in SUBSET Images : Refresh(found)
    BY <1>1 DEF Reset, Recover, Capture, CaptureFails, RefreshSuspended, WorkerUpdates, WorkerFails, Refresh
  <1>2. CASE Begin \/ Refused \/ WriteIni \/ Fails \/ \E config \in Configs : Record(config)
    BY <1>2 DEF Begin, Refused, WriteIni, Fails, Record
  <1>3. CASE RecoveryBegins \/ NothingToRecover \/ Conflict \/ Remove \/ RecoveryFails \/ Resume
    BY <1>3 DEF RecoveryBegins, NothingToRecover, Conflict, Remove, RecoveryFails, Resume
  <1>4. CASE Crash \/ (\E config \in Configs : MenuEdit(config) \/ OutsideEdit(config)) \/ \E t \in Tiles : ClearQueue(t)
    BY <1>4 DEF Crash, MenuEdit, OutsideEdit, ClearQueue
  <1>5. CASE UNCHANGED vars
    BY <1>5 DEF vars
  <1> QED BY <1>1, <1>2, <1>3, <1>4, <1>5, Steps

LEMMA WorkerStep == Inv /\ [Next]_vars => WorkerIsOwned'
  <1> SUFFICES ASSUME Inv, [Next]_vars PROVE WorkerIsOwned' OBVIOUS
  <1>1. TypeOK /\ FramesAreOwned /\ WorkerIsOwned /\ Quiet BY DEF Inv
  <1>2. CASE worker' = None
    BY <1>2 DEF WorkerIsOwned
  <1>3. ASSUME NEW u \in Updates, WorkerChecks(u) PROVE WorkerIsOwned'
    BY <1>1, <1>3 DEF WorkerChecks, FramesAreOwned, WorkerIsOwned, files
  <1>4. CASE worker' = worker /\ ledger' = ledger
    BY <1>1, <1>4 DEF WorkerIsOwned
  <1>5. CASE worker' = worker /\ suspended
    BY <1>1, <1>5 DEF WorkerIsOwned, Quiet, TypeOK
  <1>6. ASSUME NEW found \in SUBSET Images, Refresh(found), worker' = worker, worker # None
        PROVE  WorkerIsOwned'
    <2>1. worker[1] \in Tiles /\ worker[2] \in Images /\ worker[1] # None
      BY <1>1, <1>6, Apart DEF TypeOK, Updates
    <2>2. ledger'.owner[worker[2]] = worker[1]
      BY <1>1, <1>6, <2>1, Refreshing DEF WorkerIsOwned
    <2> QED BY <1>6, <2>2 DEF WorkerIsOwned
  <1> QED BY <1>1, <1>2, <1>3, <1>4, <1>5, <1>6, LedgerMoves, WorkerMoves

LEMMA QuietStep == Inv /\ [Next]_vars => Quiet'
  <1> SUFFICES ASSUME Inv, [Next]_vars PROVE Quiet' OBVIOUS
  <1>1. TypeOK /\ Quiet BY DEF Inv
  <1>2. ASSUME NEW found \in SUBSET Images, Refresh(found) PROVE Quiet'
    BY <1>2, RefreshIsIdle DEF Quiet, Refresh
  <1>3. ASSUME NEW u \in Updates, WorkerChecks(u) PROVE Quiet'
    BY <1>3 DEF Quiet, WorkerChecks
  <1>4. CASE Begin \/ RecoveryBegins
    BY <1>1, <1>4 DEF Begin, RecoveryBegins, Suspends, GenerationHeld, GenerationFree, Quiet
  <1>5. CASE Reset \/ Recover \/ Capture \/ CaptureFails \/ RefreshSuspended \/ WorkerUpdates \/ WorkerFails
    BY <1>1, <1>5 DEF Quiet, runtime, Reset, Recover, Capture, CaptureFails, RefreshSuspended, WorkerUpdates, WorkerFails
  <1>6. CASE Refused \/ WriteIni \/ Fails \/ \E config \in Configs : Record(config)
    BY <1>1, <1>6 DEF Quiet, runtime, Refused, WriteIni, Fails, Record
  <1>7. CASE NothingToRecover \/ Conflict \/ Remove \/ RecoveryFails \/ Resume
    BY <1>1, <1>7 DEF Quiet, runtime, NothingToRecover, Conflict, Remove, RecoveryFails, Resume
  <1>8. CASE Crash \/ (\E config \in Configs : MenuEdit(config) \/ OutsideEdit(config)) \/ \E t \in Tiles : ClearQueue(t)
    BY <1>1, <1>8 DEF Quiet, runtime, Crash, MenuEdit, OutsideEdit, ClearQueue
  <1>9. CASE UNCHANGED vars
    BY <1>1, <1>9 DEF Quiet, vars, runtime
  <1> QED BY <1>2, <1>3, <1>4, <1>5, <1>6, <1>7, <1>8, <1>9, Steps
------------------------------------------------------------------------------
\* Who writes and removes the record, and who touches a queue.
LEMMA RecordMoves ==
    ASSUME [Next]_vars
    PROVE  journal' = journal \/ Remove \/ \E config \in Configs : Record(config)
  <1>1. CASE Reset \/ Recover \/ Capture \/ CaptureFails \/ RefreshSuspended \/ WorkerUpdates \/ WorkerFails
             \/ (\E u \in Updates : WorkerChecks(u)) \/ \E found \in SUBSET Images : Refresh(found)
    BY <1>1 DEF files, Reset, Recover, Capture, CaptureFails, RefreshSuspended, WorkerUpdates, WorkerFails,
                WorkerChecks, Refresh
  <1>2. CASE Begin \/ Refused \/ WriteIni \/ Fails \/ RecoveryBegins \/ NothingToRecover \/ Conflict
             \/ RecoveryFails \/ Resume
    BY <1>2 DEF files, Begin, Refused, WriteIni, Fails, RecoveryBegins, NothingToRecover, Conflict, RecoveryFails, Resume
  <1>3. CASE Crash \/ (\E config \in Configs : MenuEdit(config) \/ OutsideEdit(config)) \/ \E t \in Tiles : ClearQueue(t)
    BY <1>3 DEF files, Crash, MenuEdit, OutsideEdit, ClearQueue
  <1>4. CASE UNCHANGED vars
    BY <1>4 DEF vars, files
  <1> QED BY <1>1, <1>2, <1>3, <1>4, Steps

LEMMA ShownMoves ==
    ASSUME [Next]_vars
    PROVE  shown' = shown \/ WorkerUpdates \/ \E t \in Tiles : ClearQueue(t)
  <1>1. CASE Reset \/ Recover \/ Capture \/ CaptureFails \/ RefreshSuspended \/ WorkerFails
             \/ (\E u \in Updates : WorkerChecks(u)) \/ \E found \in SUBSET Images : Refresh(found)
    BY <1>1 DEF Reset, Recover, Capture, CaptureFails, RefreshSuspended, WorkerFails, WorkerChecks, Refresh
  <1>2. CASE Begin \/ Refused \/ WriteIni \/ Fails \/ RecoveryBegins \/ NothingToRecover \/ Conflict
             \/ RecoveryFails \/ Resume \/ Remove \/ \E config \in Configs : Record(config)
    BY <1>2 DEF Begin, Refused, WriteIni, Fails, RecoveryBegins, NothingToRecover, Conflict, RecoveryFails, Resume,
                Remove, Record
  <1>3. CASE Crash \/ \E config \in Configs : MenuEdit(config) \/ OutsideEdit(config)
    BY <1>3 DEF Crash, MenuEdit, OutsideEdit
  <1>4. CASE UNCHANGED vars
    BY <1>4 DEF vars
  <1> QED BY <1>1, <1>2, <1>3, <1>4, Steps

LEMMA FencedStep == Inv /\ [Next]_vars => Fenced'
  <1> SUFFICES ASSUME Inv, [Next]_vars PROVE Fenced' OBVIOUS
  <1>1. Fenced /\ Quiet BY DEF Inv
  <1>2. ASSUME NEW u \in Updates, WorkerChecks(u) PROVE Fenced'
    BY <1>2 DEF WorkerChecks, Fenced, files
  <1>3. CASE Remove
    BY <1>3 DEF Remove, Fenced
  <1>4. ASSUME NEW config \in Configs, Record(config) PROVE Fenced'
    BY <1>1, <1>4 DEF Record, Fenced, Quiet
  <1>5. CASE journal' = journal /\ (worker' = worker \/ worker' = None)
    BY <1>1, <1>5 DEF Fenced
  <1> QED BY <1>2, <1>3, <1>4, <1>5, RecordMoves, WorkerMoves DEF Inv

\* Only the record's writing and the clearing itself lead into the clearing
\* phase, and only the decision into the removal.
LEMMA PhaseMoves ==
    ASSUME [Next]_vars
    PROVE  /\ settings' = "clearing" =>
                 \/ settings = "clearing" /\ UNCHANGED <<ledger, journal, shown, todo>>
                 \/ \E config \in Configs : Record(config)
                 \/ \E t \in Tiles : ClearQueue(t)
                 \/ WorkerUpdates
                 \/ \E found \in SUBSET Images : Refresh(found)
           /\ settings' = "removing" =>
                 \/ settings = "removing" /\ UNCHANGED <<ledger, journal>>
                 \/ Recover
                 \/ \E found \in SUBSET Images : Refresh(found)
  <1>1. CASE Capture \/ CaptureFails \/ RefreshSuspended \/ WorkerUpdates \/ WorkerFails
             \/ \E u \in Updates : WorkerChecks(u)
    BY <1>1 DEF files, Capture, CaptureFails, RefreshSuspended, WorkerUpdates, WorkerFails, WorkerChecks
  <1>2. CASE Begin \/ Refused \/ WriteIni \/ Fails \/ RecoveryBegins \/ NothingToRecover \/ Conflict
             \/ RecoveryFails \/ Resume \/ Reset \/ Recover
    BY <1>2 DEF Begin, Refused, WriteIni, Fails, RecoveryBegins, NothingToRecover, Conflict, RecoveryFails, Resume,
                Reset, Recover
  <1>3. CASE Remove \/ Crash
    BY <1>3 DEF Remove, Crash
  <1>4. CASE \E config \in Configs : MenuEdit(config) \/ OutsideEdit(config)
    BY <1>4 DEF MenuEdit, OutsideEdit
  <1>5. CASE \E config \in Configs : Record(config)
    BY <1>5 DEF Record
  <1>6. CASE \E t \in Tiles : ClearQueue(t)
    BY <1>6 DEF ClearQueue
  <1>7. CASE UNCHANGED vars
    BY <1>7 DEF vars, files
  <1> QED BY <1>1, <1>2, <1>3, <1>4, <1>5, <1>6, <1>7, Steps

LEMMA ClearingStep == Inv /\ [Next]_vars => ClearingProgress'
  <1> SUFFICES ASSUME Inv, [Next]_vars, settings' = "clearing"
               PROVE  /\ ledger' = journal'.ledger
                      /\ \A t \in Tiles : t \notin todo' => shown'[t] = {}
    BY DEF ClearingProgress
  <1>1. TypeOK /\ Quiet /\ ClearingProgress /\ ShownIsOwned BY DEF Inv
  <1>2. CASE settings = "clearing" /\ UNCHANGED <<ledger, journal, shown, todo>>
    BY <1>1, <1>2 DEF ClearingProgress
  <1>3. ASSUME NEW config \in Configs, Record(config)
        PROVE  /\ ledger' = journal'.ledger
               /\ \A t \in Tiles : t \notin todo' => shown'[t] = {}
    <2>1. ledger' = ledger /\ journal'.ledger = ledger /\ shown' = shown /\ todo' = QueuesToClear(ledger, ini)
      BY <1>3 DEF Record
    <2>2. \A t \in Tiles : t \notin QueuesToClear(ledger, ini) => shown[t] = {}
      BY <1>1 DEF ShownIsOwned, QueuesToClear, Holders, TypeOK, FilesTyped
    <2> QED BY <2>1, <2>2
  <1>4. ASSUME NEW t \in Tiles, ClearQueue(t)
        PROVE  /\ ledger' = journal'.ledger
               /\ \A r \in Tiles : r \notin todo' => shown'[r] = {}
    BY <1>1, <1>4 DEF ClearQueue, ClearingProgress, files, TypeOK, FilesTyped
  <1>5. ~WorkerUpdates
    BY <1>1, Apart DEF WorkerUpdates, Quiet
  <1>6. \A found \in SUBSET Images : ~Refresh(found)
    BY RefreshIsIdle DEF Refresh
  <1> QED BY <1>2, <1>3, <1>4, <1>5, <1>6, PhaseMoves

LEMMA EndpointStep == Inv /\ [Next]_vars => Endpoint'
  <1> SUFFICES ASSUME Inv, [Next]_vars, settings' = "removing"
               PROVE  ledger' \in {journal'.ledger, Unused(journal'.epoch)}
    BY DEF Endpoint
  <1>1. TypeOK /\ Endpoint BY DEF Inv
  <1>2. CASE settings = "removing" /\ UNCHANGED <<ledger, journal>>
    BY <1>1, <1>2 DEF Endpoint
  <1>3. CASE Recover
    BY <1>3 DEF Recover, Decide
  <1>4. \A found \in SUBSET Images : ~Refresh(found)
    BY RefreshIsIdle DEF Refresh
  <1> QED BY <1>2, <1>3, <1>4, PhaseMoves

LEMMA ShownStep == Inv /\ [Next]_vars => ShownIsOwned'
  <1> SUFFICES ASSUME Inv, [Next]_vars PROVE ShownIsOwned' OBVIOUS
  <1>1. TypeOK /\ ShownIsOwned /\ WorkerIsOwned /\ Quiet /\ ClearingProgress BY DEF Inv
  <1>2. shown \in [Tiles -> SUBSET Images] BY <1>1 DEF TypeOK, FilesTyped
  <1>3. CASE WorkerUpdates
    <2>1. worker \in Tiles \X Images /\ ledger.owner[worker[2]] = worker[1]
      BY <1>1, <1>3 DEF WorkerUpdates, WorkerIsOwned, TypeOK, Updates
    <2> QED BY <1>1, <1>2, <1>3, <2>1 DEF WorkerUpdates, ShownIsOwned, files
  <1>4. ASSUME NEW t \in Tiles, ClearQueue(t) PROVE ShownIsOwned'
    BY <1>1, <1>2, <1>4 DEF ClearQueue, ShownIsOwned, files
  <1>5. ASSUME NEW found \in SUBSET Images, Refresh(found), shown' = shown PROVE ShownIsOwned'
    <2>1. \A i \in Images : ledger.owner[i] # None => ledger'.owner[i] = ledger.owner[i]
      BY <1>1, <1>5, Refreshing
    <2> QED BY <1>1, <1>2, <1>5, <2>1, Apart DEF ShownIsOwned
  <1>6. CASE Reset
    BY <1>1, <1>6 DEF Reset, ClearingProgress, ShownIsOwned
  <1>7. CASE Recover
    <2>1. CASE ledger' = ledger
      BY <1>1, <1>7, <2>1 DEF Recover, ShownIsOwned
    <2>2. CASE ledger = Unused(journal.epoch)
      <3>1. \A t \in Tiles : shown[t] = {}
        BY <1>1, <1>2, <2>2, Apart DEF ShownIsOwned, Unused
      <3> QED BY <1>7, <3>1 DEF Recover, ShownIsOwned
    <2> QED BY <1>7, <2>1, <2>2 DEF Recover, Decide
  <1>8. CASE shown' = shown /\ ledger' = ledger
    BY <1>1, <1>8 DEF ShownIsOwned
  <1>9. ASSUME NEW found \in SUBSET Images, Refresh(found) PROVE shown' = shown
    BY <1>9 DEF Refresh
  <1> QED BY <1>1, <1>3, <1>4, <1>5, <1>6, <1>7, <1>8, <1>9, LedgerMoves, ShownMoves

LEMMA InductiveStep == Inv /\ [Next]_vars => Inv'
  BY Typing, MemoryStep, FramesStep, WorkerStep, QuietStep, FencedStep, ClearingStep, EndpointStep, ShownStep DEF Inv

THEOREM Invariance == Spec => []Inv
  BY InitInv, InductiveStep, PTL DEF Spec
------------------------------------------------------------------------------
\* Files, runtime and worker are well typed, a record is there as long as the
\* settings thread relies on it, and publication is suspended meanwhile.
THEOREM TypeCorrect == Spec => []TypeOK
  <1>1. Inv => TypeOK BY DEF Inv
  <1> QED BY Invariance, <1>1, PTL

\* No tile ever shows a photo that the ledger does not reserve for it, at any
\* point of a redistribution, its failure, its rollback or a crash.
THEOREM OnlyOwnedShown == Spec => []ShownIsOwned
  <1>1. Inv => ShownIsOwned BY DEF Inv
  <1> QED BY Invariance, <1>1, PTL

\* While a record is there, no queue gets a photo.
THEOREM PendingIsQuiet == Spec => NothingShownWhilePending
  <1>1. Inv /\ [Next]_vars => [journal # None => \A t \in Tiles : shown'[t] \subseteq shown[t]]_vars
    <2> SUFFICES ASSUME Inv, [Next]_vars, journal # None, NEW t \in Tiles
                 PROVE  shown'[t] \subseteq shown[t]
      OBVIOUS
    <2>1. ~WorkerUpdates
      BY Apart DEF WorkerUpdates, Inv, Fenced
    <2>2. ASSUME NEW r \in Tiles, ClearQueue(r) PROVE shown'[t] \subseteq shown[t]
      BY <2>2 DEF ClearQueue, Inv, TypeOK, FilesTyped
    <2> QED BY <2>1, <2>2, ShownMoves
  <1> QED BY Invariance, <1>1, PTL DEF Spec, NothingShownWhilePending

\* The record goes only when the ledger is exactly the old one or the new one,
\* still unused, whatever failed, crashed or was edited before.
THEOREM HistoryKept == Spec => HistoryIsWhole
  <1>1. Inv /\ [Next]_vars =>
          [journal # None /\ journal' = None => ledger' \in {journal.ledger, Unused(journal.epoch)}]_vars
    <2> SUFFICES ASSUME Inv, [Next]_vars, journal # None, journal' = None
                 PROVE  ledger' \in {journal.ledger, Unused(journal.epoch)}
      OBVIOUS
    <2>1. CASE Remove
      BY <2>1 DEF Remove, Inv, Endpoint
    <2>2. \A config \in Configs : ~Record(config)
      BY DEF Record
    <2> QED BY <2>1, <2>2, RecordMoves
  <1> QED BY Invariance, <1>1, PTL DEF Spec, HistoryIsWhole
------------------------------------------------------------------------------
(* With no edits from outside, the two files change as one. *)

\* Epoch identities only grow, and a record's new epoch is a fresh one.
Lineage ==
    /\ ledger.epoch <= minted
    /\ journal # None => journal.epoch <= minted /\ journal.ledger.epoch < journal.epoch

\* The INI is written last: over an old ledger it is the old one.
Sides ==
    journal # None =>
        \/ ledger.epoch = journal.ledger.epoch /\ ini = journal.before
        \/ ledger.epoch = journal.epoch /\ ini \in {journal.before, journal.after}

\* What the settings thread knows when it writes the INI, ends and cleans up.
Phase ==
    /\ settings \in {"writing", "finishing"} => ledger = Unused(journal.epoch)
    /\ settings = "finishing" => ini = journal.after
    /\ settings = "removing" =>
          \/ ledger = journal.ledger /\ ini = journal.before
          \/ ledger = Unused(journal.epoch) /\ ini = journal.after

PairInv == Inv /\ Lineage /\ Sides /\ Phase

\* The steps that leave the files as they are, and where they lead.
Aside == UNCHANGED files /\ minted' = minted
         /\ (settings' = settings \/ settings' \notin {"writing", "finishing", "removing"})

LEMMA FileMoves ==
    ASSUME OutsideEdits = FALSE, [Next]_vars
    PROVE  \/ Aside
           \/ Reset \/ WriteIni \/ Recover \/ Remove
           \/ \E config \in Configs : Record(config) \/ MenuEdit(config)
           \/ \E found \in SUBSET Images : Refresh(found)
  <1>1. CASE Capture \/ CaptureFails \/ RefreshSuspended \/ WorkerUpdates \/ WorkerFails
             \/ \E u \in Updates : WorkerChecks(u)
    BY <1>1 DEF Aside, files, Capture, CaptureFails, RefreshSuspended, WorkerUpdates, WorkerFails, WorkerChecks
  <1>2. CASE Begin \/ Refused \/ Fails \/ RecoveryBegins \/ NothingToRecover \/ Conflict \/ RecoveryFails \/ Resume
    BY <1>2 DEF Aside, files, Begin, Refused, Fails, RecoveryBegins, NothingToRecover, Conflict, RecoveryFails, Resume
  <1>3. CASE Crash \/ \E t \in Tiles : ClearQueue(t)
    BY <1>3 DEF Aside, files, Crash, ClearQueue
  <1>4. \A config \in Configs : ~OutsideEdit(config)
    BY DEF OutsideEdit
  <1>5. CASE UNCHANGED vars
    BY <1>5 DEF Aside, vars, files
  <1> QED BY <1>1, <1>2, <1>3, <1>4, <1>5, Steps

\* What the types say of a record, and of the ledger it would put in place.
LEMMA RecordFacts ==
    ASSUME TypeOK, journal # None
    PROVE  /\ journal \in Records /\ journal.ledger \in Ledgers /\ journal.epoch \in Nat
           /\ journal.ledger.epoch \in Nat /\ ledger.epoch \in Nat /\ minted \in Nat
           /\ Unused(journal.epoch).epoch = journal.epoch
  BY DEF TypeOK, FilesTyped, Records, Ledgers, Unused

LEMMA PairInit == Init => PairInv
  <1> SUFFICES ASSUME Init PROVE PairInv OBVIOUS
  <1>1. Lineage
    BY UnusedLedger DEF Init, Lineage
  <1>2. Sides /\ Phase
    BY DEF Init, Sides, Phase
  <1> QED BY InitInv, <1>1, <1>2 DEF PairInv

LEMMA PairStep ==
    ASSUME OutsideEdits = FALSE, PairInv, [Next]_vars
    PROVE  PairInv'
  <1>1. TypeOK /\ Inv /\ Lineage /\ Sides /\ Phase /\ ClearingProgress
    BY DEF PairInv, Inv
  <1>2. Inv'
    BY <1>1, InductiveStep
  <1>3. ASSUME Aside PROVE Lineage' /\ Sides' /\ Phase'
    BY <1>1, <1>3 DEF Aside, files, Lineage, Sides, Phase
  <1>4. ASSUME Reset PROVE Lineage' /\ Sides' /\ Phase'
    <2>1. /\ journal # None /\ journal' = journal /\ ini' = ini /\ minted' = minted /\ settings' = "writing"
          /\ ledger = journal.ledger /\ ledger' = Unused(journal.epoch)
      BY <1>1, <1>4 DEF Reset, TypeOK
    <2>2. Lineage'
      BY <1>1, <2>1, RecordFacts DEF Lineage
    <2>3. Sides' /\ Phase'
      BY <1>1, <2>1, RecordFacts DEF Lineage, Sides, Phase
    <2> QED BY <2>2, <2>3
  <1>5. ASSUME WriteIni PROVE Lineage' /\ Sides' /\ Phase'
    <2>1. /\ journal # None /\ journal' = journal /\ ini' = journal.after /\ minted' = minted
          /\ settings' = "finishing" /\ ledger = Unused(journal.epoch) /\ ledger' = ledger
      BY <1>1, <1>5 DEF WriteIni, TypeOK, Phase
    <2> QED BY <1>1, <2>1, RecordFacts DEF Lineage, Sides, Phase
  <1>6. ASSUME Recover PROVE Lineage' /\ Sides' /\ Phase'
    <2>1. /\ journal # None /\ journal' = journal /\ ini' = ini /\ minted' = minted /\ settings' = "removing"
      BY <1>1, <1>6 DEF Recover, TypeOK
    <2>2. \/ ledger = journal.ledger /\ ini = journal.before /\ ledger' = ledger
          \/ ledger = Unused(journal.epoch) /\ ini = journal.after /\ ledger' = ledger
          \/ ini = journal.before /\ ledger' = journal.ledger
      BY <1>1, <1>6 DEF Recover, Decide, Phase
    <2> QED BY <1>1, <2>1, <2>2, RecordFacts DEF Lineage, Sides, Phase
  <1>7. ASSUME Remove PROVE Lineage' /\ Sides' /\ Phase'
    BY <1>1, <1>7 DEF Remove, Lineage, Sides, Phase
  <1>8. ASSUME NEW config \in Configs, Record(config) PROVE Lineage' /\ Sides' /\ Phase'
    <2>1. /\ ledger' = ledger /\ ini' = ini /\ minted' = minted + 1 /\ settings' = "clearing"
          /\ journal'.ledger = ledger /\ journal'.before = ini /\ journal'.epoch = minted + 1
      BY <1>8 DEF Record
    <2>2. ledger.epoch \in Nat /\ minted \in Nat
      BY <1>1 DEF TypeOK, FilesTyped, Ledgers
    <2> QED BY <1>1, <2>1, <2>2 DEF Lineage, Sides, Phase
  <1>9. ASSUME NEW config \in Configs, MenuEdit(config) PROVE Lineage' /\ Sides' /\ Phase'
    BY <1>1, <1>9 DEF MenuEdit, Lineage, Sides, Phase
  <1>10. ASSUME NEW found \in SUBSET Images, Refresh(found) PROVE Lineage' /\ Sides' /\ Phase'
    <2>1. ledger'.epoch = ledger.epoch
      BY <1>1, <1>10, Refreshing
    <2>2. settings' = "idle" /\ ini' = ini /\ journal' = journal /\ minted' = minted
      BY <1>1, <1>10, RefreshIsIdle DEF Refresh
    <2> QED BY <1>1, <2>1, <2>2 DEF Lineage, Sides, Phase
  <1> QED BY <1>2, <1>3, <1>4, <1>5, <1>6, <1>7, <1>8, <1>9, <1>10, FileMoves DEF PairInv

LEMMA PairInvariance ==
    ASSUME OutsideEdits = FALSE
    PROVE  Spec => []PairInv
  <1>1. PairInv /\ [Next]_vars => PairInv'
    BY PairStep
  <1> QED BY PairInit, <1>1, PTL DEF Spec

\* Without edits from outside, recovery always knows what to do: wherever the
\* process stopped, the files still tell cancel, finish and restore apart.
THEOREM CrashesRecoverable ==
    ASSUME OutsideEdits = FALSE
    PROVE  Spec => []Recoverable
  <1>1. PairInv => Recoverable
    BY RecordFacts DEF PairInv, Inv, Lineage, Sides, Recoverable, Decide
  <1> QED BY PairInvariance, <1>1, PTL

\* Without edits from outside, the end of a change finds both files old or
\* both files new.
THEOREM BothOrNeither ==
    ASSUME OutsideEdits = FALSE
    PROVE  Spec => ChangesTogether
  <1>1. PairInv /\ [Next]_vars =>
          [journal # None /\ journal' = None =>
             <<ini', ledger'>> \in {<<journal.before, journal.ledger>>, <<journal.after, Unused(journal.epoch)>>}]_vars
    <2> SUFFICES ASSUME PairInv, [Next]_vars, journal # None, journal' = None
                 PROVE  <<ini', ledger'>> \in {<<journal.before, journal.ledger>>, <<journal.after, Unused(journal.epoch)>>}
      OBVIOUS
    <2>1. CASE Remove
      BY <2>1 DEF Remove, PairInv, Phase
    <2>2. \A config \in Configs : ~Record(config)
      BY DEF Record
    <2> QED BY <2>1, <2>2, RecordMoves
  <1> QED BY PairInvariance, <1>1, PTL DEF Spec, ChangesTogether
------------------------------------------------------------------------------
\* A step that does not write what the gallery promises about maps to a
\* stutter or to one step of the promise.
LEMMA HistoryStep ==
    ASSUME OutsideEdits = FALSE, PairInv, [Next]_vars
    PROVE  [History!Next]_(History!vars)
  <1>1. TypeOK /\ Inv /\ Lineage /\ Sides /\ Phase /\ ClearingProgress /\ ShownIsOwned /\ WorkerIsOwned /\ Fenced
    BY DEF PairInv, Inv
  <1>2. ASSUME UNCHANGED files, shown' = shown PROVE UNCHANGED History!vars
    BY <1>2 DEF files, History!vars, InForce, Committed
  <1>3. ASSUME UNCHANGED files, WorkerUpdates PROVE History!Next
    <2>1. worker[1] \in Tiles /\ worker[2] \in Images /\ journal = None /\ ledger.owner[worker[2]] = worker[1]
      BY <1>1, <1>3 DEF WorkerUpdates, WorkerIsOwned, Fenced, TypeOK, Updates
    <2>2. InForce = ledger /\ InForce' = InForce /\ ini' = ini
      BY <1>3, <2>1 DEF InForce, Committed, files
    <2>3. History!Show(worker[1], worker[2])
      BY <1>3, <2>1, <2>2 DEF WorkerUpdates, History!Show
    <2> QED BY <2>1, <2>3 DEF History!Next
  <1>4. ASSUME NEW t \in Tiles, UNCHANGED files, ClearQueue(t) PROVE History!Next
    <2>1. History!Clear(t)
      BY <1>4 DEF ClearQueue, History!Clear, InForce, Committed, files
    <2> QED BY <2>1 DEF History!Next
  <1>5. CASE Aside
    BY <1>2, <1>3, <1>4, <1>5, ShownMoves DEF Aside
  <1>6. CASE Reset
    <2>1. /\ journal # None /\ journal' = journal /\ ini' = ini /\ shown' = shown
          /\ ledger = journal.ledger /\ ledger' = Unused(journal.epoch)
          /\ \A t \in Tiles : shown[t] = {}
      BY <1>1, <1>6 DEF Reset, TypeOK, ClearingProgress
    <2>2. InForce = journal.ledger
      BY <1>1, <2>1, RecordFacts DEF InForce, Committed, Lineage
    <2>3. CASE ini = journal.after
      <3>1. InForce' = Unused(journal.epoch)
        BY <1>1, <2>1, <2>3, RecordFacts DEF InForce, Committed
      <3>2. History!Redistribute
        BY <1>1, <2>1, <2>2, <3>1, RecordFacts DEF History!Redistribute, History!Unused, Unused, Lineage, TypeOK, FilesTyped
      <3> QED BY <3>2 DEF History!Next
    <2>4. CASE ini # journal.after
      BY <2>1, <2>2, <2>4 DEF InForce, Committed, History!vars
    <2> QED BY <2>3, <2>4
  <1>7. CASE WriteIni
    <2>1. /\ journal # None /\ journal' = journal /\ ini' = journal.after /\ shown' = shown
          /\ ledger = Unused(journal.epoch) /\ ledger' = ledger
      BY <1>1, <1>7 DEF WriteIni, TypeOK, Phase
    <2>2. InForce' = Unused(journal.epoch)
      BY <1>1, <2>1, RecordFacts DEF InForce, Committed
    <2>3. CASE ini = journal.after
      BY <2>1, <2>3 DEF InForce, Committed, History!vars
    <2>4. CASE ini # journal.after
      <3>1. InForce = journal.ledger
        BY <2>1, <2>4 DEF InForce, Committed
      <3>2. \A t \in Tiles : shown[t] = {}
        BY <1>1, <2>1, Apart DEF ShownIsOwned, Unused, TypeOK, FilesTyped
      <3>3. journal.after \in Configs
        BY <1>1, <2>1, RecordFacts DEF Records
      <3>4. History!Redistribute
        BY <1>1, <2>1, <2>2, <3>1, <3>2, <3>3, RecordFacts DEF History!Redistribute, History!Unused, Unused, Lineage
      <3> QED BY <3>4 DEF History!Next
    <2> QED BY <2>3, <2>4
  <1>8. CASE Recover
    <2>1. /\ journal # None /\ journal' = journal /\ ini' = ini /\ shown' = shown
      BY <1>1, <1>8 DEF Recover, TypeOK
    <2>2. \/ ledger' = ledger
          \/ ledger = Unused(journal.epoch) /\ ini # journal.after /\ ledger' = journal.ledger
      BY <1>1, <1>8 DEF Recover, Decide, Phase
    <2>3. InForce' = InForce
      BY <1>1, <2>1, <2>2, RecordFacts DEF InForce, Committed, Lineage
    <2> QED BY <2>1, <2>3 DEF History!vars
  <1>9. CASE Remove
    <2>1. journal # None /\ journal' = None /\ UNCHANGED <<ini, ledger, shown>>
      BY <1>1, <1>9 DEF Remove, TypeOK
    <2>2. ledger = journal.ledger \/ Committed
      BY <1>1, <1>9, <2>1, RecordFacts DEF Remove, Phase, Committed
    <2>3. InForce = ledger /\ InForce' = ledger
      BY <1>1, <2>1, <2>2 DEF InForce
    <2> QED BY <2>1, <2>3 DEF History!vars
  <1>10. ASSUME NEW config \in Configs, Record(config) PROVE UNCHANGED History!vars
    <2>1. /\ journal = None /\ UNCHANGED <<ini, ledger, shown>>
          /\ journal'.ledger = ledger /\ journal'.epoch = minted + 1
      BY <1>10 DEF Record
    <2>2. ledger.epoch # minted + 1
      BY <1>1 DEF Lineage, TypeOK, FilesTyped, Ledgers
    <2> QED BY <2>1, <2>2 DEF InForce, Committed, History!vars
  <1>11. ASSUME NEW config \in Configs, MenuEdit(config) PROVE History!Next
    <2>1. History!Edit
      BY <1>11 DEF MenuEdit, History!Edit, InForce, Committed
    <2> QED BY <2>1 DEF History!Next
  <1>12. ASSUME NEW found \in SUBSET Images, Refresh(found) PROVE [History!Next]_(History!vars)
    <2>1. /\ ledger'.epoch = ledger.epoch
          /\ \A i \in Images : ledger.owner[i] # None => ledger'.owner[i] = ledger.owner[i]
          /\ UNCHANGED <<ini, journal, shown>>
      BY <1>1, <1>12, Refreshing DEF Refresh
    <2>2. CASE journal = None \/ Committed
      <3>1. InForce = ledger /\ InForce' = ledger'
        BY <2>1, <2>2 DEF InForce, Committed
      <3>2. History!Reserve
        BY <2>1, <3>1 DEF History!Reserve
      <3> QED BY <3>2 DEF History!Next
    <2>3. CASE ~(journal = None \/ Committed)
      BY <2>1, <2>3 DEF InForce, Committed, History!vars
    <2> QED BY <2>2, <2>3
  <1> QED BY <1>5, <1>6, <1>7, <1>8, <1>9, <1>10, <1>11, <1>12, FileMoves

\* Without edits from outside, what is in force changes as the promise says:
\* reservations are only added, and configuration and ownership are replaced
\* in one step, over cleared queues, or not at all.
THEOREM Refinement ==
    ASSUME OutsideEdits = FALSE
    PROVE  Spec => ImplementsHistory
  <1>1. Init => History!Init
    BY DEF Init, History!Init, History!Unused, Unused, InForce
  <1>2. PairInv /\ [Next]_vars => [History!Next]_(History!vars)
    BY HistoryStep
  <1> QED BY <1>1, <1>2, PairInvariance, PTL DEF Spec, ImplementsHistory, History!Spec
==============================================================================
