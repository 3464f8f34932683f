-------------------------- MODULE GalleryTransaction --------------------------
(***************************************************************************)
(* Redistribution of a gallery's photos: SaveGalleryConfiguration          *)
(* (ga_gallery_tray.inc) changes two files that are each atomic, the INI   *)
(* and the ownership ledger, under a recovery record that                  *)
(* ga_gallery_transaction.inc and gallery_transaction.h finish or undo.    *)
(*                                                                         *)
(* The settings thread runs it with generation held and publication        *)
(* suspended; the poll thread captures the configuration and refreshes,    *)
(* the generation worker updates tiles, other programs edit the INI, any   *)
(* step may fail and the process may crash between two of them.  A         *)
(* configuration is the set of tiles it has; the ledger maps every         *)
(* reserved image to its owner.                                            *)
(***************************************************************************)
EXTENDS Naturals, FiniteSets

CONSTANTS Images, Tiles,
          Configs,      \* the galleries a profile may configure: sets of tiles
          None,
          OutsideEdits, \* other programs edit the INI file
          MaxEpoch,     \* bound on the redistributions
          Budget        \* bound on edits, attempts, failures and crashes

Unused(epoch) == [epoch |-> epoch, owner |-> [i \in Images |-> None]]

Ledgers == [epoch : Nat, owner : [Images -> Tiles \cup {None}]]
Records == [before : Configs, after : Configs, ledger : Ledgers, epoch : Nat]
Updates == Tiles \X Images

ASSUME TransactionAssumption ==
    /\ Configs \subseteq SUBSET Tiles /\ Configs # {}
    /\ None \notin Tiles \cup Configs \cup Ledgers \cup Records \cup Updates
    /\ OutsideEdits \in BOOLEAN
    /\ MaxEpoch \in Nat /\ Budget \in Nat

VARIABLES
    ini, ledger, journal,   \* the three files
    shown,                  \* Windows' queue of each tile
    minted,                 \* epoch identities handed out
    memory,                 \* ledger_, None when it must be read again
    reload,                 \* reloadRequested_
    frames,                 \* frames_: the updates that are published
    suspended,              \* suspended_
    captured,               \* the poll thread's Input, between capture and Refresh
    worker,                 \* the update being made, with generation held
    settings, todo,         \* the settings thread, and the queues it must clear
    budget

files   == <<ini, ledger, journal>>
runtime == <<memory, reload, frames, suspended>>
vars    == <<files, shown, minted, runtime, captured, worker, settings, todo, budget>>

Spend == budget > 0 /\ budget' = budget - 1
------------------------------------------------------------------------------
Init ==
    /\ ini \in Configs /\ ledger = Unused(0) /\ journal = None
    /\ shown = [t \in Tiles |-> {}]
    /\ minted = 0
    /\ memory = None /\ reload = FALSE /\ frames = {} /\ suspended = FALSE
    /\ captured = None /\ worker = None
    /\ settings = "startup" /\ todo = {}
    /\ budget = Budget

Holders(l) == {t \in Tiles : \E i \in Images : l.owner[i] = t}
------------------------------------------------------------------------------
(* The poll thread: RefreshGallerySource. *)

\* CaptureGalleryConfiguration: the INI lock is free and no record is pending.
Capture ==
    /\ settings \in {"idle", "suspended", "resuming"} /\ journal = None
    /\ captured = None
    /\ captured' = ini
    /\ UNCHANGED <<files, shown, minted, runtime, worker, settings, todo, budget>>

\* It fails, and Refresh, called without a configuration, changes context.
CaptureFails ==
    /\ settings # "startup" /\ captured = None /\ ~suspended
    /\ memory' = None /\ reload' = FALSE /\ frames' = {}
    /\ UNCHANGED <<files, shown, minted, suspended, captured, worker, settings, todo, budget>>

\* ReconcileOwnership: an image that is found and has no owner gets one of the
\* configured tiles; no reservation is ever released.
Reserves(l, config, found, owner) ==
    \A i \in Images : IF l.owner[i] = None /\ i \in found /\ config # {}
                      THEN owner[i] \in config ELSE owner[i] = l.owner[i]

Published(l, config, found) ==
    {u \in Updates : u[1] \in config /\ u[2] \in found /\ l.owner[u[2]] = u[1]}

\* Refresh, under operation_: it reads the ledger when it must, saves new
\* reservations if nobody saved since, and publishes the tiles' images.
Refresh(found) ==
    /\ captured # None /\ ~suspended
    /\ LET l == IF reload \/ memory = None THEN ledger ELSE memory IN
       \E owner \in [Images -> Tiles \cup {None}] :
          /\ Reserves(l, captured, found, owner)
          /\ LET candidate == [epoch |-> l.epoch, owner |-> owner] IN
             \/ /\ candidate = l \/ l = ledger
                /\ ledger' = IF candidate = l THEN ledger ELSE candidate
                /\ memory' = candidate
                /\ frames' = Published(candidate, captured, found)
                /\ UNCHANGED budget
             \/ /\ candidate # l
                /\ memory' = IF l = ledger THEN l ELSE None
                /\ frames' = {}
                /\ Spend
                /\ UNCHANGED ledger
    /\ reload' = FALSE /\ captured' = None
    /\ UNCHANGED <<ini, journal, shown, minted, suspended, worker, settings, todo>>

\* A suspended coordinator ignores the call.
RefreshSuspended ==
    /\ captured # None /\ suspended
    /\ captured' = None
    /\ UNCHANGED <<files, shown, minted, runtime, worker, settings, todo, budget>>
------------------------------------------------------------------------------
(* The generation worker. *)

\* The settings thread holds generation from Suspend to Resume.
GenerationFree == settings \in {"startup", "idle"} /\ worker = None

\* ValidateGalleryFrame, with the configuration captured afresh; generation is
\* held from here to the receipt.
WorkerChecks(u) ==
    /\ GenerationFree /\ settings = "idle"
    /\ journal = None /\ u[1] \in ini
    /\ ~suspended /\ u \in frames
    /\ worker' = u
    /\ UNCHANGED <<files, shown, minted, runtime, captured, settings, todo, budget>>

WorkerUpdates ==
    /\ worker # None
    /\ shown' = [shown EXCEPT ![worker[1]] = @ \cup {worker[2]}]
    /\ worker' = None
    /\ UNCHANGED <<files, minted, runtime, captured, settings, todo, budget>>

WorkerFails ==
    /\ worker # None
    /\ frames' = {u \in frames : u[1] # worker[1]}
    /\ worker' = None
    /\ Spend
    /\ UNCHANGED <<files, shown, minted, memory, reload, suspended, captured, settings, todo>>
------------------------------------------------------------------------------
(* Edits. *)

\* SaveGalleryMenuSettings, refused while a record is pending.
MenuEdit(config) ==
    /\ settings = "idle" /\ journal = None /\ config # ini
    /\ ini' = config /\ reload' = TRUE
    /\ Spend
    /\ UNCHANGED <<ledger, journal, shown, minted, memory, frames, suspended, captured, worker, settings, todo>>

\* Another program does not know the locks or the record.
OutsideEdit(config) ==
    /\ OutsideEdits /\ config # ini
    /\ ini' = config
    /\ Spend
    /\ UNCHANGED <<ledger, journal, shown, minted, runtime, captured, worker, settings, todo>>
------------------------------------------------------------------------------
(* Redistribution. *)

Suspends == suspended' = TRUE /\ frames' = {} /\ UNCHANGED <<memory, reload>>

GenerationHeld == settings = "idle" /\ GenerationFree

Begin ==
    /\ GenerationHeld
    /\ Suspends /\ settings' = "suspended"
    /\ Spend
    /\ UNCHANGED <<files, shown, minted, captured, worker, todo>>

\* Something is locked, unreadable or changed since the dialog opened, or a
\* record is pending already: nothing happens.
BugRefused ==
    /\ settings = "suspended"
    /\ settings' = "idle"
    /\ UNCHANGED <<files, shown, minted, runtime, captured, worker, todo, budget>>
Refused ==
    /\ settings = "suspended"
    /\ settings' = "resuming"
    /\ UNCHANGED <<files, shown, minted, runtime, captured, worker, todo, budget>>

\* Every tile that owns an image or is configured may show one.
BugQueuesToClear(l, config) == config
QueuesToClear(l, config) == Holders(l) \cup config

\* The record is durable before anything else changes.
Record(config) ==
    /\ settings = "suspended" /\ journal = None
    /\ minted < MaxEpoch
    /\ minted' = minted + 1
    /\ journal' = [before |-> ini, after |-> config, ledger |-> ledger, epoch |-> minted + 1]
    /\ todo' = QueuesToClear(ledger, ini)
    /\ settings' = "clearing"
    /\ UNCHANGED <<ini, ledger, shown, runtime, captured, worker, budget>>

\* ClearGalleryQueuesForRebalance, tile by tile.
ClearQueue(t) ==
    /\ settings = "clearing" /\ t \in todo
    /\ shown' = [shown EXCEPT ![t] = {}]
    /\ todo' = todo \ {t}
    /\ UNCHANGED <<files, minted, runtime, captured, worker, settings, budget>>

\* ResetGalleryLedgerForProfile, if the ledger is still the recorded one.
Reset ==
    /\ settings = "clearing" /\ todo = {}
    /\ ledger = journal.ledger
    /\ ledger' = Unused(journal.epoch)
    /\ settings' = "writing"
    /\ UNCHANGED <<ini, journal, shown, minted, runtime, captured, worker, todo, budget>>

WriteIni ==
    /\ settings = "writing"
    /\ ini' = journal.after
    /\ settings' = "finishing"
    /\ UNCHANGED <<ledger, journal, shown, minted, runtime, captured, worker, todo, budget>>

\* A queue, the ledger or the INI cannot be written: restore().
Fails ==
    /\ settings \in {"clearing", "writing"}
    /\ Spend
    /\ settings' = "recovering" /\ todo' = {}
    /\ UNCHANGED <<files, shown, minted, runtime, captured, worker>>
------------------------------------------------------------------------------
(* Recovery. *)

BugDecideByEpoch(record, config, l) ==
    IF config = record.before /\ l = record.ledger THEN "cancel"
    ELSE IF l.epoch = record.epoch /\ config = record.after THEN "finish"
    ELSE IF l = Unused(record.epoch) /\ config = record.before THEN "restore"
    ELSE "conflict"
BugDecideNoRestore(record, config, l) ==
    IF config = record.before /\ l = record.ledger THEN "cancel"
    ELSE IF l = Unused(record.epoch) /\ config = record.after THEN "finish"
    ELSE "conflict"
Decide(record, config, l) ==
    IF config = record.before /\ l = record.ledger THEN "cancel"
    ELSE IF l = Unused(record.epoch) /\ config = record.after THEN "finish"
    ELSE IF l = Unused(record.epoch) /\ config = record.before THEN "restore"
    ELSE "conflict"

\* RecoverPendingGalleryTransaction, at startup or from the menu.
RecoveryBegins ==
    /\ settings \in {"startup", "idle"} /\ GenerationFree
    /\ journal # None
    /\ settings = "startup" \/ budget > 0
    /\ budget' = IF settings = "startup" THEN budget ELSE budget - 1
    /\ Suspends /\ settings' = "recovering"
    /\ UNCHANGED <<files, shown, minted, captured, worker, todo>>

NothingToRecover ==
    /\ settings = "startup" /\ journal = None
    /\ settings' = "idle"
    /\ UNCHANGED <<files, shown, minted, runtime, captured, worker, todo, budget>>

\* RecoverLockedGalleryTransaction, up to the removal of the record.  After
\* its own INI write it compares the text it wrote.
Recover ==
    /\ settings \in {"recovering", "finishing"}
    /\ LET config == IF settings = "finishing" THEN journal.after ELSE ini
           decision == Decide(journal, config, ledger)
       IN /\ decision # "conflict"
          /\ ledger' = IF decision = "restore" THEN journal.ledger ELSE ledger
    /\ settings' = "removing"
    /\ UNCHANGED <<ini, journal, shown, minted, runtime, captured, worker, todo, budget>>

Conflict ==
    /\ settings = "recovering" /\ Decide(journal, ini, ledger) = "conflict"
    /\ settings' = "resuming"
    /\ UNCHANGED <<files, shown, minted, runtime, captured, worker, todo, budget>>

Remove ==
    /\ settings = "removing"
    /\ journal' = None
    /\ settings' = "resuming"
    /\ UNCHANGED <<ini, ledger, shown, minted, runtime, captured, worker, todo, budget>>

\* A file is unreadable, busy or cannot be written: the record stays.
RecoveryFails ==
    /\ settings \in {"recovering", "finishing", "removing"}
    /\ Spend
    /\ settings' = "resuming"
    /\ UNCHANGED <<files, shown, minted, runtime, captured, worker, todo>>

BugResumed == reload' = reload /\ suspended' = FALSE
Resumed == reload' = TRUE /\ suspended' = FALSE

Resume ==
    /\ settings = "resuming"
    /\ Resumed /\ settings' = "idle"
    /\ UNCHANGED <<files, shown, minted, memory, frames, captured, worker, todo, budget>>
------------------------------------------------------------------------------
Crash ==
    /\ Spend
    /\ memory' = None /\ reload' = FALSE /\ frames' = {} /\ suspended' = FALSE
    /\ captured' = None /\ worker' = None
    /\ settings' = "startup" /\ todo' = {}
    /\ UNCHANGED <<files, shown, minted>>

Poll == Capture \/ CaptureFails \/ RefreshSuspended \/ \E found \in SUBSET Images : Refresh(found)
Worker == WorkerUpdates \/ WorkerFails \/ \E u \in Updates : WorkerChecks(u)
Redistribution ==
    \/ Refused \/ Reset \/ WriteIni \/ Fails
    \/ \E config \in Configs : Record(config)
    \/ \E t \in Tiles : ClearQueue(t)
Recovery == NothingToRecover \/ Recover \/ Conflict \/ Remove \/ RecoveryFails
Environment == Crash \/ \E config \in Configs : MenuEdit(config) \/ OutsideEdit(config)

Next == Poll \/ Worker \/ Begin \/ Redistribution \/ RecoveryBegins \/ Recovery \/ Resume \/ Environment

Spec == Init /\ [][Next]_vars

\* The settings thread runs to the end of what it began.
FairSpec == Spec /\ WF_vars(Redistribution \/ Recovery \/ Resume)
------------------------------------------------------------------------------
FilesTyped ==
    /\ ini \in Configs /\ ledger \in Ledgers /\ journal \in Records \cup {None}
    /\ shown \in [Tiles -> SUBSET Images]
    /\ minted \in Nat

\* All files are of their kind, the record exists from its writing to its
\* removal, and publication is suspended exactly while settings are at work.
TypeOK ==
    /\ FilesTyped
    /\ memory \in Ledgers \cup {None} /\ reload \in BOOLEAN /\ frames \subseteq Updates
    /\ suspended = (settings \notin {"startup", "idle"})
    /\ captured \in Configs \cup {None} /\ worker \in Updates \cup {None}
    /\ settings \in {"startup", "idle", "suspended", "clearing", "writing", "finishing",
                     "recovering", "removing", "resuming"}
    /\ settings \in {"clearing", "writing", "finishing", "recovering", "removing"} => journal # None
    /\ todo \subseteq Tiles
    /\ budget \in Nat

\* No tile shows a photo that the ledger does not reserve for it: "partial
\* queue clearing ... must not authorize a reset", and neither a crash, a
\* failed step, a rollback nor a frame of an older ledger brings one back.
ShownIsOwned == \A t \in Tiles : \A i \in shown[t] : ledger.owner[i] = t

\* "A pending record fences ... frame validation": no queue gets a photo while
\* a change is not finished.
NothingShownWhilePending == [][journal # None => \A t \in Tiles : shown'[t] \subseteq shown[t]]_vars

\* Whatever edits and failures came in between, the record is removed only
\* with the exact old ledger in place or the new one, still unused.
HistoryIsWhole ==
    [][journal # None /\ journal' = None => ledger' \in {journal.ledger, Unused(journal.epoch)}]_vars

\* Without edits from outside: the record is removed either with both files as
\* they were or with both as they were to become.
ChangesTogether ==
    [][journal # None /\ journal' = None =>
         <<ini', ledger'>> \in {<<journal.before, journal.ledger>>, <<journal.after, Unused(journal.epoch)>>}]_vars

\* Wherever a crash or a failure leaves the files, recovery can tell what to
\* do, as long as nobody else has changed them.
Recoverable ==
    journal # None /\ ledger \in {journal.ledger, Unused(journal.epoch)} =>
        Decide(journal, ini, ledger) # "conflict"

\* "... so the unused reset ledger cannot allocate new owners before recovery."
UnusedUntilRecovered ==
    journal # None => ledger \in {journal.ledger, Unused(journal.epoch)}

\* The pair of files changes as one: the change happens when the new INI is
\* published over a reset ledger, and never half.
Committed == journal # None /\ ledger.epoch = journal.epoch /\ ini = journal.after
InForce == IF journal = None \/ Committed THEN ledger ELSE journal.ledger
History == INSTANCE GalleryHistory WITH config <- ini, ledger <- InForce
ImplementsHistory == History!Spec

\* Publication never stays suspended, however the change ends.
PublicationResumes == suspended ~> ~suspended
==============================================================================
