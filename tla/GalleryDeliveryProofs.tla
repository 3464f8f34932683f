------------------------ MODULE GalleryDeliveryProofs ------------------------
(***************************************************************************)
(* Proofs about GalleryDelivery, for every set of images, every order and  *)
(* every set of queue sizes.                                               *)
(***************************************************************************)
EXTENDS GalleryDelivery, TLAPS

(* Windows of a pool. *)

\* A remainder is below its modulus: a cursor stands inside its pool.
LEMMA ModuloBelow == ASSUME NEW n \in Nat, NEW m \in Nat \ {0} PROVE n % m \in 0..(m - 1)
OBVIOUS

\* A window of a nonempty pool is a nonempty sequence of the pool's images.
LEMMA WindowType ==
    ASSUME NEW S, NEW pool \in Seq(S), pool # << >>, NEW cursor \in Nat, NEW size \in Nat \ {0}
    PROVE  /\ WindowImages(pool, cursor, size) \in Seq(S)
           /\ WindowImages(pool, cursor, size) # << >>
           /\ NextCursor(pool, cursor, size) \in Nat
<1> DEFINE n == WindowCount(pool, size)
           start == WindowStart(pool, cursor)
<1>1. Len(pool) \in Nat \ {0}
  OBVIOUS
<1>2. n \in Nat \ {0}
  BY <1>1 DEF WindowCount
<1>3. start \in Nat
  BY <1>1, ModuloBelow DEF WindowStart
<1>4. \A i \in 1..n : Around(pool, start, i - 1) \in S
  <2> SUFFICES ASSUME NEW i \in 1..n PROVE Around(pool, start, i - 1) \in S
    OBVIOUS
  <2> DEFINE r == (start + (i - 1)) % Len(pool)
  <2>1. start + (i - 1) \in Nat
    BY <1>2, <1>3
  <2>2. r \in 0..(Len(pool) - 1)
    BY <1>1, <2>1, ModuloBelow
  <2>3. pool[r + 1] \in S
    <3> HIDE DEF r
    <3> QED
      BY <1>1, <2>2
  <2>4. QED
    BY <2>3 DEF Around
<1>5. [i \in 1..n |-> Around(pool, start, i - 1)] \in Seq(S)
  BY <1>2, <1>4
<1>6. [i \in 1..n |-> Around(pool, start, i - 1)] # << >>
  BY <1>2
<1>7. NextCursor(pool, cursor, size) \in Nat
  <2>1. start + n \in Nat
    BY <1>2, <1>3
  <2>2. (start + n) % Len(pool) \in 0..(Len(pool) - 1)
    BY <1>1, <2>1, ModuloBelow
  <2>3. QED
    BY <1>1, <2>2 DEF NextCursor
<1>8. QED
  BY <1>5, <1>6, <1>7 DEF WindowImages
------------------------------------------------------------------------------
(* Types. *)

(* What the types need to be inductive. *)

\* What Refresh and the batches carry from one step to the next.
Carried ==
    /\ op # "idle" => cfg # 0
    /\ op \in {"plan", "prepare", "released", "publish"} => paths # None
    /\ op = "commit" => flight # None
    /\ frames # None => flight # None
    /\ queued # None => queued.todo \subseteq SlotsOf(queued.frame.images)
    /\ running # None => running.todo \subseteq SlotsOf(running.frame.images)
    /\ resend # None => resend.todo \subseteq SlotsOf(resend.frame.images)

\* A flight is of the durable pending window and its frames are of the flight;
\* a suspended publication has neither.
Flown ==
    /\ frames # None =>
          /\ flight # None /\ ~flight.ready
          /\ frames.attempt = flight.attempt /\ frames.images = flight.images
          /\ frames.ticket = flight.ticket /\ frames.epoch = flight.epoch
    /\ flight # None /\ op # "released" =>
          /\ ledger.ticket # 0
          /\ flight.ticket = ledger.ticket /\ flight.epoch = ledger.epoch /\ flight.images = ledger.images
    /\ settings # "idle" => suspended
    /\ settings \in {"suspended", "resuming"} => flight = None /\ frames = None /\ op = "idle"

\* What the constants are assumed to be, in the form the steps need.
LEMMA Facts ==
    /\ None \notin Contents /\ None \notin Inventories /\ None \notin Flights
    /\ None \notin Frames /\ None \notin Batches /\ None \notin Windows
    /\ Sizes \subseteq Nat \ {0} /\ MaxTicket \in Nat /\ Budget \in Nat
    /\ \A S \in SUBSET Images : Ordered[S] \in Seq(S)
BY DeliveryAssumption DEF DeliveryAssumption

\* The steps that write the INI, the ledger or Windows' queue.
LEMMA DiskMoves ==
    [Next]_vars =>
        \/ UNCHANGED disk
        \/ Commit \/ Rebuild \/ NewWindow \/ Release \/ Redistribute
        \/ \E size \in Sizes : Edit(size)
        \/ \E s \in Slots : UpdateFails(s) \/ Update(s)
BY DEF Next, Poll, Generation, Settings, Clock, Environment, vars, disk, RefreshWaits, RefreshUnread,
    RefreshWithoutConfiguration, RefreshBegins, CommitFails, RebuildFails, PrepareFails, SaveFails,
    NotScanned, NothingToPlan, Plan, RetryWindow, Withdraw, Publish, Enqueue, Take, Check, Stale,
    ResendQueued, Ack, SuspendBegins, SuspendEnds, Resume, RefreshDue, OtherTileDue, BackoffEnds,
    FlightRetryEnds, AskRefresh, ResendBegins, Crash

\* The steps that write the coordinator's own state.
LEMMA PolledMoves ==
    [Next]_vars =>
        \/ UNCHANGED <<cfg, paths, lastCount, confirmed>>
        \/ \E inventory \in Inventories \cup {paths} : Adopt(inventory) /\ UNCHANGED lastCount
        \/ RefreshWithoutConfiguration \/ Commit
        \/ confirmed' = None /\ UNCHANGED <<cfg, paths, lastCount>>
        \/ Crash
BY DEF Next, Poll, Generation, Settings, Clock, Environment, vars, polled, Invalidate,
    RefreshWaits, RefreshUnread, RefreshBegins, CommitFails, RebuildFails, PrepareFails, SaveFails,
    NotScanned, Rebuild, NothingToPlan, Plan, RetryWindow, NewWindow, Release, Withdraw, Publish, Enqueue,
    Take, Check, Stale, ResendQueued, UpdateFails, Update, Ack, SuspendBegins, SuspendEnds, Redistribute,
    Resume, RefreshDue, OtherTileDue, BackoffEnds, FlightRetryEnds, Edit, AskRefresh, ResendBegins

\* Where flights and frames change: a refresh adopts a configuration, Publish,
\* the receipts, the end of a back-off, and everything that withdraws frames,
\* with the flight or without.
LEMMA SharedMoves ==
    [Next]_vars =>
        \/ UNCHANGED <<flight, frames, attempts, unreported>>
        \/ \E f, s : Dropped(f, s)
        \/ op = "idle" /\ op' # "released" /\ \E inventory \in Inventories \cup {paths} : Adopt(inventory)
        \/ /\ frames' = None /\ flight' \in {flight, None} /\ attempts' \in {attempts, 0}
           /\ op' # "commit"
           /\ flight' = None \/ UNCHANGED <<flight, attempts, unreported>>
        \/ Publish
        \/ \E f : Fail(f)
        \/ \E s \in Slots : Ack(s)
        \/ FlightRetryEnds
BY DEF Next, Poll, Generation, Settings, Clock, Environment, vars, shared, Invalidate,
    RefreshWaits, RefreshUnread, RefreshWithoutConfiguration, RefreshBegins, Commit, CommitFails,
    RebuildFails, PrepareFails, SaveFails,
    NotScanned, Rebuild, NothingToPlan, Plan, RetryWindow, NewWindow, Release, Withdraw, Enqueue,
    Take, Check, Stale, ResendQueued, UpdateFails, Update, SuspendBegins, SuspendEnds, Redistribute,
    Resume, RefreshDue, OtherTileDue, BackoffEnds, Edit, AskRefresh, ResendBegins, Crash, opVars

\* The steps of generation.
LEMMA DeliveryMoves ==
    [Next]_vars =>
        \/ UNCHANGED delivery
        \/ Enqueue \/ Take \/ Check \/ Stale \/ ResendQueued
        \/ \E s \in Slots : UpdateFails(s) \/ Update(s) \/ Ack(s)
        \/ Redistribute \/ ResendBegins \/ Crash
BY DEF Next, Poll, Generation, Settings, Clock, Environment, vars, RefreshWaits, RefreshUnread,
    RefreshWithoutConfiguration, RefreshBegins, Commit, CommitFails, RebuildFails, PrepareFails, SaveFails,
    NotScanned, Rebuild, NothingToPlan, Plan, RetryWindow, NewWindow, Release, Withdraw, Publish,
    SuspendBegins, SuspendEnds, Resume, RefreshDue, OtherTileDue, BackoffEnds,
    FlightRetryEnds, Edit, AskRefresh

\* Images of a part are images of the whole.
LEMMA SubSeqType == ASSUME NEW T, NEW S \in SUBSET T, NEW q \in Seq(S) PROVE q \in Seq(T)
OBVIOUS

\* A ledger whose window was delivered or released has none and is otherwise
\* the same.
LEMMA NoWindowType ==
    ASSUME NEW l \in Ledgers
    PROVE  /\ NoWindow(l) \in Ledgers
           /\ NoWindow(l).ticket = 0 /\ NoWindow(l).images = << >> /\ NoWindow(l).next = 0
           /\ NoWindow(l).cursor = l.cursor /\ NoWindow(l).epoch = l.epoch
           /\ NoWindow(l).nextTicket = l.nextTicket /\ NoWindow(l).owned = l.owned
<1>1. << >> \in Seq(Images)
  OBVIOUS
<1>2. PICK q \in Seq(Images) : q = << >>
  BY <1>1, Zenon
<1>3. [l EXCEPT !.ticket = 0, !.next = 0, !.images = q] \in Ledgers
  BY DEF Ledgers
<1>4. NoWindow(l) = [l EXCEPT !.ticket = 0, !.next = 0, !.images = q]
  BY <1>2, Zenon DEF NoWindow
<1>5. QED
  BY <1>2, <1>3, <1>4 DEF Ledgers

\* A ledger with another window is a ledger.
LEMMA DealtType ==
    ASSUME NEW l \in Ledgers, NEW t \in Nat, NEW m \in Nat, NEW n \in Nat, NEW q \in Seq(Images)
    PROVE  [l EXCEPT !.ticket = t, !.nextTicket = m, !.images = q, !.next = n] \in Ledgers
BY DEF Ledgers

\* A new attempt is of the same window, with no slot delivered.
LEMMA NewAttemptType ==
    ASSUME NEW f \in Flights, attempts \in Nat
    PROVE  /\ NewAttempt(f) \in Flights
           /\ NewAttempt(f).attempt = attempts + 1 /\ ~NewAttempt(f).ready /\ NewAttempt(f).acked = {}
           /\ NewAttempt(f).epoch = f.epoch /\ NewAttempt(f).ticket = f.ticket /\ NewAttempt(f).images = f.images
<1>1. PICK a \in SUBSET Nat : a = {}
  OBVIOUS
<1>2. PICK r \in BOOLEAN : r = FALSE
  BY Zenon
<1>3. PICK n \in Nat : n = attempts + 1
  OBVIOUS
<1>4. [f EXCEPT !.attempt = n, !.acked = a, !.ready = r] \in Flights
  BY DEF Flights
<1>5. NewAttempt(f) = [f EXCEPT !.attempt = n, !.acked = a, !.ready = r]
  BY <1>1, <1>2, <1>3, Zenon DEF NewAttempt
<1>6. QED
  BY <1>1, <1>2, <1>3, <1>4, <1>5 DEF Flights

\* Any two requests are requests.
LEMMA AskedType ==
    ASSUME NEW a \in BOOLEAN, NEW b \in BOOLEAN
    PROVE  [refresh |-> a, reload |-> b] \in [refresh : BOOLEAN, reload : BOOLEAN]
OBVIOUS

\* Flags, positions and the budget, one variable at a time.
LEMMA ControlStep ==
    FlagsTyped /\ ControlTyped /\ [Next]_vars => FlagsTyped' /\ ControlTyped'
<1> SUFFICES ASSUME FlagsTyped, ControlTyped, [Next]_vars PROVE FlagsTyped' /\ ControlTyped'
  OBVIOUS
<1> USE DEF FlagsTyped, ControlTyped
<1>1. /\ UNCHANGED budget \/ Spend
      /\ \/ UNCHANGED asked
         \/ asked' = [refresh |-> FALSE, reload |-> FALSE] \/ asked' = [refresh |-> TRUE, reload |-> FALSE]
         \/ asked' = [refresh |-> TRUE, reload |-> TRUE]
         \/ \E reload \in {asked.reload, TRUE} : asked' = [refresh |-> TRUE, reload |-> reload]
      /\ op' \in {"idle", "commit", "rebuild", "plan", "prepare", "released", "publish"}
      /\ settings' \in {"idle", "suspending", "suspended", "resuming"}
      /\ ledgerReady' \in BOOLEAN /\ elapsed' \in BOOLEAN /\ planned' \in BOOLEAN
      /\ suspended' \in BOOLEAN /\ backoff' \in BOOLEAN /\ force' \in BOOLEAN /\ unreported' \in BOOLEAN
  <2> USE DEF Next, Poll, Generation, Settings, Clock, Environment, vars, polled, shared, opVars, Adopt,
          Invalidate, RefreshWaits, RefreshUnread, RefreshWithoutConfiguration, RefreshBegins, Commit,
          CommitFails, RebuildFails, PrepareFails, SaveFails, NotScanned, Rebuild, NothingToPlan, Plan,
          RetryWindow, NewWindow, Release, Withdraw, Publish, Enqueue, Take, Check, Stale, ResendQueued,
          UpdateFails, Update, Ack, Acknowledge, Fail, Dropped, SuspendBegins, SuspendEnds, Redistribute, Resume,
          RefreshDue, OtherTileDue, BackoffEnds, FlightRetryEnds, Edit, AskRefresh, ResendBegins, Crash
  <2>1. UNCHANGED budget \/ Spend
    BY Zenon
  <2>2. \/ UNCHANGED asked
        \/ asked' = [refresh |-> FALSE, reload |-> FALSE] \/ asked' = [refresh |-> TRUE, reload |-> FALSE]
        \/ asked' = [refresh |-> TRUE, reload |-> TRUE]
        \/ \E reload \in {asked.reload, TRUE} : asked' = [refresh |-> TRUE, reload |-> reload]
    BY Zenon
  <2>3. op' \in {"idle", "commit", "rebuild", "plan", "prepare", "released", "publish"}
    BY Zenon
  <2>4. settings' \in {"idle", "suspending", "suspended", "resuming"}
    BY Zenon
  <2>5. ledgerReady' \in BOOLEAN
    BY Zenon
  <2>6. elapsed' \in BOOLEAN
    BY Zenon
  <2>7. planned' \in BOOLEAN
    BY Zenon
  <2>8. suspended' \in BOOLEAN
    BY Zenon
  <2>9. backoff' \in BOOLEAN
    BY Zenon
  <2>10. force' \in BOOLEAN
    BY Zenon
  <2>11. unreported' \in BOOLEAN
    BY Zenon
  <2>12. QED
    BY <2>1, <2>2, <2>3, <2>4, <2>5, <2>6, <2>7, <2>8, <2>9, <2>10, <2>11, Zenon
<1>2. budget' \in Nat
  BY <1>1 DEF Spend
<1>3. asked' \in [refresh : BOOLEAN, reload : BOOLEAN]
  <2>1. asked.reload \in BOOLEAN
    OBVIOUS
  <2>2. ASSUME NEW reload \in {asked.reload, TRUE}, asked' = [refresh |-> TRUE, reload |-> reload]
        PROVE  asked' \in [refresh : BOOLEAN, reload : BOOLEAN]
    <3>1. reload \in BOOLEAN
      BY <2>1, Zenon
    <3>2. QED
      BY <2>2, <3>1, AskedType, Zenon
  <2>3. QED
    BY <1>1, <2>2, AskedType, Zenon
<1>4. QED
  BY <1>1, <1>2, <1>3, Zenon

\* Each part of the type invariant is kept by the steps that write it.
LEMMA DiskStep == TypeOK /\ Carried /\ [Next]_vars => DiskTyped'
<1> SUFFICES ASSUME TypeOK, Carried, [Next]_vars PROVE DiskTyped'
  OBVIOUS
<1> USE Facts DEF TypeOK, DiskTyped, Carried, Ledgers
<1>1. CASE UNCHANGED disk
  BY <1>1 DEF disk
<1>2. CASE Commit
  <2> DEFINE l == NoWindow(ledger)
  <2>1. l \in Ledgers /\ l.ticket = 0 /\ l.images = << >> /\ l.nextTicket = ledger.nextTicket
    BY NoWindowType
  <2>2. ledger' = [l EXCEPT !.cursor = ledger.next] /\ UNCHANGED <<ini, win>>
    BY <1>2 DEF Commit
  <2> HIDE DEF l
  <2>3. ledger.next \in Nat
    OBVIOUS
  <2>4. ledger' \in Ledgers /\ ledger'.ticket = 0 /\ ledger'.images = << >>
        /\ ledger'.nextTicket = ledger.nextTicket
    BY <2>1, <2>2, <2>3
  <2>5. << >> \in Seq(ledger'.owned) /\ 0 < ledger'.nextTicket
    BY <2>4
  <2>6. QED
    BY <2>2, <2>4, <2>5
<1>3. CASE Rebuild
  <2> DEFINE owned == ledger.owned \cup paths.images
  <2>1. paths.images \in SUBSET Images
    BY <1>3 DEF Rebuild, PolledTyped, Inventories
  <2>2. ledger' = [ledger EXCEPT !.owned = owned] /\ UNCHANGED <<ini, win>>
    BY <1>3 DEF Rebuild
  <2>3. owned \in SUBSET Images /\ ledger.owned \in SUBSET owned
    BY <2>1
  <2> HIDE DEF owned
  <2>4. ledger.images \in Seq(owned)
    BY <2>3, SubSeqType
  <2>5. /\ ledger' \in Ledgers
        /\ ledger'.images = ledger.images /\ ledger'.ticket = ledger.ticket
        /\ ledger'.nextTicket = ledger.nextTicket /\ ledger'.owned = owned
    BY <2>2, <2>3
  <2>6. QED
    BY <2>2, <2>4, <2>5
<1>4. CASE NewWindow
  <2>1. Pool \in Seq(ledger.owned) /\ Pool # << >> /\ ledger.cursor \in Nat /\ cfg \in Nat \ {0}
    <3>1. Pool \in Seq(paths.images \cap ledger.owned)
      BY <1>4 DEF NewWindow, Pool, PolledTyped, Inventories
    <3>2. QED
      BY <1>4, <3>1, SubSeqType DEF NewWindow, PolledTyped
  <2> DEFINE images == WindowImages(Pool, ledger.cursor, cfg)
             next == NextCursor(Pool, ledger.cursor, cfg)
  <2>2. images \in Seq(ledger.owned) /\ images # << >> /\ next \in Nat
    BY <2>1, WindowType
  <2>3. images \in Seq(Images)
    BY <2>2, SubSeqType
  <2>4. ledger' = [ledger EXCEPT !.ticket = ledger.nextTicket, !.nextTicket = ledger.nextTicket + 1,
                                 !.images = images, !.next = next] /\ UNCHANGED <<ini, win>>
    BY <1>4 DEF NewWindow
  <2> HIDE DEF images, next
  <2>5. ledger' \in Ledgers
    <3>1. ledger \in Ledgers /\ ledger.nextTicket \in Nat /\ ledger.nextTicket + 1 \in Nat
      OBVIOUS
    <3>2. QED
      BY <2>2, <2>3, <2>4, <3>1, DealtType, Zenon
  <2>6. ledger'.ticket = ledger.nextTicket /\ ledger'.nextTicket = ledger.nextTicket + 1
        /\ ledger'.images = images /\ ledger'.owned = ledger.owned
    BY <2>4
  <2>7. /\ ledger'.images \in Seq(ledger'.owned) /\ ledger'.ticket < ledger'.nextTicket
        /\ ledger'.ticket # 0 /\ ledger'.images # << >>
    <3>1. ledger.nextTicket \in Nat /\ ledger.nextTicket # 0
      OBVIOUS
    <3>2. ledger'.ticket < ledger'.nextTicket /\ ledger'.ticket # 0
      BY <2>6, <3>1
    <3>3. QED
      BY <2>2, <2>6, <3>2, Zenon
  <2>8. ini' = ini /\ win' = win
    BY <2>4
  <2>9. QED
    BY <2>5, <2>7, <2>8
<1>5. CASE Release
  BY <1>5, NoWindowType DEF Release
<1>6. CASE Redistribute
  <2>1. win' \in [Slots -> Contents \cup {None}] /\ ini' \in Sizes
    BY <1>6 DEF Redistribute, EmptyQueue
  <2>2. CASE UNCHANGED ledger
    BY <2>1, <2>2
  <2>3. CASE ledger' = EmptyLedger(ledger.epoch + 1, 1)
    BY <2>1, <2>3 DEF EmptyLedger
  <2>4. QED
    BY <1>6, <2>2, <2>3 DEF Redistribute
<1>7. ASSUME NEW size \in Sizes, Edit(size) PROVE DiskTyped'
  BY <1>7 DEF Edit
<1>8. ASSUME NEW s \in Slots, UpdateFails(s) PROVE DiskTyped'
  BY <1>8 DEF UpdateFails, EmptyQueue
<1>9. ASSUME NEW s \in Slots, Update(s) PROVE DiskTyped'
  <2> DEFINE f == running.frame
             base == IF f.reset /\ s = 1 THEN EmptyQueue ELSE win
  <2>1. running # None /\ s \in running.todo
    BY <1>9 DEF Update, First, DeliveryTyped
  <2>2. f \in Frames /\ s \in SlotsOf(f.images)
    BY <2>1 DEF DeliveryTyped, Batches, Carried
  <2>3. Content(f, s) \in Contents
    <3> HIDE DEF f
    <3>1. f.images \in Seq(Images) /\ f.version \in Nat
      BY <2>2 DEF Frames
    <3>2. f.images[s] \in Images
      BY <2>2, <3>1 DEF SlotsOf
    <3>3. QED
      BY <3>1, <3>2 DEF Content, Contents
  <2>4. base \in [Slots -> Contents \cup {None}]
    BY DEF EmptyQueue
  <2>5. win' = [base EXCEPT ![s] = Content(f, s)] /\ UNCHANGED <<ini, ledger>>
    BY <1>9 DEF Update
  <2> HIDE DEF base, f
  <2>6. QED
    BY <2>3, <2>4, <2>5
<1>10. QED
  BY <1>1, <1>2, <1>3, <1>4, <1>5, <1>6, <1>7, <1>8, <1>9, DiskMoves

\* The configuration, the inventory and the confirmed window.
LEMMA PolledStep == TypeOK /\ Carried /\ [Next]_vars => PolledTyped'
<1> SUFFICES ASSUME TypeOK, Carried, [Next]_vars PROVE PolledTyped'
  OBVIOUS
<1> USE Facts DEF TypeOK, PolledTyped, DiskTyped, Windows, Inventories
<1>1. ASSUME NEW inventory \in Inventories \cup {paths}, Adopt(inventory), UNCHANGED lastCount PROVE PolledTyped'
  BY <1>1 DEF Adopt
<1>2. CASE RefreshWithoutConfiguration
  BY <1>2 DEF RefreshWithoutConfiguration, Invalidate
<1>3. CASE Commit
  BY <1>3 DEF Commit, SharedTyped, Flights, Carried
<1>4. CASE confirmed' = None /\ UNCHANGED <<cfg, paths, lastCount>>
  BY <1>4
<1>5. CASE Crash
  BY <1>5 DEF Crash
<1>6. QED
  BY <1>1, <1>2, <1>3, <1>4, <1>5, PolledMoves

\* A pending window is published as a flight of its own, whose frames are
\* shown unless it is complete or waits for its retry.
LEMMA PublishStep ==
    ASSUME TypeOK, Carried, Flown, Publish, ledger.ticket # 0
    PROVE  \E base \in Flights :
              /\ base.ticket = ledger.ticket /\ base.epoch = ledger.epoch /\ base.images = ledger.images
              /\ base.pub = paths.version
              /\ \/ base.attempt = attempts + 1 /\ base.acked = {} /\ ~base.ready /\ attempts' = attempts + 1
                 \/ flight # None /\ base = flight /\ UNCHANGED <<attempts, unreported>>
              /\ \/ flight' = base /\ frames' = None
                 \/ /\ ~base.ready
                    /\ flight' = [base EXCEPT !.retry = "no"]
                    /\ frames' = [epoch |-> ledger.epoch, ticket |-> ledger.ticket, attempt |-> base.attempt,
                                  images |-> ledger.images, version |-> paths.version, reset |-> Resets]
<1> DEFINE new == [epoch |-> ledger.epoch, ticket |-> ledger.ticket, images |-> ledger.images,
                   acked |-> {}, attempt |-> attempts + 1, retry |-> "no", ready |-> FALSE,
                   pub |-> paths.version]
           base == IF ~SameWindow THEN new
                   ELSE IF ContentChanged THEN [NewAttempt(flight) EXCEPT !.pub = paths.version]
                   ELSE [flight EXCEPT !.pub = paths.version]
           shown == ~base.ready /\ base.retry # "wait"
<1>1. ledger \in Ledgers /\ paths.version \in Nat /\ attempts \in Nat /\ op = "publish"
  BY Facts DEF Publish, TypeOK, DiskTyped, PolledTyped, SharedTyped, Inventories, Carried
<1>2. /\ new \in Flights /\ new.attempt = attempts + 1 /\ new.acked = {} /\ ~new.ready
      /\ new.pub = paths.version
  BY <1>1 DEF Ledgers, Flights
<1>3. SameWindow => /\ flight # None /\ flight \in Flights /\ flight.ticket = ledger.ticket
                    /\ flight.epoch = ledger.epoch /\ flight.images = ledger.images
  BY <1>1 DEF SameWindow, TypeOK, SharedTyped, Flown
<1>4. SameWindow => /\ NewAttempt(flight) \in Flights /\ NewAttempt(flight).ticket = ledger.ticket
                    /\ NewAttempt(flight).epoch = ledger.epoch /\ NewAttempt(flight).images = ledger.images
                    /\ NewAttempt(flight).attempt = attempts + 1 /\ NewAttempt(flight).acked = {}
                    /\ ~NewAttempt(flight).ready
  BY <1>1, <1>3, NewAttemptType
<1>5. /\ attempts' = IF ~SameWindow \/ ContentChanged THEN attempts + 1 ELSE attempts
      /\ unreported' = (unreported /\ ~(~SameWindow \/ ContentChanged))
  BY Zenon DEF Publish
<1>6. /\ base \in Flights
      /\ base.ticket = ledger.ticket /\ base.epoch = ledger.epoch /\ base.images = ledger.images
      /\ base.pub = paths.version
      /\ \/ base.attempt = attempts + 1 /\ base.acked = {} /\ ~base.ready /\ attempts' = attempts + 1
         \/ flight # None /\ base = flight /\ UNCHANGED <<attempts, unreported>>
  <2>1. CASE ~SameWindow
    BY <1>2, <1>5, <2>1
  <2>2. CASE SameWindow /\ ContentChanged
    <3>1. base = [NewAttempt(flight) EXCEPT !.pub = paths.version]
      BY <2>2
    <3> HIDE DEF base
    <3>2. QED
      BY <1>1, <1>4, <1>5, <2>2, <3>1 DEF Flights
  <2>3. CASE SameWindow /\ ~ContentChanged
    <3>1. base = [flight EXCEPT !.pub = paths.version] /\ flight.pub = paths.version
      BY <2>3 DEF ContentChanged
    <3> HIDE DEF base
    <3>2. base = flight
      BY <1>3, <2>3, <3>1 DEF Flights
    <3>3. UNCHANGED <<attempts, unreported>>
      <4>1. attempts' = attempts
        BY <1>5, <2>3
      <4>2. unreported \in BOOLEAN
        BY DEF TypeOK, FlagsTyped
      <4>3. unreported' = unreported
        BY <1>5, <2>3, <4>2, Zenon
      <4>4. QED
        BY <4>1, <4>3
    <3>4. QED
      BY <1>3, <2>3, <3>1, <3>2, <3>3
  <2>4. QED
    BY <2>1, <2>2, <2>3
<1>7. /\ flight' = IF shown THEN [base EXCEPT !.retry = "no"] ELSE base
      /\ frames' = IF shown
                   THEN [epoch |-> ledger.epoch, ticket |-> ledger.ticket, attempt |-> base.attempt,
                         images |-> ledger.images, version |-> paths.version, reset |-> Resets]
                   ELSE None
  BY Zenon DEF Publish
<1> HIDE DEF base
<1>8. QED
  BY <1>6, <1>7

\* A receipt of success that counts only adds to its flight's slots, and the
\* last one withdraws the frames.
LEMMA AcknowledgeStep ==
    ASSUME TypeOK, Carried, Flown, NEW f, NEW s \in Nat, Acknowledge(f, s)
    PROVE  \/ UNCHANGED <<flight, frames, attempts>>
           \/ /\ ~suspended /\ flight # None /\ flight' \in Flights
              /\ flight'.ticket = flight.ticket /\ flight'.epoch = flight.epoch
              /\ flight'.images = flight.images /\ flight'.attempt = flight.attempt
              /\ frames' = None \/ (frames' = frames /\ ~flight'.ready)
              /\ UNCHANGED attempts
<1> DEFINE done == Acked(f, s) = SlotsOf(flight.images)
<1> SUFFICES ASSUME ~UNCHANGED <<flight, frames, attempts>>
             PROVE  /\ ~suspended /\ flight # None /\ flight' \in Flights
                    /\ flight'.ticket = flight.ticket /\ flight'.epoch = flight.epoch
                    /\ flight'.images = flight.images /\ flight'.attempt = flight.attempt
                    /\ frames' = None \/ (frames' = frames /\ ~flight'.ready)
                    /\ UNCHANGED attempts
  OBVIOUS
<1>1. /\ Matches(f) /\ flight # None
      /\ flight' = [flight EXCEPT !.acked = Acked(f, s), !.ready = flight.ready \/ done]
      /\ frames' = IF done THEN None ELSE frames
      /\ UNCHANGED attempts
  BY Zenon DEF Acknowledge, Dropped
<1>2. flight \in Flights /\ flight.ready \in BOOLEAN /\ flight.ready = FALSE
  BY <1>1, Facts DEF TypeOK, SharedTyped, Flights, Flown, Matches
<1>3. Acked(f, s) \in SUBSET Nat
  BY <1>2 DEF Acked, Flights
<1>4. PICK r \in BOOLEAN : r = (flight.ready \/ done)
  BY <1>2, Zenon
<1>5. flight' = [flight EXCEPT !.acked = Acked(f, s), !.ready = r]
  BY <1>1, <1>4, Zenon
<1> HIDE DEF done
<1>6. /\ flight' \in Flights /\ flight'.ready = r
      /\ flight'.ticket = flight.ticket /\ flight'.epoch = flight.epoch
      /\ flight'.images = flight.images /\ flight'.attempt = flight.attempt
  BY <1>2, <1>3, <1>5 DEF Flights
<1>7. ~done => ~r
  BY <1>2, <1>4, Zenon
<1>8. QED
  BY <1>1, <1>6, <1>7, Zenon DEF Matches

\* The flight and its frames.
LEMMA SharedStep == TypeOK /\ Carried /\ Flown /\ [Next]_vars => SharedTyped'
<1> SUFFICES ASSUME TypeOK, Carried, Flown, [Next]_vars PROVE SharedTyped'
  OBVIOUS
<1> USE Facts DEF TypeOK, SharedTyped, Flights, Frames
<1>1. ASSUME NEW inventory \in Inventories \cup {paths}, Adopt(inventory) PROVE SharedTyped'
  <2>1. attempts' \in Nat /\ frames' \in Frames \cup {None}
    BY <1>1 DEF Adopt
  <2>2. CASE flight' \in {flight, None}
    BY <2>1, <2>2
  <2>3. CASE flight # None /\ flight' = [NewAttempt(flight) EXCEPT !.pub = 0]
    BY <2>1, <2>3, NewAttemptType
  <2>4. QED
    BY <1>1, <2>2, <2>3 DEF Adopt
<1>2. CASE frames' = None /\ flight' \in {flight, None} /\ attempts' \in {attempts, 0}
  BY <1>2
<1>3. CASE Publish
  <2>1. CASE ledger.ticket = 0
    BY <1>3, <2>1 DEF Publish
  <2>2. CASE ledger.ticket # 0
    <3>1. ledger \in Ledgers /\ paths.version \in Nat
      BY <1>3 DEF Publish, DiskTyped, PolledTyped, Inventories, Carried
    <3>2. PICK base \in Flights :
            \/ flight' = base /\ frames' = None
            \/ /\ flight' = [base EXCEPT !.retry = "no"]
               /\ frames' = [epoch |-> ledger.epoch, ticket |-> ledger.ticket, attempt |-> base.attempt,
                             images |-> ledger.images, version |-> paths.version, reset |-> Resets]
      BY <1>3, <2>2, PublishStep
    <3>3. flight' \in Flights
      BY <3>2
    <3>4. Resets \in BOOLEAN
      BY DEF Resets
    <3>5. frames' \in Frames \cup {None}
      BY <3>1, <3>2, <3>4 DEF Ledgers
    <3>6. attempts' \in Nat
      BY <1>3, <2>2 DEF Publish
    <3>7. QED
      BY <3>3, <3>5, <3>6
  <2>3. QED
    BY <2>1, <2>2
<1>4. ASSUME NEW f, Fail(f) PROVE SharedTyped'
  <2>1. CASE ~Matches(f)
    BY <1>4, <2>1 DEF Fail, shared
  <2>2. CASE Matches(f)
    <3>1. flight # None /\ frames' = None /\ attempts' = attempts + 1 /\ flight' = FailedFlight(flight)
      BY <1>4, <2>2 DEF Fail, Carried, Matches
    <3>2. NewAttempt(flight) \in Flights
      BY <3>1, NewAttemptType
    <3>3. [NewAttempt(flight) EXCEPT !.retry = "wait"] \in Flights
      BY <3>2
    <3>4. flight' \in Flights
      BY <3>1, <3>3, Zenon DEF FailedFlight
    <3>5. QED
      BY <3>1, <3>4
  <2>3. QED
    BY <2>1, <2>2
<1>5. ASSUME NEW s \in Slots, Ack(s) PROVE SharedTyped'
  BY <1>5, AcknowledgeStep DEF Ack, shared, Slots
<1>6. CASE FlightRetryEnds
  BY <1>6 DEF FlightRetryEnds
<1>7. QED
  BY <1>1, <1>2, <1>3, <1>4, <1>5, <1>6, SharedMoves DEF Dropped

\* The batches of generation.
LEMMA DeliveryStep == TypeOK /\ Carried /\ [Next]_vars => DeliveryTyped'
<1> SUFFICES ASSUME TypeOK, Carried, [Next]_vars PROVE DeliveryTyped'
  OBVIOUS
<1> USE Facts DEF TypeOK, DeliveryTyped, SharedTyped, Batches, Frames, Batch, SlotsOf
<1>1. CASE UNCHANGED delivery
  BY <1>1 DEF delivery
<1>2. CASE Enqueue
  BY <1>2 DEF Enqueue
<1>3. CASE Take
  BY <1>3 DEF Take
<1>4. CASE Check
  BY <1>4 DEF Check
<1>5. CASE Stale
  BY <1>5 DEF Stale, Drop
<1>6. CASE ResendQueued
  BY <1>6 DEF ResendQueued
<1>7. ASSUME NEW s \in Slots, UpdateFails(s) PROVE DeliveryTyped'
  BY <1>7 DEF UpdateFails, Drop
<1>8. ASSUME NEW s \in Slots, Update(s) PROVE DeliveryTyped'
  BY <1>8 DEF Update
<1>9. ASSUME NEW s \in Slots, Ack(s) PROVE DeliveryTyped'
  <2> DEFINE f == running.frame
             base == IF f.reset /\ s = 1 THEN NeverSent ELSE sent
  <2>1. running \in Batches /\ f.attempt \in Nat
    BY <1>9 DEF Ack, First
  <2>2. base \in [Slots -> Nat]
    BY DEF NeverSent
  <2>3. sent' = [base EXCEPT ![s] = f.attempt] /\ UNCHANGED <<queued, resend>>
    BY <1>9 DEF Ack
  <2>4. sent' \in [Slots -> Nat]
    <3> HIDE DEF base, f
    <3> QED BY <2>1, <2>2, <2>3
  <2>5. (running' = None /\ worker' = "idle")
        \/ (running' = [running EXCEPT !.todo = running.todo \ {s}] /\ worker' = "slot")
    BY <1>9 DEF Ack, Drop
  <2>6. [running EXCEPT !.todo = running.todo \ {s}] \in Batches
    BY <2>1
  <2>7. QED
    BY <2>3, <2>4, <2>5, <2>6
<1>10. CASE Redistribute
  BY <1>10 DEF Redistribute, NeverSent
<1>11. CASE ResendBegins
  BY <1>11 DEF ResendBegins
<1>12. CASE Crash
  BY <1>12 DEF Crash, NeverSent
<1>13. QED
  BY <1>1, <1>2, <1>3, <1>4, <1>5, <1>6, <1>7, <1>8, <1>9, <1>10, <1>11, <1>12, DeliveryMoves

\* The parts together.
LEMMA TypeStep == TypeOK /\ Carried /\ Flown /\ [Next]_vars => TypeOK'
BY DiskStep, PolledStep, SharedStep, DeliveryStep, ControlStep DEF TypeOK

\* A receipt of failure withdraws the frames it matches and otherwise does
\* nothing.
LEMMA FailStep ==
    ASSUME TypeOK, Carried, Flown, NEW f, Fail(f) \/ UNCHANGED <<flight, frames>>
    PROVE  /\ frames' # None => frames' = frames /\ flight' = flight
           /\ flight' # None => flight # None
           /\ flight # None =>
                /\ flight' # None
                /\ flight'.ticket = flight.ticket /\ flight'.epoch = flight.epoch /\ flight'.images = flight.images
           /\ suspended => UNCHANGED <<flight, frames>>
<1>1. CASE ~Matches(f) \/ UNCHANGED <<flight, frames>>
  BY <1>1 DEF Fail, shared
<1>2. CASE Matches(f) /\ Fail(f)
  <2>1. ~suspended /\ frames' = None /\ flight # None /\ flight' = FailedFlight(flight)
    BY <1>2 DEF Fail, Matches, Carried
  <2>2. flight \in Flights /\ NewAttempt(flight) \in Flights
    BY <2>1, NewAttemptType DEF TypeOK, SharedTyped
  <2>3. /\ flight'.ticket = NewAttempt(flight).ticket /\ flight'.epoch = NewAttempt(flight).epoch
        /\ flight'.images = NewAttempt(flight).images /\ flight' \in Flights
    BY <2>1, <2>2 DEF FailedFlight, Flights
  <2>4. QED
    BY <2>1, <2>2, <2>3, NewAttemptType, Facts DEF TypeOK, SharedTyped
<1>3. QED
  BY <1>1, <1>2

\* Refresh keeps what it found, and batches their slots.
LEMMA CarriedStep == TypeOK /\ Carried /\ Flown /\ [Next]_vars => Carried'
<1> SUFFICES ASSUME TypeOK, Carried, Flown, [Next]_vars PROVE Carried'
  OBVIOUS
<1> USE Facts DEF TypeOK, Carried, disk, polled, shared, opVars, delivery, Invalidate, SlotsOf
<1>1. ASSUME NEW inventory \in Inventories \cup {paths},
             RefreshWaits(inventory) \/ RefreshUnread(inventory) \/ RefreshBegins(inventory)
      PROVE  Carried'
  BY <1>1 DEF RefreshWaits, RefreshUnread, RefreshBegins, Adopt, DiskTyped
<1>2. CASE RefreshWithoutConfiguration \/ Commit \/ NotScanned \/ Rebuild \/ NothingToPlan \/ Plan
           \/ RetryWindow \/ NewWindow \/ Release \/ Withdraw
  BY <1>2 DEF RefreshWithoutConfiguration, Commit, NotScanned, Rebuild, NothingToPlan, Plan, RetryWindow,
              NewWindow, Release, Withdraw
<1>3. CASE CommitFails \/ RebuildFails \/ PrepareFails
  BY <1>3 DEF CommitFails, RebuildFails, PrepareFails, SaveFails
<1>4. CASE Publish
  <2>1. UNCHANGED <<cfg, paths, queued, running, resend>> /\ op' = "idle"
    BY <1>4 DEF Publish
  <2>2. frames' # None => flight' # None
    <3>1. CASE ledger.ticket = 0
      BY <1>4, <3>1 DEF Publish
    <3>2. CASE ledger.ticket # 0
      <4>1. PICK base \in Flights :
              \/ flight' = base /\ frames' = None
              \/ flight' = [base EXCEPT !.retry = "no"]
        BY <1>4, <3>2, PublishStep
      <4>2. QED
        BY <4>1 DEF Flights
    <3>3. QED
      BY <3>1, <3>2
  <2>3. QED
    BY <2>1, <2>2
<1>5. CASE Enqueue \/ Stale \/ ResendQueued \/ \E s \in Slots : UpdateFails(s)
  <2>1. frames' # None => flight' # None
    BY <1>5, FailStep DEF Enqueue, Stale, ResendQueued, UpdateFails, Dropped
  <2>2. UNCHANGED <<cfg, paths, op>>
    BY <1>5 DEF Enqueue, Stale, ResendQueued, UpdateFails
  <2>3. op = "commit" => flight' # None
    BY <1>5, FailStep DEF Enqueue, Stale, ResendQueued, UpdateFails, Dropped
  <2>4. /\ queued' # None => queued'.todo \subseteq SlotsOf(queued'.frame.images)
        /\ running' # None => running'.todo \subseteq SlotsOf(running'.frame.images)
        /\ resend' # None => resend'.todo \subseteq SlotsOf(resend'.frame.images)
    BY <1>5 DEF Enqueue, Stale, ResendQueued, UpdateFails, Batch, Drop
  <2>5. QED
    BY <2>1, <2>2, <2>3, <2>4
<1>6. CASE Take \/ Check \/ ResendBegins \/ \E s \in Slots : Update(s)
  BY <1>6 DEF Take, Check, ResendBegins, Update, Batch
<1>7. ASSUME NEW s \in Slots, Ack(s) PROVE Carried'
  <2>1. flight # None => flight' # None
    BY <1>7, AcknowledgeStep DEF Ack, Slots
  <2>2. frames' \in {frames, None} /\ UNCHANGED <<cfg, paths, op, queued, resend>>
    BY <1>7, Zenon DEF Ack, Acknowledge, Dropped
  <2>3. running' \in {None, [running EXCEPT !.todo = running.todo \ {s}]} /\ running # None
    BY <1>7 DEF Ack, Drop, DeliveryTyped
  <2>4. [running EXCEPT !.todo = running.todo \ {s}].todo \subseteq SlotsOf(running.frame.images)
        /\ [running EXCEPT !.todo = running.todo \ {s}].frame = running.frame
    BY <2>3 DEF DeliveryTyped, Batches
  <2>5. QED
    BY <2>1, <2>2, <2>3, <2>4
<1>8. CASE FlightRetryEnds
  BY <1>8 DEF FlightRetryEnds, SharedTyped, Flights
<1>9. CASE Settings \/ RefreshDue \/ OtherTileDue \/ BackoffEnds \/ AskRefresh \/ Crash
           \/ \E size \in Sizes : Edit(size)
  BY <1>9 DEF Settings, SuspendBegins, SuspendEnds, Redistribute, Resume, RefreshDue, OtherTileDue,
              BackoffEnds, AskRefresh, Crash, Edit
<1>10. CASE UNCHANGED vars
  BY <1>10 DEF vars
<1>11. QED
  BY <1>1, <1>2, <1>3, <1>4, <1>5, <1>6, <1>7, <1>8, <1>9, <1>10
     DEF Next, Poll, Generation, Clock, Environment

------------------------------------------------------------------------------
(* The frames, the flight and the durable window. *)

\* The publication follows the ledger step by step: a window is saved before
\* its flight exists, and released before its flight goes.
LEMMA FlownStep == TypeOK /\ Carried /\ Flown /\ [Next]_vars => Flown'
<1> SUFFICES ASSUME TypeOK, Carried, Flown, [Next]_vars PROVE Flown'
  OBVIOUS
<1> USE Facts DEF TypeOK, Carried, Flown, disk, polled, shared, opVars, delivery, Invalidate
<1>1. ASSUME NEW inventory \in Inventories \cup {paths},
             RefreshWaits(inventory) \/ RefreshUnread(inventory) \/ RefreshBegins(inventory)
      PROVE  Flown'
  <2>1. UNCHANGED <<ledger, settings, suspended>> /\ op = "idle" /\ ~suspended /\ Adopt(inventory)
    BY <1>1 DEF RefreshWaits, RefreshUnread, RefreshBegins
  <2>2. CASE UNCHANGED <<flight, frames>> \/ (flight' = None /\ frames' = None)
    BY <2>1, <2>2
  <2>3. CASE frames' = None /\ flight # None /\ flight' = [NewAttempt(flight) EXCEPT !.pub = 0]
    <3>1. NewAttempt(flight) \in Flights
      BY <2>3, NewAttemptType DEF SharedTyped
    <3>2. /\ flight'.ticket = NewAttempt(flight).ticket /\ flight'.epoch = NewAttempt(flight).epoch
          /\ flight'.images = NewAttempt(flight).images
      BY <2>3, <3>1 DEF Flights
    <3>3. QED
      BY <2>1, <2>3, <3>2, NewAttemptType DEF SharedTyped
  <2>4. QED
    BY <2>1, <2>2, <2>3 DEF Adopt
<1>2. CASE RefreshWithoutConfiguration \/ Commit \/ NotScanned \/ NothingToPlan \/ Plan
           \/ RetryWindow \/ Release \/ Withdraw
  BY <1>2 DEF RefreshWithoutConfiguration, Commit, NotScanned, NothingToPlan, Plan, RetryWindow,
              Release, Withdraw
<1>3. CASE Rebuild \/ NewWindow
  BY <1>3 DEF Rebuild, NewWindow, DiskTyped, Ledgers
<1>4. CASE CommitFails \/ RebuildFails \/ PrepareFails
  BY <1>4 DEF CommitFails, RebuildFails, PrepareFails, SaveFails
<1>5. CASE Publish
  <2>1. UNCHANGED <<ledger, settings, suspended>> /\ op = "publish" /\ op' = "idle"
    BY <1>5 DEF Publish
  <2>2. CASE ledger.ticket = 0
    BY <1>5, <2>1, <2>2 DEF Publish
  <2>3. CASE ledger.ticket # 0
    <3>1. PICK base \in Flights :
              /\ base.ticket = ledger.ticket /\ base.epoch = ledger.epoch /\ base.images = ledger.images
              /\ \/ flight' = base /\ frames' = None
                 \/ /\ ~base.ready
                    /\ flight' = [base EXCEPT !.retry = "no"]
                    /\ frames' = [epoch |-> ledger.epoch, ticket |-> ledger.ticket, attempt |-> base.attempt,
                                  images |-> ledger.images, version |-> paths.version, reset |-> Resets]
      BY <1>5, <2>3, PublishStep
    <3>2. QED
      BY <2>1, <2>3, <3>1 DEF Flights
  <2>4. QED
    BY <2>2, <2>3
<1>6. CASE Enqueue \/ Stale \/ ResendQueued \/ \E s \in Slots : UpdateFails(s)
  BY <1>6, FailStep DEF Enqueue, Stale, ResendQueued, UpdateFails, Dropped
<1>7. CASE Take \/ Check \/ ResendBegins \/ \E s \in Slots : Update(s)
  BY <1>7 DEF Take, Check, ResendBegins, Update
<1>8. ASSUME NEW s \in Slots, Ack(s) PROVE Flown'
  <2>1. UNCHANGED <<ledger, settings, suspended, op>> /\ Acknowledge(running.frame, s) /\ s \in Nat
    BY <1>8 DEF Ack, Slots
  <2>2. QED
    BY <2>1, AcknowledgeStep
<1>9. CASE FlightRetryEnds
  BY <1>9 DEF FlightRetryEnds, SharedTyped, Flights
<1>10. CASE Settings \/ RefreshDue \/ OtherTileDue \/ BackoffEnds \/ AskRefresh \/ Crash
           \/ \E size \in Sizes : Edit(size)
  BY <1>10 DEF Settings, SuspendBegins, SuspendEnds, Redistribute, Resume, RefreshDue, OtherTileDue,
              BackoffEnds, AskRefresh, Crash, Edit
<1>11. CASE UNCHANGED vars
  BY <1>11 DEF vars
<1>12. QED
  BY <1>1, <1>2, <1>3, <1>4, <1>5, <1>6, <1>7, <1>8, <1>9, <1>10, <1>11
     DEF Next, Poll, Generation, Clock, Environment

\* The inductive invariant.
Inv == TypeOK /\ Carried /\ Flown

\* It holds at the start,
LEMMA InvInit == Init => Inv
<1> SUFFICES ASSUME Init PROVE Inv
  OBVIOUS
<1> USE DEF Init, Fresh
<1>1. DiskTyped
  <2>1. << >> \in Seq(Images) /\ << >> \in Seq({})
    OBVIOUS
  <2>2. ledger = [epoch |-> 0, cursor |-> 0, ticket |-> 0, next |-> 0,
                  images |-> << >>, nextTicket |-> 1, owned |-> {}]
    BY DEF EmptyLedger
  <2>3. PICK q \in Seq(Images) : q = << >>
    BY <2>1, Zenon
  <2>4. ledger = [epoch |-> 0, cursor |-> 0, ticket |-> 0, next |-> 0,
                  images |-> q, nextTicket |-> 1, owned |-> {}]
    BY <2>2, <2>3, Zenon
  <2>5. ledger \in Ledgers /\ ledger.ticket = 0 /\ ledger.images = q /\ ledger.nextTicket = 1
        /\ ledger.owned = {}
    BY <2>4 DEF Ledgers
  <2>6. ledger.images \in Seq(ledger.owned)
    BY <2>1, <2>3, <2>5, Zenon
  <2>7. win \in [Slots -> Contents \cup {None}]
    BY DEF EmptyQueue
  <2>8. QED
    BY <2>3, <2>5, <2>6, <2>7 DEF DiskTyped
<1>2. PolledTyped /\ SharedTyped
  BY DEF PolledTyped, SharedTyped
<1>3. DeliveryTyped
  BY DEF DeliveryTyped, NeverSent
<1>4. asked \in [refresh : BOOLEAN, reload : BOOLEAN]
  BY AskedType, Zenon
<1>5. FlagsTyped
  BY <1>4, Zenon DEF FlagsTyped
<1>6. ControlTyped
  BY Facts DEF ControlTyped
<1>7. Carried /\ Flown
  BY DEF Carried, Flown
<1>8. QED
  BY <1>1, <1>2, <1>3, <1>5, <1>6, <1>7 DEF Inv, TypeOK

\* and at every step.
LEMMA Invariance == Spec => []Inv
<1>1. Inv /\ [Next]_vars => Inv'
  BY TypeStep, CarriedStep, FlownStep DEF Inv
<1>2. QED
  BY InvInit, <1>1, PTL DEF Spec

\* Every variable keeps its type and the durable window names only images its
\* tile owns, with a ticket that will not be dealt again.
THEOREM TypeCorrect == Spec => []TypeOK
<1>1. Inv => TypeOK
  BY DEF Inv
<1>2. QED
  BY Invariance, <1>1, PTL

\* What generation may deliver is always the window a restart would find in
\* the ledger, in its flight's current attempt; Fail can count on the flight.
THEOREM DurableFrames == Spec => []FramesAreDurable
<1>1. Inv => FramesAreDurable
  BY DEF Inv, Flown, FramesAreDurable
<1>2. QED
  BY Invariance, <1>1, PTL
------------------------------------------------------------------------------
(* Ownership. *)

InOwned(images) == \A s \in SlotsOf(images) : images[s] \in ledger.owned

\* What may still be put into Windows' queue is the tile's own, and no epoch
\* ends under an update.
Owned ==
    /\ flight # None => InOwned(flight.images)
    /\ worker \in {"update", "ack"} => settings = "idle" /\ InOwned(running.frame.images)
    /\ OnlyOwnedShown

\* Nobody but a redistribution takes an image from the tile.
LEMMA OwnedGrows ==
    TypeOK /\ [Next]_vars => ledger.owned \subseteq ledger'.owned \/ Redistribute
<1> SUFFICES ASSUME TypeOK, [Next]_vars PROVE ledger.owned \subseteq ledger'.owned \/ Redistribute
  OBVIOUS
<1> USE DEF TypeOK, DiskTyped
<1>1. CASE UNCHANGED disk
  BY <1>1 DEF disk
<1>2. CASE Commit
  <2> DEFINE l == NoWindow(ledger)
  <2>1. l \in Ledgers /\ l.owned = ledger.owned
    BY NoWindowType
  <2>2. ledger' = [l EXCEPT !.cursor = ledger.next]
    BY <1>2 DEF Commit
  <2> HIDE DEF l
  <2>3. QED
    BY <2>1, <2>2 DEF Ledgers
<1>3. CASE Rebuild \/ NewWindow
  BY <1>3 DEF Rebuild, NewWindow, Ledgers
<1>4. CASE Release
  BY <1>4, NoWindowType DEF Release
<1>5. CASE \E size \in Sizes : Edit(size)
  BY <1>5 DEF Edit
<1>6. CASE \E s \in Slots : UpdateFails(s) \/ Update(s)
  BY <1>6 DEF UpdateFails, Update
<1>7. QED
  BY <1>1, <1>2, <1>3, <1>4, <1>5, <1>6, DiskMoves

\* A flight that is not of a durable window is one that just was.
LEMMA OwnedFlight ==
    Inv /\ Owned /\ [Next]_vars => (flight' # None => \A s \in SlotsOf(flight'.images) : flight'.images[s] \in ledger'.owned)
<1> SUFFICES ASSUME Inv, Owned, [Next]_vars, flight' # None
             PROVE  \A s \in SlotsOf(flight'.images) : flight'.images[s] \in ledger'.owned
  OBVIOUS
<1>1. Inv'
  BY TypeStep, CarriedStep, FlownStep DEF Inv
<1>2. CASE op' # "released"
  BY <1>1, <1>2 DEF Inv, Flown, TypeOK, DiskTyped, SlotsOf
<1>3. CASE op' = "released"
  <2>1. flight # None /\ flight'.images = flight.images
    <3> USE Facts DEF Inv, TypeOK, SharedTyped
    <3>1. CASE UNCHANGED <<flight, frames, attempts>>
      BY <3>1
    <3>2. CASE frames' = None /\ flight' \in {flight, None} /\ attempts' \in {attempts, 0}
      BY <3>2
    <3>3. CASE Publish
      BY <1>3, <3>3 DEF Publish
    <3>4. ASSUME NEW f, Fail(f) PROVE flight # None /\ flight'.images = flight.images
      BY <3>4, FailStep
    <3>5. ASSUME NEW s \in Slots, Ack(s) PROVE flight # None /\ flight'.images = flight.images
      BY <3>5, AcknowledgeStep DEF Ack, Slots, shared
    <3>6. CASE FlightRetryEnds
      BY <3>6 DEF FlightRetryEnds, Flights
    <3>7. QED
      BY <1>3, <3>1, <3>2, <3>3, <3>4, <3>5, <3>6, SharedMoves DEF Dropped
  <2>2. ledger.owned \subseteq ledger'.owned
    BY <1>3, OwnedGrows DEF Inv, Redistribute, Flown, opVars
  <2>3. QED
    BY <2>1, <2>2 DEF Owned, InOwned
<1>4. QED
  BY <1>2, <1>3

InFlight == worker \in {"update", "ack"}

\* An update begins with its check, and nobody takes its batch from the worker.
LEMMA InFlightStep ==
    ASSUME Inv, Owned, [Next]_vars, InFlight'
    PROVE  /\ settings' = "idle"
           /\ UNCHANGED running
           /\ InFlight \/ (Check /\ UNCHANGED <<flight, frames, ledger, op, confirmed>>)
           /\ ~Redistribute
BY DEF InFlight, Owned, Next, Poll, Generation, Settings, Clock, Environment, vars, delivery, RefreshWaits, RefreshUnread,
   RefreshWithoutConfiguration, RefreshBegins, Commit, CommitFails, RebuildFails, PrepareFails, SaveFails,
   NotScanned, Rebuild, NothingToPlan, Plan, RetryWindow, NewWindow, Release, Withdraw, Publish, Enqueue,
   Take, Check, Stale, ResendQueued, UpdateFails, Update, Ack, Drop, disk, polled, shared, opVars,
   SuspendBegins, SuspendEnds, Redistribute,
   Resume, RefreshDue, OtherTileDue, BackoffEnds, FlightRetryEnds, Edit, AskRefresh, ResendBegins, Crash

\* The update in progress: its batch passed its check in this epoch.
LEMMA OwnedUpdate ==
    Inv /\ Owned /\ [Next]_vars =>
        (worker' \in {"update", "ack"} =>
            settings' = "idle" /\ \A s \in SlotsOf(running'.frame.images) : running'.frame.images[s] \in ledger'.owned)
<1> SUFFICES ASSUME Inv, Owned, [Next]_vars, worker' \in {"update", "ack"}
             PROVE  /\ settings' = "idle"
                    /\ \A s \in SlotsOf(running'.frame.images) : running'.frame.images[s] \in ledger'.owned
  OBVIOUS
<1>1. /\ settings' = "idle"
      /\ UNCHANGED running
      /\ InFlight \/ (Check /\ UNCHANGED ledger)
      /\ ~Redistribute
  BY InFlightStep DEF InFlight
<1>2. CASE InFlight
  BY <1>1, <1>2, OwnedGrows DEF InFlight, Owned, InOwned, Inv
<1>3. CASE Check /\ UNCHANGED ledger
  <2>1. frames = running.frame /\ frames # None
    BY <1>3, Facts DEF Check, Valid, Inv, TypeOK, DeliveryTyped, Batches
  <2>2. running.frame.images = flight.images /\ flight # None
    BY <2>1 DEF Inv, Flown
  <2>3. QED
    BY <1>1, <1>3, <2>2 DEF Owned, InOwned, SlotsOf
<1>4. QED
  BY <1>1, <1>2, <1>3

\* Windows' queue.
LEMMA OwnedQueue == Inv /\ Owned /\ [Next]_vars => OnlyOwnedShown'
<1> SUFFICES ASSUME Inv, Owned, [Next]_vars PROVE OnlyOwnedShown'
  OBVIOUS
<1>1. CASE UNCHANGED win
  <2>1. CASE Redistribute
    BY <2>1 DEF Redistribute, EmptyQueue, OnlyOwnedShown
  <2>2. CASE ~Redistribute
    BY <1>1, <2>2, OwnedGrows DEF Inv, Owned, OnlyOwnedShown
  <2>3. QED
    BY <2>1, <2>2
<1>2. CASE Redistribute
  BY <1>2 DEF Redistribute, EmptyQueue, OnlyOwnedShown
<1>3. ASSUME NEW s \in Slots, UpdateFails(s) PROVE OnlyOwnedShown'
  BY <1>3 DEF UpdateFails, EmptyQueue, Owned, OnlyOwnedShown
<1>4. ASSUME NEW s \in Slots, Update(s) PROVE OnlyOwnedShown'
  <2> DEFINE f == running.frame
             base == IF f.reset /\ s = 1 THEN EmptyQueue ELSE win
  <2>1. UNCHANGED ledger /\ win' = [base EXCEPT ![s] = Content(f, s)]
    BY <1>4 DEF Update
  <2>2. base \in [Slots -> Contents \cup {None}]
    BY DEF EmptyQueue, Inv, TypeOK, DiskTyped
  <2>3. \A t \in Slots : base[t] # None => base[t].image \in ledger.owned
    BY DEF EmptyQueue, Owned, OnlyOwnedShown
  <2>4. running # None /\ s \in SlotsOf(f.images)
    BY <1>4 DEF Update, First, Inv, TypeOK, DeliveryTyped, Carried
  <2>5. f.images[s] \in ledger.owned
    BY <1>4, <2>4 DEF Update, Owned, InOwned
  <2>6. Content(f, s).image \in ledger.owned
    BY <2>5 DEF Content
  <2> HIDE DEF base, f
  <2>7. \A t \in Slots : win'[t] # None => win'[t].image \in ledger.owned
    BY <2>1, <2>2, <2>3, <2>6
  <2>8. QED
    BY <2>1, <2>7 DEF OnlyOwnedShown
<1>5. CASE Commit \/ Rebuild \/ NewWindow \/ Release \/ (\E size \in Sizes : Edit(size))
  <2>1. UNCHANGED win
    BY <1>5 DEF Commit, Rebuild, NewWindow, Release, Edit
  <2>2. QED
    BY <1>1, <2>1
<1>6. QED
  BY <1>1, <1>2, <1>3, <1>4, <1>5, DiskMoves DEF disk

\* No interleaving of refreshes, receipts, retries, suspensions, edits and
\* crashes puts an image into Windows' queue that the ledger's present epoch
\* has not given to the tile, or leaves one there when the epoch ends.
THEOREM OwnedShown == Spec => []OnlyOwnedShown
<1>1. Init => Owned
  BY DEF Init, Fresh, Owned, OnlyOwnedShown, EmptyQueue
<1>2. Inv /\ Owned /\ [Next]_vars => Owned'
  BY OwnedFlight, OwnedUpdate, OwnedQueue DEF Owned, InOwned
<1>3. Owned => OnlyOwnedShown
  BY DEF Owned
<1>4. QED
  BY Invariance, <1>1, <1>2, <1>3, PTL DEF Spec
------------------------------------------------------------------------------
(* Receipts: what a flight has on record is what Windows shows. *)

\* What a step makes of the flight: it goes on as it was,
GoesOn ==
    /\ flight # None /\ flight' # None /\ UNCHANGED attempts
    /\ flight'.attempt = flight.attempt /\ flight'.images = flight.images /\ flight'.pub = flight.pub
    /\ flight'.epoch = flight.epoch /\ flight'.ticket = flight.ticket
    /\ flight'.acked = flight.acked /\ flight'.ready = flight.ready
    /\ unreported => unreported'

\* it is new or starts over, under a number that was never used,
StartsOver ==
    /\ flight' # None /\ flight'.attempt = attempts + 1 /\ attempts' = attempts + 1
    /\ flight'.acked = {} /\ ~flight'.ready

\* or a receipt of slot s counts for it.
Counts(s) ==
    /\ Ack(s) /\ Matches(running.frame) /\ flight # None /\ flight' # None /\ UNCHANGED attempts
    /\ flight'.attempt = flight.attempt /\ flight'.images = flight.images /\ flight'.pub = flight.pub
    /\ flight'.epoch = flight.epoch /\ flight'.ticket = flight.ticket
    /\ flight'.acked = Acked(running.frame, s)
    /\ flight'.ready => flight'.acked = SlotsOf(flight'.images)
    /\ unreported /\ ~unreported' => frames.reset /\ s = 1

\* A receipt of failure starts its flight over; without one it goes on.
LEMMA FailedFlightStep ==
    ASSUME Inv, NEW f, Fail(f) \/ UNCHANGED <<flight, frames, attempts, unreported>>
    PROVE  flight' = None \/ GoesOn \/ StartsOver
<1> USE DEF Inv, TypeOK, SharedTyped
<1>1. CASE UNCHANGED <<flight, frames, attempts, unreported>>
  BY <1>1 DEF GoesOn
<1>2. CASE ~Matches(f) /\ Fail(f)
  BY <1>2 DEF Fail, shared, GoesOn
<1>3. CASE Matches(f) /\ Fail(f)
  <2>1. flight # None /\ flight' = FailedFlight(flight) /\ attempts' = attempts + 1
    BY <1>3 DEF Fail, Matches, Carried
  <2>2. /\ NewAttempt(flight) \in Flights /\ NewAttempt(flight).attempt = attempts + 1
        /\ NewAttempt(flight).acked = {} /\ ~NewAttempt(flight).ready
    BY <2>1, NewAttemptType
  <2>3. /\ flight' \in Flights /\ flight'.attempt = NewAttempt(flight).attempt
        /\ flight'.acked = NewAttempt(flight).acked /\ flight'.ready = NewAttempt(flight).ready
    BY <2>1, <2>2 DEF FailedFlight, Flights
  <2>4. QED
    BY <2>1, <2>2, <2>3, Facts DEF StartsOver
<1>4. QED
  BY <1>1, <1>2, <1>3

\* A receipt of success that matches counts.
LEMMA AckCounts ==
    ASSUME Inv, NEW s \in Slots, Ack(s), Matches(running.frame), flight # None
    PROVE  Counts(s)
<1> DEFINE f == running.frame
           done == Acked(f, s) = SlotsOf(flight.images)
<1> USE DEF Inv, TypeOK, SharedTyped
<1>1. /\ flight' = [flight EXCEPT !.acked = Acked(f, s), !.ready = flight.ready \/ done]
      /\ unreported' = (unreported /\ ~(frames.reset /\ s = 1))
      /\ UNCHANGED attempts
  BY Zenon DEF Ack, Acknowledge
<1>2. flight \in Flights /\ flight.ready \in BOOLEAN /\ flight.ready = FALSE
  BY Facts DEF Flights, Flown, Matches
<1>3. Acked(f, s) \in SUBSET Nat
  BY <1>2 DEF Acked, Flights, Slots
<1>4. PICK r \in BOOLEAN : r = (flight.ready \/ done)
  BY <1>2, Zenon
<1>5. flight' = [flight EXCEPT !.acked = Acked(f, s), !.ready = r]
  BY <1>1, <1>4, Zenon
<1> HIDE DEF done
<1>6. /\ flight' \in Flights /\ flight'.ready = r /\ flight'.acked = Acked(f, s)
      /\ flight'.ticket = flight.ticket /\ flight'.epoch = flight.epoch /\ flight'.pub = flight.pub
      /\ flight'.images = flight.images /\ flight'.attempt = flight.attempt
  BY <1>2, <1>3, <1>5 DEF Flights
<1>7. r => done
  BY <1>2, <1>4, Zenon
<1>8. flight'.ready => flight'.acked = SlotsOf(flight'.images)
  BY <1>6, <1>7, Zenon DEF done
<1>9. unreported /\ ~unreported' => frames.reset /\ s = 1
  BY <1>1, Zenon
<1>10. flight' # None
  BY <1>6, Facts
<1>11. QED
  BY <1>1, <1>6, <1>8, <1>9, <1>10, Zenon DEF Counts

\* A receipt of success counts or is dropped.
LEMMA AckStep ==
    ASSUME Inv, NEW s \in Slots, Ack(s)
    PROVE  flight' = None \/ GoesOn \/ Counts(s)
<1>1. CASE ~Matches(running.frame) \/ flight = None
  <2>1. Dropped(running.frame, s)
    BY <1>1 DEF Ack, Acknowledge
  <2>2. /\ UNCHANGED <<flight, attempts>>
        /\ unreported => unreported'
    BY <2>1, Zenon DEF Dropped
  <2>3. QED
    BY <2>2 DEF GoesOn
<1>2. CASE Matches(running.frame) /\ flight # None
  BY <1>2, AckCounts
<1>3. QED
  BY <1>1, <1>2

\* Whatever the step: there are no more ways than these.
LEMMA FlightStep ==
    Inv /\ [Next]_vars => \/ flight' = None \/ GoesOn \/ StartsOver
                          \/ \E s \in Slots : Counts(s)
<1> SUFFICES ASSUME Inv, [Next]_vars
             PROVE  flight' = None \/ GoesOn \/ StartsOver \/ \E s \in Slots : Counts(s)
  OBVIOUS
<1>1. ASSUME NEW inventory \in Inventories \cup {paths}, Adopt(inventory)
      PROVE  flight' = None \/ GoesOn \/ StartsOver
  <2> DEFINE changed == cfg # 0 /\ cfg # ini
  <2>1. CASE asked.reload
    BY <1>1, <2>1 DEF Adopt
  <2>2. CASE ~asked.reload /\ changed /\ flight # None
    <3>1. /\ attempts' = attempts + 1
          /\ flight' = [NewAttempt(flight) EXCEPT !.pub = 0]
      BY <1>1, <2>2 DEF Adopt
    <3>2. /\ NewAttempt(flight) \in Flights /\ NewAttempt(flight).attempt = attempts + 1
          /\ NewAttempt(flight).acked = {} /\ ~NewAttempt(flight).ready
      BY <2>2, NewAttemptType DEF Inv, TypeOK, SharedTyped
    <3>3. /\ flight' \in Flights /\ flight'.attempt = NewAttempt(flight).attempt
          /\ flight'.acked = NewAttempt(flight).acked /\ flight'.ready = NewAttempt(flight).ready
      BY <3>1, <3>2 DEF Flights
    <3>4. QED
      BY <3>1, <3>2, <3>3, Facts DEF StartsOver
  <2>3. CASE ~asked.reload /\ ~(changed /\ flight # None)
    <3>1. flight' = None \/ (~changed /\ UNCHANGED <<flight, attempts>>)
      BY <1>1, <2>3 DEF Adopt
    <3>2. unreported' = (unreported /\ ~asked.reload /\ ~changed)
      BY <1>1, Zenon DEF Adopt
    <3>3. ~changed /\ unreported => unreported'
      BY <2>3, <3>2, Zenon
    <3> HIDE DEF changed
    <3>4. QED
      BY <3>1, <3>3 DEF GoesOn
  <2>4. QED
    BY <2>1, <2>2, <2>3
<1>2. CASE Publish
  <2>1. CASE ledger.ticket = 0
    <3>1. UNCHANGED <<flight, attempts, unreported>>
      BY <1>2, <2>1, Zenon DEF Publish
    <3>2. QED
      BY <3>1 DEF GoesOn
  <2>2. CASE ledger.ticket # 0
    <3>1. PICK base \in Flights :
            /\ \/ base.attempt = attempts + 1 /\ base.acked = {} /\ ~base.ready /\ attempts' = attempts + 1
               \/ flight # None /\ base = flight /\ UNCHANGED <<attempts, unreported>>
            /\ \/ flight' = base
               \/ flight' = [base EXCEPT !.retry = "no"]
      BY <1>2, <2>2, PublishStep DEF Inv
    <3>2. /\ flight' \in Flights /\ flight'.attempt = base.attempt /\ flight'.acked = base.acked
          /\ flight'.ready = base.ready /\ flight'.images = base.images /\ flight'.pub = base.pub
          /\ flight'.epoch = base.epoch /\ flight'.ticket = base.ticket
      BY <3>1 DEF Flights
    <3>3. flight' # None
      BY <3>2, Facts
    <3>4. CASE base.attempt = attempts + 1 /\ base.acked = {} /\ ~base.ready /\ attempts' = attempts + 1
      BY <3>2, <3>3, <3>4 DEF StartsOver
    <3>5. CASE flight # None /\ base = flight /\ UNCHANGED <<attempts, unreported>>
      BY <3>2, <3>3, <3>5 DEF GoesOn
    <3>6. QED
      BY <3>1, <3>4, <3>5
  <2>3. QED
    BY <2>1, <2>2
<1>3. ASSUME NEW f, Fail(f) PROVE flight' = None \/ GoesOn \/ StartsOver
  BY <1>3, FailedFlightStep
<1>4. ASSUME NEW s \in Slots, Ack(s) PROVE flight' = None \/ GoesOn \/ Counts(s)
  BY <1>4, AckStep
<1>5. CASE FlightRetryEnds
  <2>1. flight # None /\ flight' = [flight EXCEPT !.retry = "due"] /\ UNCHANGED <<attempts, unreported>>
    BY <1>5, Zenon DEF FlightRetryEnds
  <2>2. flight \in Flights
    BY <2>1 DEF Inv, TypeOK, SharedTyped
  <2>3. flight' \in Flights
    BY <2>1, <2>2 DEF Flights
  <2>4. QED
    BY <2>1, <2>2, <2>3, Facts DEF GoesOn, Flights
<1>6. CASE (\E f, s : Dropped(f, s)) \/ UNCHANGED <<flight, attempts, unreported>>
  <2>1. UNCHANGED <<flight, attempts>>
    BY <1>6 DEF Dropped
  <2>2. unreported => unreported'
    BY <1>6, Zenon DEF Dropped
  <2>3. QED
    BY <2>1, <2>2 DEF GoesOn
<1>7. QED
  BY <1>1, <1>2, <1>3, <1>4, <1>5, <1>6, SharedMoves, Zenon

\* The frames that generation or the publication still holds.
Known == {b.frame : b \in {queued, running, resend} \ {None}} \cup ({frames} \ {None})

\* The frame a flight is published with: an attempt has one.
FrameOf(f) == [epoch |-> f.epoch, ticket |-> f.ticket, attempt |-> f.attempt, images |-> f.images,
               version |-> f.pub, reset |-> lastCount # Len(f.images)]

Numbered ==
    /\ flight # None => flight.attempt <= attempts
    /\ \A f \in Known : f.attempt <= attempts

Framed == flight # None => \A f \in Known : f.attempt = flight.attempt => f = FrameOf(flight)

\* Frames are numbered.
LEMMA KnownType == TypeOK => Known \subseteq Frames
BY DEF Known, TypeOK, SharedTyped, DeliveryTyped, Batches

\* Nothing makes a frame but the publication.
LEMMA KnownStep ==
    Inv /\ [Next]_vars => \/ Known' \subseteq Known
                          \/ Publish /\ Known' \subseteq Known \cup ({frames'} \ {None})
<1> SUFFICES ASSUME Inv, [Next]_vars, ~Publish PROVE Known' \subseteq Known
  BY DEF Publish, delivery, Known
<1> USE Facts
<1>1. frames' \in {frames, None}
  <2>1. ASSUME NEW inventory \in Inventories \cup {paths}, Adopt(inventory) PROVE frames' \in {frames, None}
    BY <2>1 DEF Adopt
  <2>2. ASSUME NEW f, Fail(f) PROVE frames' \in {frames, None}
    BY <2>2, FailStep DEF Inv
  <2>3. ASSUME NEW s \in Slots, Ack(s) PROVE frames' \in {frames, None}
    BY <2>3, AcknowledgeStep DEF Ack, Slots, Inv
  <2>4. CASE FlightRetryEnds
    BY <2>4 DEF FlightRetryEnds
  <2>5. QED
    BY <2>1, <2>2, <2>3, <2>4, SharedMoves DEF Dropped
<1>2. /\ queued' # None => queued'.frame \in Known
      /\ running' # None => running'.frame \in Known
      /\ resend' # None => resend'.frame \in Known
  <2> USE DEF Known
  <2>1. CASE UNCHANGED delivery
    BY <2>1 DEF delivery
  <2>2. CASE Enqueue \/ ResendBegins
    BY <2>2 DEF Enqueue, ResendBegins, Batch
  <2>3. CASE Take \/ Check \/ Stale \/ ResendQueued
    BY <2>3 DEF Take, Check, Stale, ResendQueued, Drop
  <2>4. ASSUME NEW s \in Slots, UpdateFails(s) \/ Update(s)
        PROVE  /\ queued' # None => queued'.frame \in Known
               /\ running' # None => running'.frame \in Known
               /\ resend' # None => resend'.frame \in Known
    BY <2>4 DEF UpdateFails, Update, Drop
  <2>5. ASSUME NEW s \in Slots, Ack(s)
        PROVE  /\ queued' # None => queued'.frame \in Known
               /\ running' # None => running'.frame \in Known
               /\ resend' # None => resend'.frame \in Known
    <3>1. running' \in {None, [running EXCEPT !.todo = running.todo \ {s}]} /\ running # None
          /\ UNCHANGED <<queued, resend>>
      BY <2>5 DEF Ack, Drop, Inv, TypeOK, DeliveryTyped
    <3>2. [running EXCEPT !.todo = running.todo \ {s}].frame = running.frame
      BY <3>1 DEF Inv, TypeOK, DeliveryTyped, Batches
    <3>3. QED
      BY <3>1, <3>2
  <2>6. CASE Redistribute \/ Crash
    BY <2>6 DEF Redistribute, Crash
  <2>7. QED
    BY <2>1, <2>2, <2>3, <2>4, <2>5, <2>6, DeliveryMoves, Zenon
<1>3. QED
  BY <1>1, <1>2 DEF Known

\* Numbers of attempts only grow, in one process.
LEMMA AttemptsStep == Inv /\ [Next]_vars => attempts' \in {attempts, attempts + 1} \/ Crash
BY DEF Next, Poll, Generation, Settings, Clock, Environment, vars, shared, Invalidate, Adopt, Publish,
    Fail, Ack, Acknowledge, Dropped, FlightRetryEnds, Enqueue, Stale, ResendQueued, UpdateFails,
    RefreshWaits, RefreshUnread, RefreshWithoutConfiguration, RefreshBegins, Commit, CommitFails,
    RebuildFails, PrepareFails, SaveFails,
    NotScanned, Rebuild, NothingToPlan, Plan, RetryWindow, NewWindow, Release, Withdraw,
    Take, Check, Update, SuspendBegins, SuspendEnds, Redistribute,
    Resume, RefreshDue, OtherTileDue, BackoffEnds, Edit, AskRefresh, ResendBegins

\* The publication's frame is the one of its flight.
LEMMA PublishedFrame ==
    ASSUME Inv, Publish, frames' # None
    PROVE  flight' # None /\ frames' = FrameOf(flight)'
<1>1. ledger.ticket # 0 /\ op = "publish" /\ UNCHANGED lastCount
  BY Zenon DEF Publish, polled
<1>2. PICK base \in Flights :
        /\ base.ticket = ledger.ticket /\ base.epoch = ledger.epoch /\ base.images = ledger.images
        /\ base.pub = paths.version
        /\ \/ flight' = base /\ frames' = None
           \/ /\ ~base.ready
              /\ flight' = [base EXCEPT !.retry = "no"]
              /\ frames' = [epoch |-> ledger.epoch, ticket |-> ledger.ticket, attempt |-> base.attempt,
                            images |-> ledger.images, version |-> paths.version, reset |-> Resets]
  BY <1>1, PublishStep DEF Inv
<1>3. /\ flight' = [base EXCEPT !.retry = "no"]
      /\ frames' = [epoch |-> ledger.epoch, ticket |-> ledger.ticket, attempt |-> base.attempt,
                    images |-> ledger.images, version |-> paths.version, reset |-> Resets]
  BY <1>2
<1>4. /\ flight' \in Flights /\ flight'.ticket = ledger.ticket /\ flight'.epoch = ledger.epoch
      /\ flight'.images = ledger.images /\ flight'.pub = paths.version /\ flight'.attempt = base.attempt
  BY <1>2, <1>3 DEF Flights
<1>5. Resets = (lastCount' # Len(flight'.images))
  BY <1>1, <1>4 DEF Resets
<1>6. QED
  BY <1>3, <1>4, <1>5, Facts, Zenon DEF FrameOf

\* Attempts are numbered upwards, and no frame is of an attempt to come.
LEMMA NumberedStep == Inv /\ Numbered /\ [Next]_vars => Numbered'
<1> SUFFICES ASSUME Inv, Numbered, [Next]_vars PROVE Numbered'
  OBVIOUS
<1> USE Facts DEF Numbered
<1>1. attempts \in Nat
  BY DEF Inv, TypeOK, SharedTyped
<1>2. CASE Crash
  BY <1>2 DEF Crash, Known
<1>3. CASE ~Crash
  <2>1. attempts' >= attempts /\ attempts' \in Nat
    BY <1>1, <1>3, AttemptsStep
  <2>2. flight \in Flights \cup {None} /\ \A f \in Known : f.attempt \in Nat
    BY KnownType DEF Inv, TypeOK, SharedTyped, Frames
  <2>3. flight' # None => flight'.attempt <= attempts'
    BY <1>1, <2>1, <2>2, FlightStep DEF GoesOn, StartsOver, Counts, Flights
  <2>4. ASSUME NEW f \in Known' PROVE f.attempt <= attempts'
    <3>1. CASE f \in Known
      BY <1>1, <2>1, <2>2, <3>1
    <3>2. CASE f = frames' /\ f # None /\ Publish
      <4>1. flight' # None /\ f.attempt = flight'.attempt
        BY <3>2, PublishedFrame DEF FrameOf
      <4>2. QED
        BY <2>3, <4>1
    <3>3. QED
      BY <2>4, <3>1, <3>2, KnownStep
  <2>5. QED
    BY <2>3, <2>4
<1>4. QED
  BY <1>2, <1>3

\* A batch or frame with the flight's attempt is the flight's own frame, down
\* to the configuration and to whether it resets the queue.
LEMMA FramedStep == Inv /\ Numbered /\ Framed /\ [Next]_vars => Framed'
<1> SUFFICES ASSUME Inv, Numbered, Framed, [Next]_vars, flight' # None,
                    NEW f \in Known', f.attempt = flight'.attempt
             PROVE  f = FrameOf(flight)'
  BY DEF Framed
<1>1. attempts \in Nat /\ \A k \in Known : k.attempt \in Nat
  BY KnownType DEF Inv, TypeOK, SharedTyped, Frames
<1>2. lastCount' = lastCount
  <2>1. ~Crash /\ ~Commit /\ ~RefreshWithoutConfiguration
    BY DEF Crash, Commit, RefreshWithoutConfiguration, Invalidate
  <2>2. QED
    BY <2>1, PolledMoves
<1>3. CASE f \in Known
  <2>1. ~StartsOver
    BY <1>1, <1>3 DEF StartsOver, Numbered
  <2>2. /\ flight # None
        /\ flight'.attempt = flight.attempt /\ flight'.images = flight.images /\ flight'.pub = flight.pub
        /\ flight'.epoch = flight.epoch /\ flight'.ticket = flight.ticket
    BY <2>1, FlightStep DEF GoesOn, Counts
  <2>3. f = FrameOf(flight)
    BY <1>3, <2>2 DEF Framed
  <2>4. FrameOf(flight)' = FrameOf(flight)
    BY <1>2, <2>2, Zenon DEF FrameOf
  <2>5. QED
    BY <2>3, <2>4
<1>4. CASE f = frames' /\ f # None /\ Publish
  BY <1>4, PublishedFrame
<1>5. QED
  BY <1>3, <1>4, KnownStep

\* What a flight has on record: its slots exist, it is complete when all are in,
\* and as long as an update is under way that passed its check for an earlier
\* attempt, none is.
Reported ==
    /\ flight # None =>
          /\ flight.acked \subseteq Slots
          /\ flight.ready => flight.acked = SlotsOf(flight.images)
    /\ op = "commit" => flight # None /\ flight.ready
    /\ InFlight /\ flight # None =>
          /\ ~flight.ready
          /\ running.frame.attempt # flight.attempt => flight.acked = {}

\* A complete flight stays so until it is committed.
LEMMA CommitStep ==
    ASSUME Inv, Reported, [Next]_vars, op' = "commit"
    PROVE  flight' # None /\ flight'.ready
<1>1. (\E inventory \in Inventories \cup {paths} : RefreshBegins(inventory)) \/ op = "commit"
  BY DEF Next, Poll, Generation, Settings, Clock, Environment, vars, opVars, RefreshWaits, RefreshUnread,
     RefreshWithoutConfiguration, Commit, CommitFails, RebuildFails, PrepareFails, SaveFails,
     NotScanned, Rebuild, NothingToPlan, Plan, RetryWindow, NewWindow, Release, Withdraw, Publish, Enqueue,
     Take, Check, Stale, ResendQueued, UpdateFails, Update, Ack, SuspendBegins, SuspendEnds, Redistribute,
     Resume, RefreshDue, OtherTileDue, BackoffEnds, FlightRetryEnds, Edit, AskRefresh, ResendBegins, Crash
<1>2. CASE \E inventory \in Inventories \cup {paths} : RefreshBegins(inventory)
  BY <1>2 DEF RefreshBegins
<1>3. ASSUME op = "commit", UNCHANGED flight PROVE flight' # None /\ flight'.ready
  BY <1>3 DEF Reported
<1>4. op = "commit" => \A f : ~Matches(f)
  BY DEF Reported, Inv, Flown, Matches
<1>5. ASSUME op = "commit", NEW f, Fail(f) PROVE flight' # None /\ flight'.ready
  BY <1>3, <1>4, <1>5 DEF Fail, shared
<1>6. ASSUME op = "commit", NEW s \in Slots, Ack(s) PROVE flight' # None /\ flight'.ready
  BY <1>3, <1>4, <1>6 DEF Ack, Acknowledge, Dropped
<1>7. ASSUME op = "commit", FlightRetryEnds PROVE flight' # None /\ flight'.ready
  <2>1. flight # None /\ flight \in Flights /\ flight.ready
    BY <1>7 DEF Reported, Inv, TypeOK, SharedTyped
  <2>2. flight' \in Flights /\ flight'.ready = flight.ready
    BY <1>7, <2>1 DEF FlightRetryEnds, Flights
  <2>3. QED
    BY <2>1, <2>2, Facts
<1>8. CASE op = "commit"
  BY <1>3, <1>5, <1>6, <1>7, <1>8, SharedMoves DEF Dropped, Publish
<1>9. QED
  BY <1>1, <1>2, <1>8

\* The record of a flight, step by step.
LEMMA ReportedStep ==
    Inv /\ Owned /\ Numbered /\ Reported /\ [Next]_vars => Reported'
<1> SUFFICES ASSUME Inv, Owned, Numbered, Reported, [Next]_vars PROVE Reported'
  OBVIOUS
<1>1. ASSUME flight' # None PROVE flight'.acked \subseteq Slots
  <2>1. ASSUME NEW s \in Slots, Counts(s) PROVE flight'.acked \subseteq Slots
    BY <2>1 DEF Counts, Acked, Reported
  <2>2. QED
    BY <1>1, <2>1, FlightStep DEF GoesOn, StartsOver, Reported
<1>2. ASSUME flight' # None, flight'.ready PROVE flight'.acked = SlotsOf(flight'.images)
  BY <1>2, FlightStep DEF GoesOn, StartsOver, Counts, Reported
<1>3. op' = "commit" => flight' # None /\ flight'.ready
  BY CommitStep
<1>4. ASSUME InFlight', flight' # None
      PROVE  ~flight'.ready /\ (running'.frame.attempt # flight'.attempt => flight'.acked = {})
  <2>1. UNCHANGED running /\ \A s \in Slots : ~Ack(s)
    BY <1>4, InFlightStep DEF InFlight, Ack, Drop
  <2>2. CASE InFlight
    BY <1>4, <2>1, <2>2, FlightStep DEF GoesOn, StartsOver, Counts, Reported
  <2>3. CASE Check /\ UNCHANGED <<flight, frames>>
    BY <1>4, <2>1, <2>3, Facts DEF Check, Valid, Inv, Flown, TypeOK, DeliveryTyped, Batches
  <2>4. QED
    BY <1>4, <2>2, <2>3, InFlightStep
<1>5. QED
  BY <1>1, <1>2, <1>3, <1>4 DEF Reported

\* A slot of the flight as Windows should show it.
Shows(s) == win[s] = [image |-> flight.images[s], version |-> flight.pub]

\* The update in flight has emptied the queue for the flight's own attempt.
Emptying == /\ worker = "ack" /\ running.frame.attempt = flight.attempt
            /\ running.frame.reset /\ First(1)

\* Every slot on record is shown, except while the report that the queue was
\* emptied is still to come or was lost; the slot just updated is shown.
Delivered ==
    flight # None =>
        /\ ~unreported /\ ~Emptying => \A s \in flight.acked : Shows(s)
        /\ worker = "ack" /\ running.frame.attempt = flight.attempt => \A s \in Slots : First(s) => Shows(s)

\* There is one slot that is next.
LEMMA FirstIsOne ==
    ASSUME Inv, running # None, NEW s \in Nat, NEW t \in Nat, First(s), First(t)
    PROVE  s = t
BY DEF First

\* The frame in flight, of the flight's attempt, is the flight's.
LEMMA RunningFrame ==
    ASSUME Inv, Framed, running # None, flight # None, running.frame.attempt = flight.attempt
    PROVE  /\ running.frame.images = flight.images /\ running.frame.version = flight.pub
           /\ running.frame = FrameOf(flight)
<1>1. running.frame \in Known
  BY DEF Known
<1>2. running.frame = FrameOf(flight)
  BY <1>1 DEF Framed
<1>3. QED
  BY <1>2 DEF FrameOf

\* The steps of an update.
LEMMA AckMoves ==
    ASSUME Inv, Owned, [Next]_vars, worker = "ack"
    PROVE  \/ UNCHANGED <<worker, running, win>>
           \/ Crash
           \/ \E s \in Slots : Ack(s) \/ UpdateFails(s)
<1>1. settings = "idle"
  BY DEF Owned
<1>2. QED
  BY <1>1 DEF Next, Poll, Generation, Settings, Clock, Environment, vars, delivery, RefreshWaits, RefreshUnread,
     RefreshWithoutConfiguration, RefreshBegins, Commit, CommitFails, RebuildFails, PrepareFails, SaveFails,
     NotScanned, Rebuild, NothingToPlan, Plan, RetryWindow, NewWindow, Release, Withdraw, Publish, Enqueue,
     Take, Check, Stale, ResendQueued, Update, disk, SuspendBegins, SuspendEnds, Redistribute,
     Resume, RefreshDue, OtherTileDue, BackoffEnds, FlightRetryEnds, Edit, AskRefresh, ResendBegins

\* From the update to the wait for its receipt there is one step.
LEMMA UpdateMoves ==
    ASSUME [Next]_vars, worker = "update", worker' = "ack"
    PROVE  \E s \in Slots : Update(s)
BY DEF Next, Poll, Generation, Settings, Clock, Environment, vars, delivery, RefreshWaits, RefreshUnread,
   RefreshWithoutConfiguration, RefreshBegins, Commit, CommitFails, RebuildFails, PrepareFails, SaveFails,
   NotScanned, Rebuild, NothingToPlan, Plan, RetryWindow, NewWindow, Release, Withdraw, Publish, Enqueue,
   Take, Check, Stale, ResendQueued, UpdateFails, Ack, Drop, SuspendBegins, SuspendEnds, Redistribute,
   Resume, RefreshDue, OtherTileDue, BackoffEnds, FlightRetryEnds, Edit, AskRefresh, ResendBegins, Crash

\* Windows' queue changes in a redistribution and in an update.
LEMMA WinMoves ==
    [Next]_vars => \/ UNCHANGED win \/ Redistribute
                   \/ \E s \in Slots : UpdateFails(s) \/ Update(s)
BY DiskMoves DEF disk, Commit, Rebuild, NewWindow, Release, Edit

\* A receipt that counts is of a slot that is shown.
LEMMA CountedIsShown ==
    ASSUME Inv, Framed, Delivered, NEW s \in Slots, Counts(s), ~unreported'
    PROVE  \A t \in flight'.acked : win'[t] = [image |-> flight'.images[t], version |-> flight'.pub]
<1>1. /\ worker = "ack" /\ First(s) /\ UNCHANGED win /\ flight # None /\ s \in Nat
      /\ frames # None /\ frames.attempt = running.frame.attempt
      /\ running # None
  BY DEF Counts, Ack, Matches, disk, Slots, Inv, TypeOK, DeliveryTyped
<1>2. frames.attempt = flight.attempt
  BY <1>1 DEF Inv, Flown
<1>3. Shows(s)
  BY <1>1, <1>2 DEF Delivered
<1>4. frames \in Known
  BY <1>1 DEF Known
<1>5. frames = running.frame
  BY <1>1, <1>2, <1>4, RunningFrame DEF Framed
<1>6. flight'.images = flight.images /\ flight'.pub = flight.pub /\ flight'.acked = Acked(running.frame, s)
  BY DEF Counts
<1>7. CASE s = 1 /\ frames.reset
  BY <1>1, <1>3, <1>6, <1>7 DEF Acked, Shows
<1>8. CASE ~(s = 1 /\ frames.reset)
  <2>1. ~unreported
    BY <1>8, Zenon DEF Counts
  <2>2. ~Emptying
    BY <1>1, <1>5, <1>8, FirstIsOne DEF Emptying
  <2>3. \A t \in flight.acked : Shows(t)
    BY <1>1, <2>1, <2>2 DEF Delivered
  <2>4. QED
    BY <1>1, <1>3, <1>6, <1>8, <2>3 DEF Acked, Shows
<1>9. QED
  BY <1>7, <1>8

\* An update of the flight's own frame shows one slot more, or begins anew.
LEMMA UpdateIsShown ==
    ASSUME Inv, Framed, NEW s \in Slots, Update(s), flight # None, running.frame.attempt = flight.attempt
    PROVE  /\ win'[s] = [image |-> flight.images[s], version |-> flight.pub]
           /\ ~(running.frame.reset /\ s = 1) => \A t \in Slots \ {s} : win'[t] = win[t]
<1> DEFINE f == running.frame
           base == IF f.reset /\ s = 1 THEN EmptyQueue ELSE win
<1>1. win' = [base EXCEPT ![s] = Content(f, s)] /\ running # None
  BY DEF Update, Inv, TypeOK, DeliveryTyped
<1>2. base \in [Slots -> Contents \cup {None}]
  BY DEF EmptyQueue, Inv, TypeOK, DiskTyped
<1>3. f.images = flight.images /\ f.version = flight.pub
  BY <1>1, RunningFrame
<1>4. ~(f.reset /\ s = 1) => base = win
  OBVIOUS
<1>5. Content(f, s) = [image |-> flight.images[s], version |-> flight.pub]
  BY <1>3 DEF Content
<1> HIDE DEF base, f
<1>6. win'[s] = [image |-> flight.images[s], version |-> flight.pub]
  BY <1>1, <1>2, <1>5
<1>7. ~(f.reset /\ s = 1) => \A t \in Slots \ {s} : win'[t] = win[t]
  BY <1>1, <1>2, <1>4
<1>8. QED
  BY <1>6, <1>7 DEF f

\* A failed update starts the flight over, or loses the report that it emptied
\* the queue.
LEMMA LostIsNoted ==
    ASSUME Inv, NEW s \in Slots, UpdateFails(s), GoesOn, ~unreported', Numbered,
           running.frame.attempt = flight.attempt
    PROVE  UNCHANGED win /\ ~(running.frame.reset /\ s = 1)
<1>1. ~Matches(running.frame)
  <2>1. ASSUME Fail(running.frame), Matches(running.frame) PROVE FALSE
    <3>1. attempts' = attempts + 1 /\ attempts \in Nat
      BY <2>1 DEF Fail, Inv, TypeOK, SharedTyped
    <3>2. QED
      BY <3>1 DEF GoesOn
  <2>2. QED
    BY <2>1 DEF UpdateFails
<1>2. Dropped(running.frame, s)
  BY <1>1 DEF UpdateFails
<1>3. ~(running.frame.reset /\ s = 1)
  BY <1>2, Zenon DEF Dropped, GoesOn
<1>4. QED
  BY <1>3 DEF UpdateFails

\* So does a receipt of success that is dropped.
LEMMA DroppedIsNoted ==
    ASSUME NEW s \in Slots, Ack(s), flight # None, ~Matches(running.frame), ~unreported',
           running.frame.attempt = flight.attempt
    PROVE  ~(running.frame.reset /\ s = 1)
<1>1. Dropped(running.frame, s)
  BY DEF Ack, Acknowledge
<1>2. QED
  BY <1>1, Zenon DEF Dropped

LEMMA DeliveredStep ==
    Inv /\ Owned /\ Numbered /\ Framed /\ Reported /\ Delivered /\ [Next]_vars => Delivered'
<1> SUFFICES ASSUME Inv, Owned, Numbered, Framed, Reported, Delivered, [Next]_vars, flight' # None
             PROVE  /\ ~unreported' /\ ~Emptying' =>
                          \A s \in flight'.acked :
                              win'[s] = [image |-> flight'.images[s], version |-> flight'.pub]
                    /\ worker' = "ack" /\ running'.frame.attempt = flight'.attempt =>
                          \A s \in Slots : First(s)' =>
                              win'[s] = [image |-> flight'.images[s], version |-> flight'.pub]
  BY DEF Delivered, Shows
<1>1. ASSUME ~unreported', ~Emptying', NEW s \in flight'.acked
      PROVE  win'[s] = [image |-> flight'.images[s], version |-> flight'.pub]
  <2>1. CASE \E t \in Slots : Counts(t)
    BY <1>1, <2>1, CountedIsShown
  <2>2. CASE GoesOn /\ \A t \in Slots : ~Counts(t)
    <3>1. ~unreported
      BY <1>1, <2>2 DEF GoesOn
    <3>2. s \in flight.acked /\ s \in Slots /\ flight.acked # {}
      BY <2>2 DEF GoesOn, Reported
    <3>3. flight # None /\ flight'.images = flight.images /\ flight'.pub = flight.pub
          /\ flight'.attempt = flight.attempt
      BY <2>2 DEF GoesOn
    <3>4. InFlight => running.frame.attempt = flight.attempt
      BY <3>2, <3>3 DEF Reported
    <3>5. CASE Emptying
      <4>1. worker = "ack" /\ running # None /\ First(1) /\ running.frame.reset
        BY <3>5 DEF Emptying, Inv, TypeOK, DeliveryTyped
      <4>2. CASE UNCHANGED <<worker, running, win>>
        BY <1>1, <3>3, <3>5, <4>2 DEF Emptying, First
      <4>3. CASE Crash
        BY <4>3 DEF Crash
      <4>4. ASSUME NEW t \in Slots, UpdateFails(t) PROVE FALSE
        <5>1. t = 1
          BY <4>1, <4>4, FirstIsOne DEF UpdateFails, Slots
        <5>2. QED
          BY <1>1, <2>2, <3>5, <4>1, <4>4, <5>1, LostIsNoted DEF Emptying
      <4>5. ASSUME NEW t \in Slots, Ack(t) PROVE FALSE
        <5>1. t = 1
          BY <4>1, <4>5, FirstIsOne DEF Ack, Slots
        <5>2. Matches(running.frame)
          BY <1>1, <3>3, <3>5, <4>1, <4>5, <5>1, DroppedIsNoted DEF Emptying
        <5>3. Counts(t)
          BY <2>2, <3>3, <4>5, <5>2, AckCounts
        <5>4. QED
          BY <2>2, <5>3
      <4>6. QED
        BY <4>1, <4>2, <4>3, <4>4, <4>5, AckMoves
    <3>6. CASE ~Emptying
      <4>1. Shows(s)
        BY <3>1, <3>2, <3>3, <3>6 DEF Delivered
      <4>2. CASE UNCHANGED win
        BY <3>3, <4>1, <4>2 DEF Shows
      <4>3. CASE Redistribute
        BY <4>3 DEF Redistribute, shared, Inv, Flown
      <4>4. ASSUME NEW t \in Slots, UpdateFails(t)
            PROVE  UNCHANGED win
        BY <1>1, <2>2, <3>4, <4>4, LostIsNoted DEF UpdateFails, InFlight
      <4>5. ASSUME NEW t \in Slots, Update(t)
            PROVE  win'[s] = [image |-> flight'.images[s], version |-> flight'.pub]
        <5>1. running.frame.attempt = flight.attempt
          BY <3>4, <4>5 DEF Update, InFlight
        <5>2. ~(running.frame.reset /\ t = 1)
          BY <1>1, <3>3, <4>5, <5>1 DEF Update, Emptying, First
        <5>3. QED
          BY <3>2, <3>3, <4>1, <4>5, <5>1, <5>2, UpdateIsShown DEF Shows
      <4>6. QED
        BY <4>2, <4>3, <4>4, <4>5, WinMoves
    <3>7. QED
      BY <3>5, <3>6
  <2>3. QED
    BY <1>1, <2>1, <2>2, FlightStep DEF StartsOver
<1>2. ASSUME worker' = "ack", running'.frame.attempt = flight'.attempt, NEW s \in Slots, First(s)'
      PROVE  win'[s] = [image |-> flight'.images[s], version |-> flight'.pub]
  <2>1. UNCHANGED running /\ (worker = "ack" \/ worker = "update") /\ running # None
    BY <1>2, InFlightStep DEF InFlight, Check, Inv, TypeOK, DeliveryTyped
  <2>2. First(s)
    BY <1>2, <2>1 DEF First
  <2>3. /\ flight # None /\ running.frame.attempt = flight.attempt
        /\ flight'.images = flight.images /\ flight'.pub = flight.pub
    <3>1. running.frame \in Known /\ running.frame.attempt \in Nat /\ attempts \in Nat
      BY <2>1, KnownType DEF Known, Inv, TypeOK, SharedTyped, Frames
    <3>2. ~StartsOver
      BY <1>2, <2>1, <3>1 DEF StartsOver, Numbered
    <3>3. QED
      BY <1>2, <2>1, <3>2, FlightStep DEF GoesOn, Counts
  <2>4. CASE worker = "ack"
    <3>1. UNCHANGED win
      <4>1. ~Crash /\ \A t \in Slots : ~Ack(t) /\ ~UpdateFails(t)
        BY <1>2 DEF Crash, Ack, UpdateFails, Drop
      <4>2. QED
        BY <2>4, <4>1, AckMoves
    <3>2. Shows(s)
      BY <2>2, <2>3, <2>4 DEF Delivered
    <3>3. QED
      BY <2>3, <3>1, <3>2 DEF Shows
  <2>5. CASE worker = "update"
    <3>1. PICK t \in Slots : Update(t)
      BY <1>2, <2>5, UpdateMoves
    <3>2. t = s
      BY <2>1, <2>2, <3>1, FirstIsOne DEF Update, Slots
    <3>3. QED
      BY <2>3, <3>1, <3>2, UpdateIsShown
  <2>6. QED
    BY <2>1, <2>4, <2>5
<1>3. QED
  BY <1>1, <1>2

\* The confirmed window, while it may be used to skip the tile, is a window with
\* no successor: no update is under way, and no settings thread is at the queue.
Confirmed ==
    /\ InFlight /\ confirmed # None => ledger.ticket # 0 \/ op = "released"
    /\ settings \in {"suspended", "resuming"} => confirmed = None
    /\ ConfirmedIsShown

\* The record of a complete flight is what Windows holds.
LEMMA CompleteHolds ==
    ASSUME Inv, Reported, Delivered, op = "commit", ~unreported
    PROVE  flight # None /\ ~InFlight /\ Holds(flight.images, flight.pub)
<1>1. flight # None /\ ~InFlight /\ flight.acked = SlotsOf(flight.images)
  BY DEF Reported
<1>2. \A s \in flight.acked : Shows(s)
  BY <1>1 DEF Delivered, Emptying, InFlight
<1>3. QED
  BY <1>1, <1>2 DEF Holds, Shows

\* A window is gone and not withdrawn: then it was so, unless it is committed.
LEMMA NoWindowBefore ==
    ASSUME Inv, Confirmed, [Next]_vars, ~Commit, confirmed' # None,
           ledger'.ticket = 0, op' # "released"
    PROVE  confirmed' = confirmed /\ ledger.ticket = 0 /\ op # "released"
<1>1. confirmed' = confirmed
  BY PolledMoves DEF Adopt, RefreshWithoutConfiguration, Invalidate, Crash
<1>2. ledger.ticket = 0
  <2>1. ledger \in Ledgers /\ ledger.ticket < ledger.nextTicket
    BY DEF Inv, TypeOK, DiskTyped
  <2>2. CASE UNCHANGED ledger
    BY <2>2
  <2>3. CASE Rebuild
    BY <2>1, <2>3 DEF Rebuild, Ledgers
  <2>4. CASE NewWindow
    BY <2>1, <2>4 DEF NewWindow, Ledgers
  <2>5. CASE Release
    BY <2>5 DEF Release
  <2>6. CASE Redistribute
    BY <1>1, <2>6 DEF Redistribute, Confirmed
  <2>7. QED
    BY <2>2, <2>3, <2>4, <2>5, <2>6, DiskMoves DEF disk, Edit, UpdateFails, Update
<1>3. op # "released"
  BY DEF Next, Poll, Generation, Settings, Clock, Environment, vars, opVars, Invalidate, RefreshWaits, RefreshUnread,
     RefreshWithoutConfiguration, RefreshBegins, Commit, CommitFails, RebuildFails, PrepareFails, SaveFails,
     NotScanned, Rebuild, NothingToPlan, Plan, RetryWindow, NewWindow, Release, Withdraw, Publish, Enqueue,
     Take, Check, Stale, ResendQueued, UpdateFails, Update, Ack, SuspendBegins, SuspendEnds, Redistribute,
     Resume, RefreshDue, OtherTileDue, BackoffEnds, FlightRetryEnds, Edit, AskRefresh, ResendBegins, Crash
<1>4. QED
  BY <1>1, <1>2, <1>3

\* A lost report is forgotten with the confirmed window, or with a frame, of
\* which there is none without a window.
LEMMA StillReported ==
    ASSUME Inv, [Next]_vars, frames = None, ledger.ticket = 0, confirmed' # None, ~unreported'
    PROVE  ~unreported
<1> SUFFICES ASSUME unreported PROVE FALSE
  OBVIOUS
<1>1. ASSUME NEW inventory \in Inventories \cup {paths}, Adopt(inventory) PROVE FALSE
  <2>1. unreported' = (unreported /\ ~asked.reload /\ ~(cfg # 0 /\ cfg # ini))
    BY <1>1, Zenon DEF Adopt
  <2>2. ~(asked.refresh \/ asked.reload \/ (cfg # 0 /\ cfg # ini))
    BY <1>1, Zenon DEF Adopt
  <2>3. QED
    BY <2>1, <2>2, Zenon
<1>2. ASSUME NEW f, Fail(f) PROVE FALSE
  <2>1. ~Matches(f)
    BY DEF Matches
  <2>2. QED
    BY <1>2, <2>1 DEF Fail, shared
<1>3. ASSUME NEW f, NEW s, Dropped(f, s) PROVE FALSE
  BY <1>3, Zenon DEF Dropped
<1>4. ASSUME NEW s \in Slots, Ack(s) PROVE FALSE
  <2>1. ~Matches(running.frame)
    BY DEF Matches
  <2>2. Dropped(running.frame, s)
    BY <1>4, <2>1 DEF Ack, Acknowledge
  <2>3. QED
    BY <1>3, <2>2
<1>5. ~Publish
  BY Zenon DEF Publish
<1>6. ~Invalidate /\ ~Crash
  BY DEF Invalidate, Crash
<1>7. unreported' # unreported
  OBVIOUS
<1>8. QED
  BY <1>1, <1>2, <1>3, <1>4, <1>5, <1>6, <1>7 DEF Next, Poll, Generation, Settings, Clock, Environment, vars, shared,
    RefreshWaits, RefreshUnread, RefreshWithoutConfiguration, RefreshBegins, Commit, CommitFails,
    RebuildFails, PrepareFails, SaveFails,
    NotScanned, Rebuild, NothingToPlan, Plan, RetryWindow, NewWindow, Release, Withdraw, Enqueue,
    Take, Check, Stale, ResendQueued, UpdateFails, Update, SuspendBegins, SuspendEnds, Redistribute,
    Resume, RefreshDue, OtherTileDue, BackoffEnds, FlightRetryEnds, Edit, AskRefresh, ResendBegins

LEMMA ConfirmedStep ==
    Inv /\ Owned /\ Reported /\ Delivered /\ Confirmed /\ [Next]_vars => Confirmed'
<1> SUFFICES ASSUME Inv, Owned, Reported, Delivered, Confirmed, [Next]_vars PROVE Confirmed'
  OBVIOUS
<1>1. ASSUME InFlight', confirmed' # None PROVE ledger'.ticket # 0 \/ op' = "released"
  <2>1. InFlight \/ (Check /\ UNCHANGED <<flight, frames, ledger, op, confirmed>>)
    BY <1>1, InFlightStep
  <2>2. CASE InFlight
    <3>1. ~Commit
      BY <2>2 DEF Commit, Reported
    <3>2. QED
      BY <1>1, <2>2, <3>1, NoWindowBefore DEF Confirmed
  <2>3. CASE Check /\ UNCHANGED <<flight, frames, ledger, op, confirmed>>
    <3>1. frames # None
      BY <2>3, Facts DEF Check, Valid, Inv, TypeOK, DeliveryTyped, Batches
    <3>2. QED
      BY <2>3, <3>1 DEF Inv, Flown
  <2>4. QED
    BY <2>1, <2>2, <2>3
<1>2. ASSUME settings' \in {"suspended", "resuming"} PROVE confirmed' = None
  <2>1. settings \in {"suspended", "resuming"} \/ SuspendEnds
    BY <1>2 DEF Next, Poll, Generation, Settings, Clock, Environment, vars, RefreshWaits, RefreshUnread,
     RefreshWithoutConfiguration, RefreshBegins, Commit, CommitFails, RebuildFails, PrepareFails, SaveFails,
     NotScanned, Rebuild, NothingToPlan, Plan, RetryWindow, NewWindow, Release, Withdraw, Publish, Enqueue,
     Take, Check, Stale, ResendQueued, UpdateFails, Update, Ack, SuspendBegins, Redistribute,
     Resume, RefreshDue, OtherTileDue, BackoffEnds, FlightRetryEnds, Edit, AskRefresh, ResendBegins, Crash
  <2>2. CASE SuspendEnds
    BY <2>2 DEF SuspendEnds, Invalidate
  <2>3. CASE settings \in {"suspended", "resuming"}
    <3>1. confirmed = None /\ ~Commit
      BY <2>3 DEF Confirmed, Inv, Flown, Commit
    <3>2. QED
      BY <3>1, PolledMoves DEF Adopt, RefreshWithoutConfiguration, Invalidate, Crash
  <2>4. QED
    BY <2>1, <2>2, <2>3
<1>3. ASSUME ~unreported', confirmed' # None, ledger'.ticket = 0, op' # "released"
      PROVE  \A s \in SlotsOf(confirmed'.images) :
                 win'[s] = [image |-> confirmed'.images[s], version |-> confirmed'.version]
  <2>1. CASE Commit
    <3>1. /\ op = "commit" /\ unreported' = unreported /\ UNCHANGED win
          /\ confirmed' = [images |-> flight.images, version |-> flight.pub]
      BY <2>1, Zenon DEF Commit
    <3>2. Holds(flight.images, flight.pub)
      BY <1>3, <3>1, CompleteHolds
    <3>3. QED
      BY <3>1, <3>2 DEF Holds
  <2>2. CASE ~Commit
    <3>1. confirmed' = confirmed /\ confirmed # None /\ ledger.ticket = 0 /\ op # "released"
      BY <1>3, <2>2, NoWindowBefore
    <3>2. ~InFlight /\ frames = None
      BY <3>1 DEF Confirmed, Inv, Flown
    <3>3. ~unreported
      BY <1>3, <3>1, <3>2, StillReported
    <3>4. UNCHANGED win
      BY <3>1, <3>2, WinMoves DEF Redistribute, UpdateFails, Update, InFlight, Confirmed
    <3>5. Holds(confirmed.images, confirmed.version)
      BY <3>1, <3>3 DEF Confirmed, ConfirmedIsShown
    <3>6. QED
      BY <3>1, <3>4, <3>5 DEF Holds
  <2>3. QED
    BY <2>1, <2>2
<1>4. ConfirmedIsShown'
  BY <1>3 DEF ConfirmedIsShown, Holds, SlotsOf
<1>5. QED
  BY <1>1, <1>2, <1>4 DEF Confirmed

Recorded == Owned /\ Numbered /\ Framed /\ Reported /\ Delivered /\ Confirmed

\* Every part of the record together is inductive.
LEMMA RecordInvariance == Spec => [](Inv /\ Recorded)
<1>1. Init => Recorded
  <2>1. Init => Owned
    BY DEF Init, Fresh, Owned, OnlyOwnedShown, EmptyQueue
  <2>2. Init => Numbered /\ Framed
    BY DEF Init, Fresh, Numbered, Framed, Known
  <2>3. Init => Reported /\ Delivered
    BY DEF Init, Fresh, Reported, Delivered, InFlight
  <2>4. Init => Confirmed
    BY DEF Init, Fresh, Confirmed, ConfirmedIsShown, InFlight
  <2>5. QED
    BY <2>1, <2>2, <2>3, <2>4 DEF Recorded
<1>2. Inv /\ Recorded /\ [Next]_vars => Recorded'
  BY OwnedFlight, OwnedUpdate, OwnedQueue, NumberedStep, FramedStep, ReportedStep, DeliveredStep, ConfirmedStep
     DEF Recorded, Owned, InOwned
<1>3. QED
  BY Invariance, <1>1, <1>2, PTL DEF Spec

\* The proof that lets a due tile be skipped holds, for every tile, queue size
\* and interleaving, unless a report that the queue was emptied was dropped.
THEOREM ConfirmedShown == Spec => []ConfirmedIsShown
<1>1. Recorded => ConfirmedIsShown
  BY DEF Recorded, Confirmed
<1>2. QED
  BY RecordInvariance, <1>1, PTL

\* The durable cursor never passes a window that Windows does not hold, with the
\* same exception.
THEOREM CursorFollows == Spec => CursorFollowsDelivery
<1>1. Inv /\ Recorded /\ [Next]_vars =>
        [~unreported /\ ledger'.epoch = ledger.epoch /\ ledger'.cursor # ledger.cursor =>
             Holds(ledger.images, flight.pub)]_vars
  <2> SUFFICES ASSUME Inv, Recorded, [Next]_vars, ~unreported,
                      ledger'.epoch = ledger.epoch, ledger'.cursor # ledger.cursor
               PROVE  Holds(ledger.images, flight.pub)
    OBVIOUS
  <2>1. ledger \in Ledgers
    BY DEF Inv, TypeOK, DiskTyped
  <2>2. CASE Commit
    <3>1. flight # None /\ Holds(flight.images, flight.pub)
      BY <2>2, CompleteHolds DEF Commit, Recorded
    <3>2. flight.images = ledger.images
      BY <2>2, <3>1 DEF Commit, Inv, Flown
    <3>3. QED
      BY <3>1, <3>2
  <2>3. ~Rebuild
    BY <2>1 DEF Rebuild, Ledgers
  <2>4. ~NewWindow
    BY <2>1 DEF NewWindow, Ledgers
  <2>5. ~Release
    BY <2>1 DEF Release, NoWindow, Ledgers
  <2>6. ~Redistribute
    <3>1. EmptyLedger(ledger.epoch + 1, 1).epoch # ledger.epoch
      BY <2>1 DEF EmptyLedger, Ledgers
    <3>2. QED
      BY <3>1 DEF Redistribute
  <2>7. QED
    BY <2>2, <2>3, <2>4, <2>5, <2>6, DiskMoves DEF disk, Edit, UpdateFails, Update
<1>2. QED
  BY RecordInvariance, <1>1, PTL DEF Spec, CursorFollowsDelivery
==============================================================================
