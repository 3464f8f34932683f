------------------------ MODULE LocalInstanceProofs ------------------------
(***************************************************************************)
(* Proofs about LocalInstance.  For every number of processes and inodes   *)
(* and any crashes, the recovery lock is exclusive; and until a probe      *)
(* falls between another start's bind and listen (raced), a node has one   *)
(* running process and a running process keeps its endpoint.               *)
(***************************************************************************)
EXTENDS LocalInstance, TLAPS

\* What the stages of a process say of its socket and of the endpoint.
Owns(p) == own[p] # None
Using == {"active", "listen", "relisten"}
OwnSockets == \A p, q \in Proc : Owns(p) /\ own[p] = own[q] => p = q
OwnStages == \A p \in Proc : Owns(p) => pc[p] \in Using \cup {"unlock", "closing"}
OwnLives == \A p \in Proc : Owns(p) => life[own[p]] \in {"bound", "listening"}
OwnPath == \A p \in Proc : Owns(p) /\ pc[p] # "closing" => path = own[p]
ActiveOwns == \A p \in Proc : pc[p] \in Using => Owns(p)
ClosingLost == \A p \in Proc : Owns(p) /\ pc[p] = "closing" => path # own[p]
ProvenStale == \A p \in Proc :
    pc[p] \in {"restat", "unlink"} => path # None /\ life[path] \notin {"bound", "listening"}

\* Every step keeps the types and the exclusion of recoveries.
Guarded == TypeOK /\ OneRecovery

\* As long as no probe raced, a process that owns a socket is bound to it, the
\* endpoint names it until it closes, and what a recovery has proven stale
\* stays stale while that recovery lasts.
Sound ==
    /\ OwnSockets /\ OwnStages /\ OwnLives /\ OwnPath
    /\ ActiveOwns /\ ClosingLost /\ ProvenStale

\* The inductive invariant.
IInv == Guarded /\ (raced \/ Sound)

LEMMA GuardedInit == Init => Guarded
<1>1. Init => TypeOK
  <2> SUFFICES ASSUME Init PROVE TypeOK
    OBVIOUS
  <2>1. path \in Inode \cup {None} /\ lockFile \in BOOLEAN
    BY DEF Init
  <2>2. life \in [Inode -> Fate] /\ pc \in [Proc -> Stages]
    BY DEF Init, Stages, Locked, Fate
  <2>3. own \in [Proc -> Inode \cup {None}] /\ before \in [Proc -> Inode \cup {None}]
    BY DEF Init
  <2>4. crashes \in 0 .. MaxCrashes
    BY InstanceAssumption DEF Init
  <2>5. raced \in BOOLEAN /\ unsure \in BOOLEAN /\ ahead \in [Proc -> SUBSET Proc]
    BY DEF Init
  <2> QED BY <2>1, <2>2, <2>3, <2>4, <2>5 DEF TypeOK
<1>2. Init => OneRecovery
  BY DEF Init, OneRecovery, Recovering, Locked
<1> QED BY <1>1, <1>2 DEF Guarded

LEMMA GuardedStart == ASSUME Guarded, NEW p \in Proc, Start(p) PROVE Guarded'
<1>1. TypeOK'
  BY InstanceAssumption DEF Guarded, TypeOK, Start, Goto, Stages, Locked, Fate
<1>2. OneRecovery'
  BY DEF Guarded, TypeOK, OneRecovery, Recovering, Stages, Locked, Start, Goto
<1> QED BY <1>1, <1>2 DEF Guarded

LEMMA GuardedRestart == ASSUME Guarded, NEW p \in Proc, Restart(p) PROVE Guarded'
<1>1. TypeOK'
  BY InstanceAssumption DEF Guarded, TypeOK, Restart, Goto, Stages, Locked, Fate
<1>2. OneRecovery'
  BY DEF Guarded, TypeOK, OneRecovery, Recovering, Stages, Locked, Restart, Goto
<1> QED BY <1>1, <1>2 DEF Guarded

LEMMA GuardedBind == ASSUME Guarded, NEW p \in Proc, Bind(p) PROVE Guarded'
<1>1. TypeOK'
  BY InstanceAssumption DEF Guarded, TypeOK, Bind, Binds, Free, Goto, Stages, Locked, Fate
<1>2. OneRecovery'
  BY DEF Guarded, TypeOK, OneRecovery, Recovering, Stages, Locked, Bind, Binds, Free, Goto
<1> QED BY <1>1, <1>2 DEF Guarded

LEMMA GuardedInUse == ASSUME Guarded, NEW p \in Proc, InUse(p) PROVE Guarded'
<1>1. TypeOK'
  BY InstanceAssumption DEF Guarded, TypeOK, InUse, Goto, Stages, Locked, Fate
<1>2. OneRecovery'
  BY DEF Guarded, TypeOK, OneRecovery, Recovering, Stages, Locked, InUse, Goto
<1> QED BY <1>1, <1>2 DEF Guarded

LEMMA GuardedListen == ASSUME Guarded, NEW p \in Proc, Listen(p) PROVE Guarded'
<1>1. TypeOK'
  BY InstanceAssumption DEF Guarded, TypeOK, Listen, Goto, Stages, Locked, Fate
<1>2. OneRecovery'
  BY DEF Guarded, TypeOK, OneRecovery, Recovering, Stages, Locked, Listen, Goto
<1> QED BY <1>1, <1>2 DEF Guarded

LEMMA GuardedOpenLock == ASSUME Guarded, NEW p \in Proc, OpenLock(p) PROVE Guarded'
<1>1. TypeOK'
  BY InstanceAssumption DEF Guarded, TypeOK, OpenLock, Goto, Stages, Locked, Fate
<1>2. OneRecovery'
  BY DEF Guarded, TypeOK, OneRecovery, Recovering, Stages, Locked, OpenLock, Goto
<1> QED BY <1>1, <1>2 DEF Guarded

LEMMA GuardedLockTaken == ASSUME Guarded, NEW p \in Proc, LockTaken(p) PROVE Guarded'
<1>1. TypeOK'
  BY InstanceAssumption DEF Guarded, TypeOK, LockTaken, Goto, Stages, Locked, Fate
<1>2. OneRecovery'
  BY DEF Guarded, TypeOK, OneRecovery, Recovering, Stages, Locked, LockTaken, Goto
<1> QED BY <1>1, <1>2 DEF Guarded

LEMMA GuardedStat == ASSUME Guarded, NEW p \in Proc, Stat(p) PROVE Guarded'
<1>1. TypeOK'
  BY InstanceAssumption DEF Guarded, TypeOK, Stat, Goto, Stages, Locked, Fate
<1>2. OneRecovery'
  BY DEF Guarded, TypeOK, OneRecovery, Recovering, Stages, Locked, Stat, Goto
<1> QED BY <1>1, <1>2 DEF Guarded

LEMMA GuardedProbeRefused == ASSUME Guarded, NEW p \in Proc, ProbeRefused(p) PROVE Guarded'
<1>1. TypeOK'
  BY InstanceAssumption DEF Guarded, TypeOK, ProbeRefused, Refuses, Goto, Stages, Locked, Fate
<1>2. OneRecovery'
  BY DEF Guarded, TypeOK, OneRecovery, Recovering, Stages, Locked, ProbeRefused, Refuses, Goto
<1> QED BY <1>1, <1>2 DEF Guarded

LEMMA GuardedProbeElse == ASSUME Guarded, NEW p \in Proc, ProbeElse(p) PROVE Guarded'
<1>1. TypeOK'
  BY InstanceAssumption DEF Guarded, TypeOK, ProbeElse, Goto, Stages, Locked, Fate
<1>2. OneRecovery'
  BY DEF Guarded, TypeOK, OneRecovery, Recovering, Stages, Locked, ProbeElse, Goto
<1> QED BY <1>1, <1>2 DEF Guarded

LEMMA GuardedRestat == ASSUME Guarded, NEW p \in Proc, Restat(p) PROVE Guarded'
<1>1. TypeOK'
  BY InstanceAssumption DEF Guarded, TypeOK, Restat, Goto, Stages, Locked, Fate
<1>2. OneRecovery'
  BY DEF Guarded, TypeOK, OneRecovery, Recovering, Stages, Locked, Restat, Goto
<1> QED BY <1>1, <1>2 DEF Guarded

LEMMA GuardedUnlink == ASSUME Guarded, NEW p \in Proc, Unlink(p) PROVE Guarded'
<1>1. TypeOK'
  BY InstanceAssumption DEF Guarded, TypeOK, Unlink, Goto, Stages, Locked, Fate
<1>2. OneRecovery'
  BY DEF Guarded, TypeOK, OneRecovery, Recovering, Stages, Locked, Unlink, Goto
<1> QED BY <1>1, <1>2 DEF Guarded

LEMMA GuardedRebind == ASSUME Guarded, NEW p \in Proc, Rebind(p) PROVE Guarded'
<1>1. TypeOK'
  BY InstanceAssumption DEF Guarded, TypeOK, Rebind, Binds, Free, Goto, Stages, Locked, Fate
<1>2. OneRecovery'
  BY DEF Guarded, TypeOK, OneRecovery, Recovering, Stages, Locked, Rebind, Binds, Free, Goto
<1> QED BY <1>1, <1>2 DEF Guarded

LEMMA GuardedRebindInUse == ASSUME Guarded, NEW p \in Proc, RebindInUse(p) PROVE Guarded'
<1>1. TypeOK'
  BY InstanceAssumption DEF Guarded, TypeOK, RebindInUse, Goto, Stages, Locked, Fate
<1>2. OneRecovery'
  BY DEF Guarded, TypeOK, OneRecovery, Recovering, Stages, Locked, RebindInUse, Goto
<1> QED BY <1>1, <1>2 DEF Guarded

LEMMA GuardedUnlock == ASSUME Guarded, NEW p \in Proc, Unlock(p) PROVE Guarded'
<1>1. TypeOK'
  BY InstanceAssumption DEF Guarded, TypeOK, Unlock, Passed, Goto, Stages, Locked, Fate
<1>2. OneRecovery'
  BY DEF Guarded, TypeOK, OneRecovery, Recovering, Stages, Locked, Unlock, Goto
<1> QED BY <1>1, <1>2 DEF Guarded

LEMMA GuardedClose == ASSUME Guarded, NEW p \in Proc, Close(p) PROVE Guarded'
<1>1. TypeOK'
  BY InstanceAssumption DEF Guarded, TypeOK, Close, Goto, Stages, Locked, Fate
<1>2. OneRecovery'
  BY DEF Guarded, TypeOK, OneRecovery, Recovering, Stages, Locked, Close, Goto
<1> QED BY <1>1, <1>2 DEF Guarded

LEMMA GuardedCloseSocket == ASSUME Guarded, NEW p \in Proc, CloseSocket(p) PROVE Guarded'
<1>1. TypeOK'
  BY InstanceAssumption DEF Guarded, TypeOK, CloseSocket, Closed, Goto, Stages, Locked, Fate
<1>2. OneRecovery'
  BY DEF Guarded, TypeOK, OneRecovery, Recovering, Stages, Locked, CloseSocket, Closed, Goto
<1> QED BY <1>1, <1>2 DEF Guarded

LEMMA GuardedCrash == ASSUME Guarded, NEW p \in Proc, Crash(p) PROVE Guarded'
<1>1. TypeOK'
  BY InstanceAssumption DEF Guarded, TypeOK, Crash, Closed, Passed, Goto, Stages, Locked, Fate
<1>2. OneRecovery'
  BY DEF Guarded, TypeOK, OneRecovery, Recovering, Stages, Locked, Crash, Closed, Goto
<1> QED BY <1>1, <1>2 DEF Guarded

LEMMA GuardedNext == Guarded /\ [Next]_vars => Guarded'
<1> SUFFICES ASSUME Guarded, [Next]_vars PROVE Guarded'
  OBVIOUS
<1>1. CASE UNCHANGED vars
  BY <1>1 DEF vars, Guarded, TypeOK, OneRecovery, Recovering
<1>2. ASSUME NEW p \in Proc, Start(p) \/ Restart(p) \/ Step(p) \/ Close(p) \/ Crash(p)
      PROVE  Guarded'
  BY <1>2, GuardedStart, GuardedRestart, GuardedBind, GuardedInUse, GuardedListen, GuardedOpenLock, GuardedLockTaken, GuardedStat, GuardedProbeRefused, GuardedProbeElse, GuardedRestat, GuardedUnlink, GuardedRebind, GuardedRebindInUse, GuardedUnlock, GuardedClose, GuardedCloseSocket, GuardedCrash DEF Step
<1> QED BY <1>1, <1>2 DEF Next

\* TypeOK: the state of the file system and of every process stays in range.
THEOREM TypeCorrect == Spec => []TypeOK
<1>1. Guarded => TypeOK BY DEF Guarded
<1> QED BY <1>1, GuardedInit, GuardedNext, PTL DEF Spec

\* OneRecovery: opening the lock with "wx" excludes every other recovery,
\* across crashes.
THEOREM RecoveryExclusive == Spec => []OneRecovery
<1>1. Guarded => OneRecovery BY DEF Guarded
<1> QED BY <1>1, GuardedInit, GuardedNext, PTL DEF Spec

LEMMA IInvInit == Init => IInv
BY GuardedInit DEF Guarded, Init, IInv, Sound, Owns, Using, OwnSockets, OwnStages, OwnLives,
    OwnPath, ActiveOwns, ClosingLost, ProvenStale

LEMMA SoundStart ==
  ASSUME Guarded, Sound, ~raced', NEW p \in Proc, Start(p) PROVE Sound'
<1>1. OwnSockets'
  BY InstanceAssumption DEF Guarded, Sound, TypeOK, Owns, OwnSockets,
      Locked, Start, Goto
<1>2. OwnStages'
  BY InstanceAssumption DEF Guarded, Sound, TypeOK, Owns, OwnStages, ActiveOwns, Using,
      Locked, Start, Goto
<1>3. OwnLives'
  BY InstanceAssumption DEF Guarded, Sound, TypeOK, Owns, OwnLives, OwnStages, OwnSockets, ActiveOwns, Using,
      Locked, Start, Goto
<1>4. OwnPath'
  BY InstanceAssumption DEF Guarded, Sound, TypeOK, Owns, OwnPath, OwnStages, OwnSockets, ProvenStale, OwnLives, ActiveOwns, OneRecovery, Recovering, Using,
      Locked, Start, Goto
<1>5. ActiveOwns'
  BY InstanceAssumption DEF Guarded, Sound, TypeOK, Owns, ActiveOwns, OwnStages, Using,
      Locked, Start, Goto
<1>6. ClosingLost'
  BY InstanceAssumption DEF Guarded, Sound, TypeOK, Owns, ClosingLost, OwnPath, OwnStages, OwnSockets, ActiveOwns, Using,
      Locked, Start, Goto
<1>7. ProvenStale'
  BY InstanceAssumption DEF Guarded, Sound, TypeOK, Owns, ProvenStale, OneRecovery, Recovering, OwnPath, OwnLives, OwnStages, ActiveOwns, OwnSockets, Using,
      Locked, Start, Goto
<1> QED BY <1>1, <1>2, <1>3, <1>4, <1>5, <1>6, <1>7 DEF Sound

LEMMA SoundRestart ==
  ASSUME Guarded, Sound, ~raced', NEW p \in Proc, Restart(p) PROVE Sound'
<1>1. OwnSockets'
  BY InstanceAssumption DEF Guarded, Sound, TypeOK, Owns, OwnSockets,
      Locked, Restart, Goto
<1>2. OwnStages'
  BY InstanceAssumption DEF Guarded, Sound, TypeOK, Owns, OwnStages, ActiveOwns, Using,
      Locked, Restart, Goto
<1>3. OwnLives'
  BY InstanceAssumption DEF Guarded, Sound, TypeOK, Owns, OwnLives, OwnStages, OwnSockets, ActiveOwns, Using,
      Locked, Restart, Goto
<1>4. OwnPath'
  BY InstanceAssumption DEF Guarded, Sound, TypeOK, Owns, OwnPath, OwnStages, OwnSockets, ProvenStale, OwnLives, ActiveOwns, OneRecovery, Recovering, Using,
      Locked, Restart, Goto
<1>5. ActiveOwns'
  BY InstanceAssumption DEF Guarded, Sound, TypeOK, Owns, ActiveOwns, OwnStages, Using,
      Locked, Restart, Goto
<1>6. ClosingLost'
  BY InstanceAssumption DEF Guarded, Sound, TypeOK, Owns, ClosingLost, OwnPath, OwnStages, OwnSockets, ActiveOwns, Using,
      Locked, Restart, Goto
<1>7. ProvenStale'
  BY InstanceAssumption DEF Guarded, Sound, TypeOK, Owns, ProvenStale, OneRecovery, Recovering, OwnPath, OwnLives, OwnStages, ActiveOwns, OwnSockets, Using,
      Locked, Restart, Goto
<1> QED BY <1>1, <1>2, <1>3, <1>4, <1>5, <1>6, <1>7 DEF Sound

LEMMA SoundBind ==
  ASSUME Guarded, Sound, ~raced', NEW p \in Proc, Bind(p) PROVE Sound'
<1>1. OwnSockets'
  BY InstanceAssumption DEF Guarded, Sound, TypeOK, Owns, OwnSockets,
      Locked, Bind, Binds, Free, Goto
<1>2. OwnStages'
  BY InstanceAssumption DEF Guarded, Sound, TypeOK, Owns, OwnStages, ActiveOwns, Using,
      Locked, Bind, Binds, Free, Goto
<1>3. OwnLives'
  BY InstanceAssumption DEF Guarded, Sound, TypeOK, Owns, OwnLives, OwnStages, OwnSockets, ActiveOwns, Using,
      Locked, Bind, Binds, Free, Goto
<1>4. OwnPath'
  BY InstanceAssumption DEF Guarded, Sound, TypeOK, Owns, OwnPath, OwnStages, OwnSockets, ProvenStale, OwnLives, ActiveOwns, OneRecovery, Recovering, Using,
      Locked, Bind, Binds, Free, Goto
<1>5. ActiveOwns'
  BY InstanceAssumption DEF Guarded, Sound, TypeOK, Owns, ActiveOwns, OwnStages, Using,
      Locked, Bind, Binds, Free, Goto
<1>6. ClosingLost'
  BY InstanceAssumption DEF Guarded, Sound, TypeOK, Owns, ClosingLost, OwnPath, OwnStages, OwnSockets, ActiveOwns, Using,
      Locked, Bind, Binds, Free, Goto
<1>7. ProvenStale'
  BY InstanceAssumption DEF Guarded, Sound, TypeOK, Owns, ProvenStale, OneRecovery, Recovering, OwnPath, OwnLives, OwnStages, ActiveOwns, OwnSockets, Using,
      Locked, Bind, Binds, Free, Goto
<1> QED BY <1>1, <1>2, <1>3, <1>4, <1>5, <1>6, <1>7 DEF Sound

LEMMA SoundInUse ==
  ASSUME Guarded, Sound, ~raced', NEW p \in Proc, InUse(p) PROVE Sound'
<1>1. OwnSockets'
  BY InstanceAssumption DEF Guarded, Sound, TypeOK, Owns, OwnSockets,
      Locked, InUse, Goto
<1>2. OwnStages'
  BY InstanceAssumption DEF Guarded, Sound, TypeOK, Owns, OwnStages, ActiveOwns, Using,
      Locked, InUse, Goto
<1>3. OwnLives'
  BY InstanceAssumption DEF Guarded, Sound, TypeOK, Owns, OwnLives, OwnStages, OwnSockets, ActiveOwns, Using,
      Locked, InUse, Goto
<1>4. OwnPath'
  BY InstanceAssumption DEF Guarded, Sound, TypeOK, Owns, OwnPath, OwnStages, OwnSockets, ProvenStale, OwnLives, ActiveOwns, OneRecovery, Recovering, Using,
      Locked, InUse, Goto
<1>5. ActiveOwns'
  BY InstanceAssumption DEF Guarded, Sound, TypeOK, Owns, ActiveOwns, OwnStages, Using,
      Locked, InUse, Goto
<1>6. ClosingLost'
  BY InstanceAssumption DEF Guarded, Sound, TypeOK, Owns, ClosingLost, OwnPath, OwnStages, OwnSockets, ActiveOwns, Using,
      Locked, InUse, Goto
<1>7. ProvenStale'
  BY InstanceAssumption DEF Guarded, Sound, TypeOK, Owns, ProvenStale, OneRecovery, Recovering, OwnPath, OwnLives, OwnStages, ActiveOwns, OwnSockets, Using,
      Locked, InUse, Goto
<1> QED BY <1>1, <1>2, <1>3, <1>4, <1>5, <1>6, <1>7 DEF Sound

LEMMA SoundListen ==
  ASSUME Guarded, Sound, ~raced', NEW p \in Proc, Listen(p) PROVE Sound'
<1>1. OwnSockets'
  BY InstanceAssumption DEF Guarded, Sound, TypeOK, Owns, OwnSockets,
      Locked, Listen, Goto
<1>2. OwnStages'
  BY InstanceAssumption DEF Guarded, Sound, TypeOK, Owns, OwnStages, ActiveOwns, Using,
      Locked, Listen, Goto
<1>3. OwnLives'
  BY InstanceAssumption DEF Guarded, Sound, TypeOK, Owns, OwnLives, OwnStages, OwnSockets, ActiveOwns, Using,
      Locked, Listen, Goto
<1>4. OwnPath'
  BY InstanceAssumption DEF Guarded, Sound, TypeOK, Owns, OwnPath, OwnStages, OwnSockets, ProvenStale, OwnLives, ActiveOwns, OneRecovery, Recovering, Using,
      Locked, Listen, Goto
<1>5. ActiveOwns'
  BY InstanceAssumption DEF Guarded, Sound, TypeOK, Owns, ActiveOwns, OwnStages, Using,
      Locked, Listen, Goto
<1>6. ClosingLost'
  BY InstanceAssumption DEF Guarded, Sound, TypeOK, Owns, ClosingLost, OwnPath, OwnStages, OwnSockets, ActiveOwns, Using,
      Locked, Listen, Goto
<1>7. ProvenStale'
  BY InstanceAssumption DEF Guarded, Sound, TypeOK, Owns, ProvenStale, OneRecovery, Recovering, OwnPath, OwnLives, OwnStages, ActiveOwns, OwnSockets, Using,
      Locked, Listen, Goto
<1> QED BY <1>1, <1>2, <1>3, <1>4, <1>5, <1>6, <1>7 DEF Sound

LEMMA SoundOpenLock ==
  ASSUME Guarded, Sound, ~raced', NEW p \in Proc, OpenLock(p) PROVE Sound'
<1>1. OwnSockets'
  BY InstanceAssumption DEF Guarded, Sound, TypeOK, Owns, OwnSockets,
      Locked, OpenLock, Goto
<1>2. OwnStages'
  BY InstanceAssumption DEF Guarded, Sound, TypeOK, Owns, OwnStages, ActiveOwns, Using,
      Locked, OpenLock, Goto
<1>3. OwnLives'
  BY InstanceAssumption DEF Guarded, Sound, TypeOK, Owns, OwnLives, OwnStages, OwnSockets, ActiveOwns, Using,
      Locked, OpenLock, Goto
<1>4. OwnPath'
  BY InstanceAssumption DEF Guarded, Sound, TypeOK, Owns, OwnPath, OwnStages, OwnSockets, ProvenStale, OwnLives, ActiveOwns, OneRecovery, Recovering, Using,
      Locked, OpenLock, Goto
<1>5. ActiveOwns'
  BY InstanceAssumption DEF Guarded, Sound, TypeOK, Owns, ActiveOwns, OwnStages, Using,
      Locked, OpenLock, Goto
<1>6. ClosingLost'
  BY InstanceAssumption DEF Guarded, Sound, TypeOK, Owns, ClosingLost, OwnPath, OwnStages, OwnSockets, ActiveOwns, Using,
      Locked, OpenLock, Goto
<1>7. ProvenStale'
  BY InstanceAssumption DEF Guarded, Sound, TypeOK, Owns, ProvenStale, OneRecovery, Recovering, OwnPath, OwnLives, OwnStages, ActiveOwns, OwnSockets, Using,
      Locked, OpenLock, Goto
<1> QED BY <1>1, <1>2, <1>3, <1>4, <1>5, <1>6, <1>7 DEF Sound

LEMMA SoundLockTaken ==
  ASSUME Guarded, Sound, ~raced', NEW p \in Proc, LockTaken(p) PROVE Sound'
<1>1. OwnSockets'
  BY InstanceAssumption DEF Guarded, Sound, TypeOK, Owns, OwnSockets,
      Locked, LockTaken, Goto
<1>2. OwnStages'
  BY InstanceAssumption DEF Guarded, Sound, TypeOK, Owns, OwnStages, ActiveOwns, Using,
      Locked, LockTaken, Goto
<1>3. OwnLives'
  BY InstanceAssumption DEF Guarded, Sound, TypeOK, Owns, OwnLives, OwnStages, OwnSockets, ActiveOwns, Using,
      Locked, LockTaken, Goto
<1>4. OwnPath'
  BY InstanceAssumption DEF Guarded, Sound, TypeOK, Owns, OwnPath, OwnStages, OwnSockets, ProvenStale, OwnLives, ActiveOwns, OneRecovery, Recovering, Using,
      Locked, LockTaken, Goto
<1>5. ActiveOwns'
  BY InstanceAssumption DEF Guarded, Sound, TypeOK, Owns, ActiveOwns, OwnStages, Using,
      Locked, LockTaken, Goto
<1>6. ClosingLost'
  BY InstanceAssumption DEF Guarded, Sound, TypeOK, Owns, ClosingLost, OwnPath, OwnStages, OwnSockets, ActiveOwns, Using,
      Locked, LockTaken, Goto
<1>7. ProvenStale'
  BY InstanceAssumption DEF Guarded, Sound, TypeOK, Owns, ProvenStale, OneRecovery, Recovering, OwnPath, OwnLives, OwnStages, ActiveOwns, OwnSockets, Using,
      Locked, LockTaken, Goto
<1> QED BY <1>1, <1>2, <1>3, <1>4, <1>5, <1>6, <1>7 DEF Sound

LEMMA SoundStat ==
  ASSUME Guarded, Sound, ~raced', NEW p \in Proc, Stat(p) PROVE Sound'
<1>1. OwnSockets'
  BY InstanceAssumption DEF Guarded, Sound, TypeOK, Owns, OwnSockets,
      Locked, Stat, Goto
<1>2. OwnStages'
  BY InstanceAssumption DEF Guarded, Sound, TypeOK, Owns, OwnStages, ActiveOwns, Using,
      Locked, Stat, Goto
<1>3. OwnLives'
  BY InstanceAssumption DEF Guarded, Sound, TypeOK, Owns, OwnLives, OwnStages, OwnSockets, ActiveOwns, Using,
      Locked, Stat, Goto
<1>4. OwnPath'
  BY InstanceAssumption DEF Guarded, Sound, TypeOK, Owns, OwnPath, OwnStages, OwnSockets, ProvenStale, OwnLives, ActiveOwns, OneRecovery, Recovering, Using,
      Locked, Stat, Goto
<1>5. ActiveOwns'
  BY InstanceAssumption DEF Guarded, Sound, TypeOK, Owns, ActiveOwns, OwnStages, Using,
      Locked, Stat, Goto
<1>6. ClosingLost'
  BY InstanceAssumption DEF Guarded, Sound, TypeOK, Owns, ClosingLost, OwnPath, OwnStages, OwnSockets, ActiveOwns, Using,
      Locked, Stat, Goto
<1>7. ProvenStale'
  BY InstanceAssumption DEF Guarded, Sound, TypeOK, Owns, ProvenStale, OneRecovery, Recovering, OwnPath, OwnLives, OwnStages, ActiveOwns, OwnSockets, Using,
      Locked, Stat, Goto
<1> QED BY <1>1, <1>2, <1>3, <1>4, <1>5, <1>6, <1>7 DEF Sound

LEMMA SoundProbeRefused ==
  ASSUME Guarded, Sound, ~raced', NEW p \in Proc, ProbeRefused(p) PROVE Sound'
<1>1. OwnSockets'
  BY InstanceAssumption DEF Guarded, Sound, TypeOK, Owns, OwnSockets,
      Locked, ProbeRefused, Refuses, Goto
<1>2. OwnStages'
  BY InstanceAssumption DEF Guarded, Sound, TypeOK, Owns, OwnStages, ActiveOwns, Using,
      Locked, ProbeRefused, Refuses, Goto
<1>3. OwnLives'
  BY InstanceAssumption DEF Guarded, Sound, TypeOK, Owns, OwnLives, OwnStages, OwnSockets, ActiveOwns, Using,
      Locked, ProbeRefused, Refuses, Goto
<1>4. OwnPath'
  BY InstanceAssumption DEF Guarded, Sound, TypeOK, Owns, OwnPath, OwnStages, OwnSockets, ProvenStale, OwnLives, ActiveOwns, OneRecovery, Recovering, Using,
      Locked, ProbeRefused, Refuses, Goto
<1>5. ActiveOwns'
  BY InstanceAssumption DEF Guarded, Sound, TypeOK, Owns, ActiveOwns, OwnStages, Using,
      Locked, ProbeRefused, Refuses, Goto
<1>6. ClosingLost'
  BY InstanceAssumption DEF Guarded, Sound, TypeOK, Owns, ClosingLost, OwnPath, OwnStages, OwnSockets, ActiveOwns, Using,
      Locked, ProbeRefused, Refuses, Goto
<1>7. ProvenStale'
  BY InstanceAssumption DEF Guarded, Sound, TypeOK, Owns, ProvenStale, OneRecovery, Recovering, OwnPath, OwnLives, OwnStages, ActiveOwns, OwnSockets, Using,
      Locked, ProbeRefused, Refuses, Goto
<1> QED BY <1>1, <1>2, <1>3, <1>4, <1>5, <1>6, <1>7 DEF Sound

LEMMA SoundProbeElse ==
  ASSUME Guarded, Sound, ~raced', NEW p \in Proc, ProbeElse(p) PROVE Sound'
<1>1. OwnSockets'
  BY InstanceAssumption DEF Guarded, Sound, TypeOK, Owns, OwnSockets,
      Locked, ProbeElse, Goto
<1>2. OwnStages'
  BY InstanceAssumption DEF Guarded, Sound, TypeOK, Owns, OwnStages, ActiveOwns, Using,
      Locked, ProbeElse, Goto
<1>3. OwnLives'
  BY InstanceAssumption DEF Guarded, Sound, TypeOK, Owns, OwnLives, OwnStages, OwnSockets, ActiveOwns, Using,
      Locked, ProbeElse, Goto
<1>4. OwnPath'
  BY InstanceAssumption DEF Guarded, Sound, TypeOK, Owns, OwnPath, OwnStages, OwnSockets, ProvenStale, OwnLives, ActiveOwns, OneRecovery, Recovering, Using,
      Locked, ProbeElse, Goto
<1>5. ActiveOwns'
  BY InstanceAssumption DEF Guarded, Sound, TypeOK, Owns, ActiveOwns, OwnStages, Using,
      Locked, ProbeElse, Goto
<1>6. ClosingLost'
  BY InstanceAssumption DEF Guarded, Sound, TypeOK, Owns, ClosingLost, OwnPath, OwnStages, OwnSockets, ActiveOwns, Using,
      Locked, ProbeElse, Goto
<1>7. ProvenStale'
  BY InstanceAssumption DEF Guarded, Sound, TypeOK, Owns, ProvenStale, OneRecovery, Recovering, OwnPath, OwnLives, OwnStages, ActiveOwns, OwnSockets, Using,
      Locked, ProbeElse, Goto
<1> QED BY <1>1, <1>2, <1>3, <1>4, <1>5, <1>6, <1>7 DEF Sound

LEMMA SoundRestat ==
  ASSUME Guarded, Sound, ~raced', NEW p \in Proc, Restat(p) PROVE Sound'
<1>1. OwnSockets'
  BY InstanceAssumption DEF Guarded, Sound, TypeOK, Owns, OwnSockets,
      Locked, Restat, Goto
<1>2. OwnStages'
  BY InstanceAssumption DEF Guarded, Sound, TypeOK, Owns, OwnStages, ActiveOwns, Using,
      Locked, Restat, Goto
<1>3. OwnLives'
  BY InstanceAssumption DEF Guarded, Sound, TypeOK, Owns, OwnLives, OwnStages, OwnSockets, ActiveOwns, Using,
      Locked, Restat, Goto
<1>4. OwnPath'
  BY InstanceAssumption DEF Guarded, Sound, TypeOK, Owns, OwnPath, OwnStages, OwnSockets, ProvenStale, OwnLives, ActiveOwns, OneRecovery, Recovering, Using,
      Locked, Restat, Goto
<1>5. ActiveOwns'
  BY InstanceAssumption DEF Guarded, Sound, TypeOK, Owns, ActiveOwns, OwnStages, Using,
      Locked, Restat, Goto
<1>6. ClosingLost'
  BY InstanceAssumption DEF Guarded, Sound, TypeOK, Owns, ClosingLost, OwnPath, OwnStages, OwnSockets, ActiveOwns, Using,
      Locked, Restat, Goto
<1>7. ProvenStale'
  BY InstanceAssumption DEF Guarded, Sound, TypeOK, Owns, ProvenStale, OneRecovery, Recovering, OwnPath, OwnLives, OwnStages, ActiveOwns, OwnSockets, Using,
      Locked, Restat, Goto
<1> QED BY <1>1, <1>2, <1>3, <1>4, <1>5, <1>6, <1>7 DEF Sound

LEMMA SoundUnlink ==
  ASSUME Guarded, Sound, ~raced', NEW p \in Proc, Unlink(p) PROVE Sound'
<1>1. OwnSockets'
  BY InstanceAssumption DEF Guarded, Sound, TypeOK, Owns, OwnSockets,
      Locked, Unlink, Goto
<1>2. OwnStages'
  BY InstanceAssumption DEF Guarded, Sound, TypeOK, Owns, OwnStages, ActiveOwns, Using,
      Locked, Unlink, Goto
<1>3. OwnLives'
  BY InstanceAssumption DEF Guarded, Sound, TypeOK, Owns, OwnLives, OwnStages, OwnSockets, ActiveOwns, Using,
      Locked, Unlink, Goto
<1>4. OwnPath'
  BY InstanceAssumption DEF Guarded, Sound, TypeOK, Owns, OwnPath, OwnStages, OwnSockets, ProvenStale, OwnLives, ActiveOwns, OneRecovery, Recovering, Using,
      Locked, Unlink, Goto
<1>5. ActiveOwns'
  BY InstanceAssumption DEF Guarded, Sound, TypeOK, Owns, ActiveOwns, OwnStages, Using,
      Locked, Unlink, Goto
<1>6. ClosingLost'
  BY InstanceAssumption DEF Guarded, Sound, TypeOK, Owns, ClosingLost, OwnPath, OwnStages, OwnSockets, ActiveOwns, Using,
      Locked, Unlink, Goto
<1>7. ProvenStale'
  BY InstanceAssumption DEF Guarded, Sound, TypeOK, Owns, ProvenStale, OneRecovery, Recovering, OwnPath, OwnLives, OwnStages, ActiveOwns, OwnSockets, Using,
      Locked, Unlink, Goto
<1> QED BY <1>1, <1>2, <1>3, <1>4, <1>5, <1>6, <1>7 DEF Sound

LEMMA SoundRebind ==
  ASSUME Guarded, Sound, ~raced', NEW p \in Proc, Rebind(p) PROVE Sound'
<1>1. OwnSockets'
  BY InstanceAssumption DEF Guarded, Sound, TypeOK, Owns, OwnSockets,
      Locked, Rebind, Binds, Free, Goto
<1>2. OwnStages'
  BY InstanceAssumption DEF Guarded, Sound, TypeOK, Owns, OwnStages, ActiveOwns, Using,
      Locked, Rebind, Binds, Free, Goto
<1>3. OwnLives'
  BY InstanceAssumption DEF Guarded, Sound, TypeOK, Owns, OwnLives, OwnStages, OwnSockets, ActiveOwns, Using,
      Locked, Rebind, Binds, Free, Goto
<1>4. OwnPath'
  BY InstanceAssumption DEF Guarded, Sound, TypeOK, Owns, OwnPath, OwnStages, OwnSockets, ProvenStale, OwnLives, ActiveOwns, OneRecovery, Recovering, Using,
      Locked, Rebind, Binds, Free, Goto
<1>5. ActiveOwns'
  BY InstanceAssumption DEF Guarded, Sound, TypeOK, Owns, ActiveOwns, OwnStages, Using,
      Locked, Rebind, Binds, Free, Goto
<1>6. ClosingLost'
  BY InstanceAssumption DEF Guarded, Sound, TypeOK, Owns, ClosingLost, OwnPath, OwnStages, OwnSockets, ActiveOwns, Using,
      Locked, Rebind, Binds, Free, Goto
<1>7. ProvenStale'
  BY InstanceAssumption DEF Guarded, Sound, TypeOK, Owns, ProvenStale, OneRecovery, Recovering, OwnPath, OwnLives, OwnStages, ActiveOwns, OwnSockets, Using,
      Locked, Rebind, Binds, Free, Goto
<1> QED BY <1>1, <1>2, <1>3, <1>4, <1>5, <1>6, <1>7 DEF Sound

LEMMA SoundRebindInUse ==
  ASSUME Guarded, Sound, ~raced', NEW p \in Proc, RebindInUse(p) PROVE Sound'
<1>1. OwnSockets'
  BY InstanceAssumption DEF Guarded, Sound, TypeOK, Owns, OwnSockets,
      Locked, RebindInUse, Goto
<1>2. OwnStages'
  BY InstanceAssumption DEF Guarded, Sound, TypeOK, Owns, OwnStages, ActiveOwns, Using,
      Locked, RebindInUse, Goto
<1>3. OwnLives'
  BY InstanceAssumption DEF Guarded, Sound, TypeOK, Owns, OwnLives, OwnStages, OwnSockets, ActiveOwns, Using,
      Locked, RebindInUse, Goto
<1>4. OwnPath'
  BY InstanceAssumption DEF Guarded, Sound, TypeOK, Owns, OwnPath, OwnStages, OwnSockets, ProvenStale, OwnLives, ActiveOwns, OneRecovery, Recovering, Using,
      Locked, RebindInUse, Goto
<1>5. ActiveOwns'
  BY InstanceAssumption DEF Guarded, Sound, TypeOK, Owns, ActiveOwns, OwnStages, Using,
      Locked, RebindInUse, Goto
<1>6. ClosingLost'
  BY InstanceAssumption DEF Guarded, Sound, TypeOK, Owns, ClosingLost, OwnPath, OwnStages, OwnSockets, ActiveOwns, Using,
      Locked, RebindInUse, Goto
<1>7. ProvenStale'
  BY InstanceAssumption DEF Guarded, Sound, TypeOK, Owns, ProvenStale, OneRecovery, Recovering, OwnPath, OwnLives, OwnStages, ActiveOwns, OwnSockets, Using,
      Locked, RebindInUse, Goto
<1> QED BY <1>1, <1>2, <1>3, <1>4, <1>5, <1>6, <1>7 DEF Sound

LEMMA SoundUnlock ==
  ASSUME Guarded, Sound, ~raced', NEW p \in Proc, Unlock(p) PROVE Sound'
<1>1. OwnSockets'
  BY InstanceAssumption DEF Guarded, Sound, TypeOK, Owns, OwnSockets,
      Locked, Unlock, Goto
<1>2. OwnStages'
  BY InstanceAssumption DEF Guarded, Sound, TypeOK, Owns, OwnStages, ActiveOwns, Using,
      Locked, Unlock, Goto
<1>3. OwnLives'
  BY InstanceAssumption DEF Guarded, Sound, TypeOK, Owns, OwnLives, OwnStages, OwnSockets, ActiveOwns, Using,
      Locked, Unlock, Goto
<1>4. OwnPath'
  BY InstanceAssumption DEF Guarded, Sound, TypeOK, Owns, OwnPath, OwnStages, OwnSockets, ProvenStale, OwnLives, ActiveOwns, OneRecovery, Recovering, Using,
      Locked, Unlock, Goto
<1>5. ActiveOwns'
  BY InstanceAssumption DEF Guarded, Sound, TypeOK, Owns, ActiveOwns, OwnStages, Using,
      Locked, Unlock, Goto
<1>6. ClosingLost'
  BY InstanceAssumption DEF Guarded, Sound, TypeOK, Owns, ClosingLost, OwnPath, OwnStages, OwnSockets, ActiveOwns, Using,
      Locked, Unlock, Goto
<1>7. ProvenStale'
  BY InstanceAssumption DEF Guarded, Sound, TypeOK, Owns, ProvenStale, OneRecovery, Recovering, OwnPath, OwnLives, OwnStages, ActiveOwns, OwnSockets, Using,
      Locked, Unlock, Goto
<1> QED BY <1>1, <1>2, <1>3, <1>4, <1>5, <1>6, <1>7 DEF Sound

LEMMA SoundClose ==
  ASSUME Guarded, Sound, ~raced', NEW p \in Proc, Close(p) PROVE Sound'
<1>1. OwnSockets'
  BY InstanceAssumption DEF Guarded, Sound, TypeOK, Owns, OwnSockets,
      Locked, Close, Goto
<1>2. OwnStages'
  BY InstanceAssumption DEF Guarded, Sound, TypeOK, Owns, OwnStages, ActiveOwns, Using,
      Locked, Close, Goto
<1>3. OwnLives'
  BY InstanceAssumption DEF Guarded, Sound, TypeOK, Owns, OwnLives, OwnStages, OwnSockets, ActiveOwns, Using,
      Locked, Close, Goto
<1>4. OwnPath'
  BY InstanceAssumption DEF Guarded, Sound, TypeOK, Owns, OwnPath, OwnStages, OwnSockets, ProvenStale, OwnLives, ActiveOwns, OneRecovery, Recovering, Using,
      Locked, Close, Goto
<1>5. ActiveOwns'
  BY InstanceAssumption DEF Guarded, Sound, TypeOK, Owns, ActiveOwns, OwnStages, Using,
      Locked, Close, Goto
<1>6. ClosingLost'
  BY InstanceAssumption DEF Guarded, Sound, TypeOK, Owns, ClosingLost, OwnPath, OwnStages, OwnSockets, ActiveOwns, Using,
      Locked, Close, Goto
<1>7. ProvenStale'
  BY InstanceAssumption DEF Guarded, Sound, TypeOK, Owns, ProvenStale, OneRecovery, Recovering, OwnPath, OwnLives, OwnStages, ActiveOwns, OwnSockets, Using,
      Locked, Close, Goto
<1> QED BY <1>1, <1>2, <1>3, <1>4, <1>5, <1>6, <1>7 DEF Sound

LEMMA SoundCloseSocket ==
  ASSUME Guarded, Sound, ~raced', NEW p \in Proc, CloseSocket(p) PROVE Sound'
<1>1. OwnSockets'
  BY InstanceAssumption DEF Guarded, Sound, TypeOK, Owns, OwnSockets,
      Locked, CloseSocket, Closed, Goto
<1>2. OwnStages'
  BY InstanceAssumption DEF Guarded, Sound, TypeOK, Owns, OwnStages, ActiveOwns, Using,
      Locked, CloseSocket, Closed, Goto
<1>3. OwnLives'
  BY InstanceAssumption DEF Guarded, Sound, TypeOK, Owns, OwnLives, OwnStages, OwnSockets, ActiveOwns, Using,
      Locked, CloseSocket, Closed, Goto
<1>4. OwnPath'
  BY InstanceAssumption DEF Guarded, Sound, TypeOK, Owns, OwnPath, OwnStages, OwnSockets, ProvenStale, OwnLives, ActiveOwns, OneRecovery, Recovering, Using,
      Locked, CloseSocket, Closed, Goto
<1>5. ActiveOwns'
  BY InstanceAssumption DEF Guarded, Sound, TypeOK, Owns, ActiveOwns, OwnStages, Using,
      Locked, CloseSocket, Closed, Goto
<1>6. ClosingLost'
  BY InstanceAssumption DEF Guarded, Sound, TypeOK, Owns, ClosingLost, OwnPath, OwnStages, OwnSockets, ActiveOwns, Using,
      Locked, CloseSocket, Closed, Goto
<1>7. ProvenStale'
  BY InstanceAssumption DEF Guarded, Sound, TypeOK, Owns, ProvenStale, OneRecovery, Recovering, OwnPath, OwnLives, OwnStages, ActiveOwns, OwnSockets, Using,
      Locked, CloseSocket, Closed, Goto
<1> QED BY <1>1, <1>2, <1>3, <1>4, <1>5, <1>6, <1>7 DEF Sound

LEMMA SoundCrash ==
  ASSUME Guarded, Sound, ~raced', NEW p \in Proc, Crash(p) PROVE Sound'
<1>1. OwnSockets'
  BY InstanceAssumption DEF Guarded, Sound, TypeOK, Owns, OwnSockets,
      Locked, Crash, Closed, Goto
<1>2. OwnStages'
  BY InstanceAssumption DEF Guarded, Sound, TypeOK, Owns, OwnStages, ActiveOwns, Using,
      Locked, Crash, Closed, Goto
<1>3. OwnLives'
  BY InstanceAssumption DEF Guarded, Sound, TypeOK, Owns, OwnLives, OwnStages, OwnSockets, ActiveOwns, Using,
      Locked, Crash, Closed, Goto
<1>4. OwnPath'
  BY InstanceAssumption DEF Guarded, Sound, TypeOK, Owns, OwnPath, OwnStages, OwnSockets, ProvenStale, OwnLives, ActiveOwns, OneRecovery, Recovering, Using,
      Locked, Crash, Closed, Goto
<1>5. ActiveOwns'
  BY InstanceAssumption DEF Guarded, Sound, TypeOK, Owns, ActiveOwns, OwnStages, Using,
      Locked, Crash, Closed, Goto
<1>6. ClosingLost'
  BY InstanceAssumption DEF Guarded, Sound, TypeOK, Owns, ClosingLost, OwnPath, OwnStages, OwnSockets, ActiveOwns, Using,
      Locked, Crash, Closed, Goto
<1>7. ProvenStale'
  BY InstanceAssumption DEF Guarded, Sound, TypeOK, Owns, ProvenStale, OneRecovery, Recovering, OwnPath, OwnLives, OwnStages, ActiveOwns, OwnSockets, Using,
      Locked, Crash, Closed, Goto
<1> QED BY <1>1, <1>2, <1>3, <1>4, <1>5, <1>6, <1>7 DEF Sound

\* A race is remembered.
LEMMA RacedStays == raced /\ [Next]_vars => raced'
BY DEF Next, Step, vars, Start, Restart, Bind, Binds, InUse, Listen, OpenLock, LockTaken, Stat, ProbeRefused,
    ProbeElse, Restat, Unlink, Rebind, RebindInUse, Unlock, Close, CloseSocket, Crash

LEMMA IInvNext == IInv /\ [Next]_vars => IInv'
<1> SUFFICES ASSUME IInv, [Next]_vars PROVE IInv'
  OBVIOUS
<1>1. Guarded'
  BY GuardedNext DEF IInv
<1>2. CASE raced'
  BY <1>1, <1>2 DEF IInv
<1>3. CASE ~raced'
  <2> SUFFICES Sound'
    BY <1>1 DEF IInv
  <2>1. Guarded /\ Sound
    BY <1>3, RacedStays DEF IInv
  <2>2. CASE UNCHANGED vars
    BY <2>1, <2>2 DEF vars, Guarded, TypeOK, Sound, Owns, Using, OwnSockets,
        OwnStages, OwnLives, OwnPath, ActiveOwns, ClosingLost, ProvenStale
  <2>3. ASSUME NEW p \in Proc, Start(p) \/ Restart(p) \/ Step(p) \/ Close(p) \/ Crash(p)
        PROVE  Sound'
    BY <1>3, <2>1, <2>3, SoundStart, SoundRestart, SoundBind, SoundInUse, SoundListen, SoundOpenLock, SoundLockTaken, SoundStat, SoundProbeRefused, SoundProbeElse, SoundRestat, SoundUnlink, SoundRebind, SoundRebindInUse, SoundUnlock, SoundClose, SoundCloseSocket, SoundCrash DEF Step
  <2>4. CASE Next
    <3>1. PICK p \in Proc : Start(p) \/ Restart(p) \/ Step(p) \/ Close(p) \/ Crash(p)
      BY <2>4 DEF Next
    <3> QED BY <2>3, <3>1
  <2> QED BY <2>2, <2>4
<1> QED BY <1>2, <1>3

\* EndpointKept: no recovery and no close takes the endpoint of a running
\* process away, unless a probe fell between a bind and its listen.
THEOREM EndpointIsKept == Spec => []EndpointKept
<1>1. IInv => EndpointKept
  BY DEF IInv, Sound, EndpointKept, OwnPath, ActiveOwns, Using
<1> QED BY <1>1, IInvInit, IInvNext, PTL DEF Spec

\* OneInstance: two processes of a node never run at the same time, unless a
\* probe fell between a bind and its listen.
THEOREM InstanceUnique == Spec => []OneInstance
<1>1. IInv => OneInstance
  BY DEF IInv, Sound, OneInstance, OwnPath, ActiveOwns, OwnSockets, Using
<1> QED BY <1>1, IInvInit, IInvNext, PTL DEF Spec

=============================================================================
