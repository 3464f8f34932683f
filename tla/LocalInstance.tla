--------------------------- MODULE LocalInstance ---------------------------
(***************************************************************************)
(* The local instance lock of the Discord bot on Linux: a process may run  *)
(* as a node only while its server is bound to the node's Unix socket      *)
(* (src/localInstance.ts).  A socket file that a crashed process left      *)
(* behind is removed under a recovery lock, a file opened with "wx", and   *)
(* only after it has been proven stale (src/runtime/staleSocket.ts).       *)
(*                                                                         *)
(* One action is one system call.  The endpoint is the inode its path      *)
(* names; an inode is given out again once its file is unlinked and its    *)
(* socket closed.  server.listen makes two calls, bind and listen, and a   *)
(* probe that falls between them is refused as if the socket were stale:   *)
(* `raced' remembers it, the exception the properties make.                *)
(* Each start of a Proc is a new operating system process.  What follows   *)
(* its end depends on the exit code: a refused start exits with 0          *)
(* (src/index.ts) and nobody repeats it, while the watchdog starts again   *)
(* a process that was killed or whose start threw another error            *)
(* (src/runtime/watchdogCore.ts).  The named pipes of Windows, which       *)
(* vanish with their process, are not modelled.                            *)
(***************************************************************************)
EXTENDS Naturals

CONSTANTS Proc,        \* the processes started with the same NODE_ID
          Inode,       \* the inodes the file system gives out
          None,        \* no file, no socket
          MaxCrashes   \* bound: processes that die without closing

ASSUME InstanceAssumption ==
    /\ None \notin Inode
    /\ MaxCrashes \in Nat

VARIABLES
    path,     \* the inode the endpoint names
    life,     \* what the socket of each inode is: bound, listening, closed
    lockFile, \* endpoint + ".recovery" exists
    pc,       \* where each process is
    own,      \* the inode of each process's server socket
    before,   \* the first stat of removeConfirmedStaleSocket
    ahead,    \* the recoveries under way when each process failed
    raced,    \* history: a probe met a socket between its bind and its listen
    unsure,   \* history: a probe of a stale socket was not refused
    crashes

vars == <<path, life, lockFile, pc, own, before, ahead, raced, unsure, crashes>>

Fate == {"fresh", "bound", "listening", "closed"}

\* The stages in which a process holds the recovery lock.
Locked == {"stat", "probe", "restat", "unlink", "rebind", "relisten",
           "unlock", "raise"}

Stages == Locked \cup
          {"idle", "bind", "listen", "lock", "active", "closing", "refused",
           "failed"}

Recovering(p) == pc[p] \in Locked

Init ==
    /\ path = None
    /\ life = [i \in Inode |-> "fresh"]
    /\ lockFile = FALSE
    /\ pc = [p \in Proc |-> "idle"]
    /\ own = [p \in Proc |-> None]
    /\ before = [p \in Proc |-> None]
    /\ ahead = [p \in Proc |-> {}]
    /\ raced = FALSE
    /\ unsure = FALSE
    /\ crashes = 0

Goto(p, stage) == pc' = [pc EXCEPT ![p] = stage]

\* An inode no file and no open socket refers to.
Free(i) == i # path /\ \A p \in Proc : own[p] # i

\* The recovery of p is over: nobody waits for it any longer.
Passed(p) == [q \in Proc |-> ahead[q] \ {p}]

(***************************************************************************)
(* acquireLocalInstanceLock: listen(server, endpoint).                     *)
(***************************************************************************)
\* A user or the system starts the node.
Start(p) ==
    /\ pc[p] \in {"idle", "refused"}
    /\ Goto(p, "bind")
    /\ UNCHANGED <<path, life, lockFile, own, before, ahead, raced, unsure, crashes>>

\* The watchdog starts a process again that ended with an error.  It waits at
\* least two seconds first, which outlasts a recovery (its probe gives up
\* after half a second) that was under way when the process ended.
Restart(p) ==
    /\ pc[p] = "failed" /\ ahead[p] = {}
    /\ Goto(p, "bind")
    /\ UNCHANGED <<path, life, lockFile, own, before, ahead, raced, unsure, crashes>>

\* bind(2) makes the socket file; what listen(2) does next is in Listen.
Binds(p, stage) ==
    /\ path = None
    /\ \E i \in Inode :
         /\ Free(i)
         /\ path' = i
         /\ own' = [own EXCEPT ![p] = i]
         /\ life' = [life EXCEPT ![i] = "bound"]
    /\ Goto(p, stage)
    /\ UNCHANGED <<lockFile, before, ahead, raced, unsure, crashes>>

Bind(p) ==
    /\ pc[p] = "bind"
    /\ Binds(p, "listen")

\* EADDRINUSE: recoverUnixEndpoint.
InUse(p) ==
    /\ pc[p] = "bind" /\ path # None
    /\ Goto(p, "lock")
    /\ UNCHANGED <<path, life, lockFile, own, before, ahead, raced, unsure, crashes>>

Listen(p) ==
    /\ pc[p] \in {"listen", "relisten"}
    /\ life' = [life EXCEPT ![own[p]] = "listening"]
    /\ Goto(p, IF pc[p] = "listen" THEN "active" ELSE "unlock")
    /\ UNCHANGED <<path, lockFile, own, before, ahead, raced, unsure, crashes>>

(***************************************************************************)
(* recoverUnixEndpoint and removeConfirmedStaleSocket.                     *)
(***************************************************************************)
OpenLock(p) ==
    /\ pc[p] = "lock" /\ ~lockFile
    /\ lockFile' = TRUE
    /\ Goto(p, "stat")
    /\ UNCHANGED <<path, life, own, before, ahead, raced, unsure, crashes>>

\* open(lockPath, "wx") fails: another process recovers, or died doing so.
LockTaken(p) ==
    /\ pc[p] = "lock" /\ lockFile
    /\ Goto(p, "refused")
    /\ UNCHANGED <<path, life, lockFile, own, before, ahead, raced, unsure, crashes>>

Stat(p) ==
    /\ pc[p] = "stat"
    /\ before' = [before EXCEPT ![p] = path]
    /\ Goto(p, IF path = None THEN "rebind" ELSE "probe")
    /\ UNCHANGED <<path, life, lockFile, own, ahead, raced, unsure, crashes>>

\* The endpoint names the socket of a process that died.
Stale == path # None /\ life[path] = "closed"

\* ECONNREFUSED: the endpoint names a socket nobody listens on.
BugRefuses == path # None

Refuses == path # None /\ life[path] # "listening"

ProbeRefused(p) ==
    /\ pc[p] = "probe" /\ Refuses
    /\ raced' = (raced \/ life[path] = "bound")
    /\ Goto(p, "restat")
    /\ UNCHANGED <<path, life, lockFile, own, before, ahead, unsure, crashes>>

\* The probe connects, times out, or fails with another error.
ProbeElse(p) ==
    /\ pc[p] = "probe"
    /\ unsure' = (unsure \/ Stale)
    /\ Goto(p, "unlock")
    /\ UNCHANGED <<path, life, lockFile, own, before, ahead, raced, crashes>>

BugRestat(p) ==
    /\ pc[p] = "restat"
    /\ Goto(p, IF path = None THEN "rebind" ELSE "unlock")
    /\ UNCHANGED <<path, life, lockFile, own, before, ahead, raced, unsure, crashes>>

Restat(p) ==
    /\ pc[p] = "restat"
    /\ Goto(p, IF path = None THEN "rebind"
               ELSE IF path = before[p] THEN "unlink" ELSE "unlock")
    /\ UNCHANGED <<path, life, lockFile, own, before, ahead, raced, unsure, crashes>>

\* unlink fails with ENOENT when the file is gone; the error ends the process.
Unlink(p) ==
    /\ pc[p] = "unlink"
    /\ path' = None
    /\ Goto(p, IF path = None THEN "raise" ELSE "rebind")
    /\ UNCHANGED <<life, lockFile, own, before, ahead, raced, unsure, crashes>>

Rebind(p) ==
    /\ pc[p] = "rebind"
    /\ Binds(p, "relisten")

\* Another start was faster: the second listen throws EADDRINUSE.
RebindInUse(p) ==
    /\ pc[p] = "rebind" /\ path # None
    /\ Goto(p, "raise")
    /\ UNCHANGED <<path, life, lockFile, own, before, ahead, raced, unsure, crashes>>

\* finally: the recovery lock is unlinked, whatever became of the recovery.
\* An exception goes on to main().catch, which exits with 1.
Unlock(p) ==
    /\ \/ pc[p] = "unlock" /\ Goto(p, IF own[p] = None THEN "refused" ELSE "active")
       \/ pc[p] = "raise" /\ Goto(p, "failed")
    /\ lockFile' = FALSE
    /\ before' = [before EXCEPT ![p] = None]
    /\ ahead' = Passed(p)
    /\ UNCHANGED <<path, life, own, raced, unsure, crashes>>

(***************************************************************************)
(* close(): Node unlinks the path it bound, by name, then closes the       *)
(* socket.  A process may also die at any point.                           *)
(***************************************************************************)
Close(p) ==
    /\ pc[p] = "active"
    /\ path' = None
    /\ Goto(p, "closing")
    /\ UNCHANGED <<life, lockFile, own, before, ahead, raced, unsure, crashes>>

Closed(p) ==
    /\ own' = [own EXCEPT ![p] = None]
    /\ life' = IF own[p] = None THEN life
               ELSE [life EXCEPT ![own[p]] = "closed"]

BugCloseSocket(p) ==
    /\ pc[p] = "closing"
    /\ Closed(p)
    /\ Goto(p, "idle")
    /\ path' = None
    /\ UNCHANGED <<lockFile, before, ahead, raced, unsure, crashes>>

CloseSocket(p) ==
    /\ pc[p] = "closing"
    /\ Closed(p)
    /\ Goto(p, "idle")
    /\ UNCHANGED <<path, lockFile, before, ahead, raced, unsure, crashes>>

Crash(p) ==
    /\ pc[p] \notin {"idle", "refused", "failed"} /\ crashes < MaxCrashes
    /\ Closed(p)
    /\ Goto(p, "failed")
    /\ before' = [before EXCEPT ![p] = None]
    /\ ahead' = [Passed(p) EXCEPT ![p] = {q \in Proc \ {p} : Recovering(q)}]
    /\ crashes' = crashes + 1
    /\ UNCHANGED <<path, lockFile, raced, unsure>>

\* The steps of the code, which run to their end.
Step(p) ==
    \/ Bind(p) \/ InUse(p) \/ Listen(p)
    \/ OpenLock(p) \/ LockTaken(p) \/ Stat(p)
    \/ ProbeRefused(p) \/ ProbeElse(p) \/ Restat(p) \/ Unlink(p)
    \/ Rebind(p) \/ RebindInUse(p) \/ Unlock(p)
    \/ CloseSocket(p)

Next == \E p \in Proc :
    Start(p) \/ Restart(p) \/ Step(p) \/ Close(p) \/ Crash(p)

Spec == Init /\ [][Next]_vars

\* The code runs on, and a process that failed is started again; the limit of
\* ten restarts in a window is Watchdog's subject, a behaviour here has fewer
\* crashes.  Nothing repeats a refused start, and a probe may always answer
\* otherwise than with a refusal.
Fairness == \A p \in Proc : WF_vars(Restart(p)) /\ WF_vars(Step(p))

FairSpec == Spec /\ Fairness

-----------------------------------------------------------------------------
TypeOK ==
    /\ path \in Inode \cup {None}
    /\ life \in [Inode -> Fate]
    /\ lockFile \in BOOLEAN
    /\ pc \in [Proc -> Stages]
    /\ own \in [Proc -> Inode \cup {None}]
    /\ before \in [Proc -> Inode \cup {None}]
    /\ ahead \in [Proc -> SUBSET Proc]
    /\ raced \in BOOLEAN
    /\ unsure \in BOOLEAN
    /\ crashes \in 0 .. MaxCrashes

\* At most one process of a node runs at a time, whatever starts, crashes and
\* recoveries overlap: index.ts connects to Discord only after the lock.  The
\* one way out is a probe between another start's bind and its listen.
OneInstance ==
    ~raced => \A p, q \in Proc : pc[p] = "active" /\ pc[q] = "active" => p = q

\* A running process keeps its endpoint: no recovery takes an active socket
\* away ("Leave uncertain/active endpoints untouched"), and no close unlinks
\* the file of a process that started after it.
EndpointKept == ~raced => \A p \in Proc : pc[p] = "active" => path = own[p]

\* A socket file changes hands through one recovery at a time, and only a
\* recovery that died leaves its lock behind.
OneRecovery ==
    /\ \A p, q \in Proc : Recovering(p) /\ Recovering(q) => p = q
    /\ (\E p \in Proc : Recovering(p)) => lockFile

\* A socket file whose process died is removed or bound anew by the restart
\* of a process that failed, although a refused start is never repeated and
\* starts refuse each other over the recovery lock.  Two events may block the
\* node for ever: a process dies while it holds the recovery lock, or a probe
\* of the stale file is not refused (it timed out).
Abandoned == lockFile /\ \A p \in Proc : ~Recovering(p)

StaleIsRecovered == Stale ~> (~Stale \/ Abandoned \/ unsure)

=============================================================================
