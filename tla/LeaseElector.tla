---------------------------- MODULE LeaseElector ----------------------------
(***************************************************************************)
(* The leader election of the Discord bot: every process runs              *)
(* LeaseElectorCore (src/runtime/leaseCore.ts) against one row of the      *)
(* PostgreSQL table cluster_leases (src/cluster/leader.ts,                 *)
(* src/voiceAgent.ts) and keeps a Discord workload while it leads          *)
(* (src/index.ts, src/voiceAgent.ts).                                      *)
(*                                                                         *)
(* Time is relative: a deadline is the time that is left until it, 0 once  *)
(* it has passed, and Tick takes one unit from each.  All clocks run at    *)
(* the same rate; their offsets do not matter, because the code compares   *)
(* a clock only with itself.  A query is answered in time, late, with an   *)
(* error or never, and may be executed by the server after its caller gave *)
(* up.  `generation' is not a variable: it changes exactly when `epoch' is *)
(* set to null or set again, and only the run loop sets it again, so a     *)
(* continuation finds another generation exactly when epoch is null.       *)
(*                                                                         *)
(* The row's name tells the two uses apart: "gateway" is the command       *)
(* gateway of index.ts, "voice" the voice agent, which adds beforeAcquire  *)
(* and refreshed.  Punctual says that the deadline timer runs when it is   *)
(* due: the event loop is not suspended across the deadline.               *)
(***************************************************************************)
EXTENDS Integers, FiniteSets

CONSTANTS Node,         \* the processes (one per NODE_ID)
          NoNode,       \* the holder of a lease nobody ever took
          LeaseMs,      \* CLUSTER_LEASE_MS, VOICE_LEASE_MS
          FailSafeMs,   \* CLUSTER_FAILSAFE_MS, VOICE_FAILSAFE_MS
          OperationMs,  \* the bound of one store call
          Punctual,
          Mortal,       \* the processes that may crash
          Stoppable,    \* the processes that may be told to stop
          MaxEpoch,     \* bound: the server grants no lease after this epoch
          MaxLate       \* bound: stray messages in flight; one more gets lost

ASSUME LeaseAssumption ==
    /\ NoNode \notin Node
    /\ LeaseMs \in Nat /\ FailSafeMs \in Nat \ {0} /\ OperationMs \in Nat \ {0}
    /\ FailSafeMs < LeaseMs       \* config.ts refuses to start otherwise
    /\ Punctual \in BOOLEAN
    /\ Mortal \subseteq Node /\ Stoppable \subseteq Node
    /\ MaxEpoch \in Nat /\ MaxLate \in Nat

VARIABLES
    lease,   \* the row: [name, holder, epoch, left], left = lease_until - clock
    pc,      \* where each process's run loop is
    epoch,   \* LeaseElectorCore.epoch, 0 for null
    left,    \* deadline - now
    call,    \* the store call the loop awaits
    late,    \* store calls nobody awaits any more, still on their way
    work,    \* the Discord gateway, or the voice connections
    quit     \* "shutdown": index.ts is shutting down; "stopped": stop() ran

vars == <<lease, pc, epoch, left, call, late, work, quit>>

NoCall == [stage |-> "none", epoch |-> 0, op |-> 0, own |-> 0]

Least(a, b) == IF a < b THEN a ELSE b
Less(a) == IF a = 0 THEN 0 ELSE a - 1

Calls == [stage : {"none", "asked", "granted", "refused", "lost"},
          epoch : Nat, op : 0 .. OperationMs, own : 0 .. FailSafeMs]
Stray == [kind : {"acquire", "renew", "release"}, node : Node, epoch : Nat,
          stage : {"asked", "orphan", "granted"}]

Names == {"gateway", "voice"}
Voice == lease.name = "voice"

Running(n) == pc[n] \notin {"down", "done"}
IsLeader(n) == epoch[n] # 0 /\ left[n] > 0

Init ==
    /\ \E name \in Names : lease = [name |-> name, holder |-> NoNode, epoch |-> 0, left |-> 0]
    /\ pc = [n \in Node |-> "top"]
    /\ epoch = [n \in Node |-> 0]
    /\ left = [n \in Node |-> 0]
    /\ call = [n \in Node |-> NoCall]
    /\ late = {}
    /\ work = [n \in Node |-> "none"]
    /\ quit = [n \in Node |-> "no"]

-----------------------------------------------------------------------------
(* Ending an ownership: demote() forgets the epoch, aborts what the owner   *)
(* started, runs lost() -- the workload is destroyed in the same turn --    *)
(* and sends the release of that epoch, which nobody awaits.                *)

Release(n, e) == [kind |-> "release", node |-> n, epoch |-> e, stage |-> "asked"]
Farewell(n) == IF epoch[n] = 0 THEN {} ELSE {Release(n, epoch[n])}

BugEndOwnership(n) == /\ epoch' = [epoch EXCEPT ![n] = 0]
                      /\ UNCHANGED work

EndOwnership(n) == /\ epoch' = [epoch EXCEPT ![n] = 0]
                   /\ work' = [work EXCEPT ![n] = "none"]

\* Stray messages may be lost at any time, one beyond the bound at once.
Sent(rest, new) ==
    late' = IF Cardinality(rest \union new) <= MaxLate THEN rest \union new ELSE rest

Demote(n) == /\ EndOwnership(n)
             /\ Sent(late, Farewell(n))

\* What stays on its way when the loop stops awaiting a call: a query the
\* server has not executed, or the answer of an acquire, which its handler
\* turns into a release.
Leftover(n) ==
    CASE call[n].stage = "asked" ->
           {[kind |-> IF pc[n] = "acquiring" THEN "acquire" ELSE "renew",
             node |-> n, epoch |-> call[n].epoch, stage |-> "asked"]}
      [] call[n].stage = "granted" /\ pc[n] = "acquiring" ->
           {[kind |-> "acquire", node |-> n, epoch |-> call[n].epoch,
             stage |-> "granted"]}
      [] OTHER -> {}

GoTo(n, label) == pc' = [pc EXCEPT ![n] = label]
Hangs(n) == call' = [call EXCEPT ![n] = NoCall]

-----------------------------------------------------------------------------
(* The server's clock and the processes' clocks.                            *)

TimerDue(n) == epoch[n] # 0 /\ left[n] = 0

Tick ==
    /\ Punctual => \A n \in Node : ~TimerDue(n)
    /\ lease' = [lease EXCEPT !.left = Less(@)]
    /\ left' = [n \in Node |-> Less(left[n])]
    /\ call' = [n \in Node |-> [stage |-> call[n].stage, epoch |-> call[n].epoch,
                                op |-> Less(call[n].op), own |-> Less(call[n].own)]]
    /\ UNCHANGED <<pc, epoch, late, work, quit>>

BugDeadlineTimer(n) ==
    /\ TimerDue(n) /\ pc[n] # "starting"
    /\ Demote(n)
    /\ UNCHANGED <<lease, pc, left, call, quit>>

\* arm()'s timer: the independent deadline.
DeadlineTimer(n) ==
    /\ TimerDue(n)
    /\ Demote(n)
    /\ UNCHANGED <<lease, pc, left, call, quit>>

-----------------------------------------------------------------------------
(* The row of the lease.                                                    *)

BugAlwaysFree == TRUE
Free == lease.left = 0
Holds(n, e) == lease.holder = n /\ lease.epoch = e

Grant(n) == lease' = [name |-> lease.name, holder |-> n, epoch |-> lease.epoch + 1,
                      left |-> LeaseMs]

Renewable(n, e) == Holds(n, e) /\ lease.left > 0

Extend == lease' = [lease EXCEPT !.left = LeaseMs]

Answer(n, stage, e) ==
    call' = [call EXCEPT ![n] = [stage |-> stage, epoch |-> e,
                                 op |-> call[n].op, own |-> call[n].own]]

\* The server executes the query the loop awaits; the answer may get lost.
ServeAcquire(n) ==
    /\ pc[n] = "acquiring" /\ call[n].stage = "asked"
    /\ \/ /\ Free /\ lease.epoch < MaxEpoch
          /\ Grant(n)
          /\ \E stage \in {"granted", "lost"} : Answer(n, stage, lease.epoch + 1)
       \/ /\ ~Free
          /\ Answer(n, "refused", 0)
          /\ UNCHANGED lease
    /\ UNCHANGED <<pc, epoch, left, late, work, quit>>

ServeRenew(n) ==
    /\ pc[n] = "renewing" /\ call[n].stage = "asked"
    /\ \/ /\ Renewable(n, call[n].epoch)
          /\ Extend
          /\ \E stage \in {"granted", "lost"} : Answer(n, stage, call[n].epoch)
       \/ /\ ~Renewable(n, call[n].epoch)
          /\ Answer(n, "refused", call[n].epoch)
          /\ UNCHANGED lease
    /\ UNCHANGED <<pc, epoch, left, late, work, quit>>

BugReleases(m) == lease.holder = m.node
Releases(m) == Holds(m.node, m.epoch)

\* The server executes a query nobody awaits any more.  A late grant is
\* answered to the process that asked, if it still runs.
ServeLate(m) ==
    /\ m \in late /\ m.stage \in {"asked", "orphan"}
    /\ \/ /\ m.kind = "acquire" /\ Free /\ lease.epoch < MaxEpoch
          /\ Grant(m.node)
          /\ late' = (late \ {m}) \union
                IF m.stage = "orphan" THEN {}
                ELSE {[kind |-> "acquire", node |-> m.node,
                       epoch |-> lease.epoch + 1, stage |-> "granted"]}
       \/ /\ m.kind = "renew" /\ Renewable(m.node, m.epoch)
          /\ Extend
          /\ late' = late \ {m}
       \/ /\ m.kind = "release" /\ Releases(m)
          /\ lease' = [lease EXCEPT !.left = 0]
          /\ late' = late \ {m}
       \/ /\ CASE m.kind = "acquire" -> ~Free
               [] m.kind = "renew" -> ~Renewable(m.node, m.epoch)
               [] OTHER -> ~Releases(m)
          /\ late' = late \ {m}
          /\ UNCHANGED lease
    /\ UNCHANGED <<pc, epoch, left, call, work, quit>>

\* A query or an answer nobody awaits never arrives.
Lose(m) ==
    /\ m \in late
    /\ late' = late \ {m}
    /\ UNCHANGED <<lease, pc, epoch, left, call, work, quit>>

-----------------------------------------------------------------------------
(* The run loop, from the head of its while.                                *)

LoopEnds(n) == quit[n] = "stopped"

\* The loop ends once stop() was called; run() demotes a last time.
Exit(n) ==
    /\ pc[n] = "top" /\ LoopEnds(n)
    /\ Demote(n)
    /\ GoTo(n, "done")
    /\ UNCHANGED <<lease, left, call, quit>>

\* Still the leader: sleep until the next renewal.
Lead(n) ==
    /\ pc[n] = "top" /\ ~LoopEnds(n) /\ IsLeader(n)
    /\ GoTo(n, "leading")
    /\ UNCHANGED <<lease, epoch, left, call, late, work, quit>>

Ask(n, op) ==
    call' = [call EXCEPT ![n] = [stage |-> "asked", epoch |-> epoch[n],
                                 op |-> op, own |-> FailSafeMs]]

\* Not the leader: drop an ownership whose deadline passed unseen, then
\* prepare the standby (voice) or ask for the lease.
Stand(n) ==
    /\ pc[n] = "top" /\ ~LoopEnds(n) /\ ~IsLeader(n)
    /\ Demote(n)
    /\ IF Voice
       THEN GoTo(n, "preparing") /\ UNCHANGED call
       ELSE /\ GoTo(n, "acquiring")
            /\ call' = [call EXCEPT ![n] = [stage |-> "asked", epoch |-> 0,
                                            op |-> OperationMs, own |-> FailSafeMs]]
    /\ UNCHANGED <<lease, left, quit>>

\* beforeAcquire(): ready, or not (no targets, an error, its time bound, stop).
Prepared(n) ==
    /\ pc[n] = "preparing" /\ quit[n] # "stopped"
    /\ GoTo(n, "acquiring")
    /\ Ask(n, OperationMs)
    /\ UNCHANGED <<lease, epoch, left, late, work, quit>>

Unprepared(n) ==
    /\ pc[n] = "preparing"
    /\ GoTo(n, "standby")
    /\ UNCHANGED <<lease, epoch, left, call, late, work, quit>>

\* The standby sleep ends, by its timer or by stop().
Wake(n) ==
    /\ pc[n] = "standby"
    /\ GoTo(n, "top")
    /\ UNCHANGED <<lease, epoch, left, call, late, work, quit>>

-----------------------------------------------------------------------------
(* The answer of an acquire.                                                *)

InTime(n) == call[n].op > 0 /\ call[n].own > 0

\* The deadline counts from the start of the attempt, not from its answer.
Budget(n) == call[n].own

Answerable(n) == quit[n] # "stopped"

\* startDiscord() refuses while index.ts shuts down; otherwise it publishes
\* the client and logs in, in the same turn.  The voice agent joins later.
Accept(n) ==
    /\ pc[n] = "acquiring" /\ call[n].stage = "granted"
    /\ Answerable(n) /\ InTime(n)
    /\ left' = [left EXCEPT ![n] = Budget(n)]
    /\ IF quit[n] = "shutdown" /\ ~Voice
       THEN /\ Sent(late, {Release(n, call[n].epoch)})
            /\ GoTo(n, "standby")
            /\ UNCHANGED <<epoch, work>>
       ELSE /\ epoch' = [epoch EXCEPT ![n] = call[n].epoch]
            /\ work' = [work EXCEPT ![n] = IF Voice THEN "none" ELSE "login"]
            /\ GoTo(n, "starting")
            /\ UNCHANGED late
    /\ Hangs(n)
    /\ UNCHANGED <<lease, quit>>

\* Granted too late, or while stopping: give that epoch back.
Decline(n) ==
    /\ pc[n] = "acquiring" /\ call[n].stage = "granted"
    /\ quit[n] = "stopped" \/ ~InTime(n)
    /\ Sent(late, {Release(n, call[n].epoch)})
    /\ GoTo(n, "standby")
    /\ Hangs(n)
    /\ UNCHANGED <<lease, epoch, left, work, quit>>

\* Another process holds the lease.
Refused(n) ==
    /\ pc[n] = "acquiring" /\ call[n].stage = "refused"
    /\ GoTo(n, "standby")
    /\ Hangs(n)
    /\ UNCHANGED <<lease, epoch, left, late, work, quit>>

\* The attempt fails, reaches its time bound or is cancelled by stop().
AbandonAcquire(n) ==
    /\ pc[n] = "acquiring"
    /\ call[n].stage \in {"asked", "lost"} \/ call[n].op = 0 \/ quit[n] = "stopped"
    /\ Sent(late, Leftover(n))
    /\ GoTo(n, "standby")
    /\ Hangs(n)
    /\ UNCHANGED <<lease, epoch, left, work, quit>>

\* A late grant reaches the handler of its attempt: release that epoch only.
LateGrant(m) ==
    /\ m \in late /\ m.kind = "acquire" /\ m.stage = "granted"
    /\ late' = (late \ {m}) \union {Release(m.node, m.epoch)}
    /\ UNCHANGED <<lease, pc, epoch, left, call, work, quit>>

-----------------------------------------------------------------------------
(* The workload of the owner: acquired() and refreshed().                   *)

\* The voice agent joins after an await, and only while it is still the
\* current owner by the clock.
Join(n) ==
    /\ Voice /\ pc[n] \in {"starting", "refreshing"}
    /\ IsLeader(n)
    /\ work' = [work EXCEPT ![n] = "login"]
    /\ UNCHANGED <<lease, pc, epoch, left, call, late, quit>>

\* The login (or the join) completes and acquired() resolves: the loop goes
\* on as the leader, or sleeps as a standby when its deadline has passed.
Started(n) ==
    /\ pc[n] = "starting" /\ work[n] = "login"
    /\ epoch[n] # 0
    /\ Voice => IsLeader(n)
    /\ work' = [work EXCEPT ![n] = "up"]
    /\ GoTo(n, IF IsLeader(n) THEN "top" ELSE "standby")
    /\ UNCHANGED <<lease, epoch, left, call, late, quit>>

\* It fails, or its bound -- the rest of the ownership -- elapses.
StartFailed(n) ==
    /\ pc[n] = "starting" /\ epoch[n] # 0
    /\ Demote(n)
    /\ GoTo(n, "standby")
    /\ UNCHANGED <<lease, left, call, quit>>

\* The ownership ended while acquired() was pending: bounded() rejects.
StartAborted(n) ==
    /\ pc[n] = "starting" /\ epoch[n] = 0
    /\ GoTo(n, "standby")
    /\ UNCHANGED <<lease, epoch, left, call, late, work, quit>>

-----------------------------------------------------------------------------
(* Renewals.                                                                *)

\* The sleep ends, by its timer or because the ownership ended.
RenewAsk(n) ==
    /\ pc[n] = "leading"
    /\ IF IsLeader(n) /\ quit[n] # "stopped"
       THEN GoTo(n, "renewing") /\ Ask(n, Least(OperationMs, left[n]))
       ELSE GoTo(n, "top") /\ UNCHANGED call
    /\ UNCHANGED <<lease, epoch, left, late, work, quit>>

InOwnership(n) == IsLeader(n)

\* Renewed in time: the deadline moves, counted from the start of the call.
Renewed(n) ==
    /\ pc[n] = "renewing" /\ call[n].stage = "granted"
    /\ InOwnership(n)
    /\ left' = [left EXCEPT ![n] = Budget(n)]
    /\ GoTo(n, IF Voice THEN "refreshing" ELSE "top")
    /\ Hangs(n)
    /\ UNCHANGED <<lease, epoch, late, work, quit>>

\* The server refused, or the answer came after the deadline.
RenewRefused(n) ==
    /\ pc[n] = "renewing" /\ epoch[n] # 0
    /\ \/ call[n].stage = "refused"
       \/ call[n].stage = "granted" /\ ~IsLeader(n)
    /\ Demote(n)
    /\ GoTo(n, "top")
    /\ Hangs(n)
    /\ UNCHANGED <<lease, left, quit>>

\* The ownership ended meanwhile: whatever the call answers is ignored.
RenewStale(n) ==
    /\ pc[n] = "renewing" /\ epoch[n] = 0
    /\ Sent(late, Leftover(n))
    /\ GoTo(n, "top")
    /\ Hangs(n)
    /\ UNCHANGED <<lease, epoch, left, work, quit>>

\* The call fails or reaches its bound: retried by the loop, unless the
\* deadline has passed.
RenewFailed(n) ==
    /\ pc[n] = "renewing" /\ epoch[n] # 0
    /\ call[n].stage \in {"asked", "lost"} \/ call[n].op = 0
    /\ IF left[n] = 0
       THEN /\ EndOwnership(n)
            /\ Sent(late, Leftover(n) \union Farewell(n))
       ELSE /\ Sent(late, Leftover(n))
            /\ UNCHANGED <<epoch, work>>
    /\ GoTo(n, "top")
    /\ Hangs(n)
    /\ UNCHANGED <<lease, left, quit>>

\* refreshed(): healthy, ended with the ownership, or failed -- then the
\* lease is yielded.
Refreshed(n) ==
    /\ pc[n] = "refreshing"
    /\ \/ /\ epoch[n] = 0 /\ UNCHANGED <<epoch, work, late>>
       \/ /\ IsLeader(n) /\ work[n] # "none"
          /\ work' = [work EXCEPT ![n] = "up"]
          /\ UNCHANGED <<epoch, late>>
       \/ /\ epoch[n] # 0 /\ Demote(n)
    /\ GoTo(n, "top")
    /\ UNCHANGED <<lease, left, call, quit>>

-----------------------------------------------------------------------------
(* The process.                                                             *)

\* index.ts shutdown(): the gateway stops first ...
Shutdown(n) ==
    /\ n \in Stoppable /\ Running(n) /\ quit[n] = "no" /\ ~Voice
    /\ quit' = [quit EXCEPT ![n] = "shutdown"]
    /\ work' = [work EXCEPT ![n] = "none"]
    /\ UNCHANGED <<lease, pc, epoch, left, call, late>>

\* ... and the elector only after the voice and the computer agent.
Stop(n) ==
    /\ n \in Stoppable /\ Running(n) /\ quit[n] = IF Voice THEN "no" ELSE "shutdown"
    /\ quit' = [quit EXCEPT ![n] = "stopped"]
    /\ Demote(n)
    /\ UNCHANGED <<lease, pc, left, call>>

\* The process dies, or exits; queries the server already has are executed.
Crash(n) ==
    /\ n \in Mortal /\ pc[n] # "down"
    /\ EndOwnership(n)
    /\ late' = {m \in late \union Leftover(n) : m.node # n}
               \union {[kind |-> m.kind, node |-> n, epoch |-> m.epoch, stage |-> "orphan"] :
                         m \in {x \in late \union Leftover(n) : x.node = n /\ x.stage # "granted"}}
    /\ GoTo(n, "down")
    /\ Hangs(n)
    /\ left' = [left EXCEPT ![n] = 0]
    /\ quit' = [quit EXCEPT ![n] = "no"]
    /\ UNCHANGED lease

Restart(n) ==
    /\ pc[n] = "down"
    /\ GoTo(n, "top")
    /\ UNCHANGED <<lease, epoch, left, call, late, work, quit>>

Loop(n) ==
    \/ Exit(n) \/ Lead(n) \/ Stand(n) \/ Prepared(n) \/ Unprepared(n) \/ Wake(n)
    \/ Accept(n) \/ Decline(n) \/ Refused(n) \/ AbandonAcquire(n)
    \/ Started(n) \/ StartFailed(n) \/ StartAborted(n)
    \/ RenewAsk(n) \/ Renewed(n) \/ RenewRefused(n) \/ RenewStale(n)
    \/ RenewFailed(n) \/ Refreshed(n)

Next ==
    \/ Tick
    \/ \E n \in Node : \/ Loop(n) \/ DeadlineTimer(n) \/ Join(n)
                       \/ ServeAcquire(n) \/ ServeRenew(n)
                       \/ Shutdown(n) \/ Stop(n) \/ Crash(n) \/ Restart(n)
    \/ \E m \in late : ServeLate(m) \/ Lose(m) \/ LateGrant(m)

Spec == Init /\ [][Next]_vars

-----------------------------------------------------------------------------
(* Fairness, for the processes that neither crash nor are stopped: the      *)
(* event loop runs (loop, timers), time passes, the server executes queries *)
(* or they get lost, and a process that keeps asking is answered in time    *)
(* again and again.  Another process may hang wherever it is, and nothing   *)
(* obliges a login to succeed.                                              *)

Reliable == Node \ (Mortal \union Stoppable)

Continues(n) ==
    \/ Exit(n) \/ Lead(n) \/ Stand(n) \/ Wake(n) \/ Decline(n) \/ Refused(n)
    \/ AbandonAcquire(n) \/ StartAborted(n) \/ RenewAsk(n) \/ Renewed(n)
    \/ RenewRefused(n) \/ RenewStale(n) \/ RenewFailed(n)
    \/ Prepared(n) \/ Unprepared(n) \/ Refreshed(n)

Fairness ==
    /\ WF_vars(Tick)
    /\ \A n \in Reliable : /\ WF_vars(Continues(n))
                            /\ WF_vars(DeadlineTimer(n))
                            /\ SF_vars(Prepared(n))
                            /\ SF_vars(ServeAcquire(n) /\ call'[n].stage # "lost")
                            /\ SF_vars(Accept(n))

FairSpec == Spec /\ Fairness

-----------------------------------------------------------------------------
(* Properties.                                                              *)

TypeOK ==
    /\ lease \in [name : Names, holder : Node \union {NoNode}, epoch : Nat, left : 0 .. LeaseMs]
    /\ pc \in [Node -> {"down", "top", "preparing", "acquiring", "starting", "leading",
                        "renewing", "refreshing", "standby", "done"}]
    /\ epoch \in [Node -> Nat]
    /\ left \in [Node -> 0 .. FailSafeMs]
    /\ call \in [Node -> Calls]
    /\ late \subseteq Stray
    /\ work \in [Node -> {"none", "login", "up"}]
    /\ quit \in [Node -> {"no", "shutdown", "stopped"}]

\* At most one process is the leader, however late answers, renewals and
\* releases of older epochs are executed (leaseCore.ts isLeader).
OneLeader == \A n, m \in Node : IsLeader(n) /\ IsLeader(m) => n = m

\* A leader's own deadline ends before the server's lease does, and the row
\* still names it and its epoch: no late release or renewal of another epoch
\* can take the row from under it.
LeaderCovered ==
    \A n \in Node : IsLeader(n) => Holds(n, epoch[n]) /\ left[n] < lease.left

\* Two processes run the Discord workload at the same time, logins and joins
\* in progress included, only while the deadline timer of one of them is
\* overdue: its event loop was suspended across the deadline.  With punctual
\* timers they never do.
OneWorkload ==
    \A n, m \in Node : work[n] # "none" /\ work[m] # "none" /\ n # m =>
        ~Punctual /\ (TimerDue(n) \/ TimerDue(m))

\* No gateway and no voice connection outlives the ownership it was started
\* for: every path that ends an ownership destroys them first.
WorkIsOwned == \A n \in Node : work[n] # "none" => epoch[n] # 0

\* README.md: late results cannot restore expired ownership.
ExpiredStaysExpired ==
    [][\A n \in Node : TimerDue(n) => epoch'[n] = 0 \/ left'[n] = 0]_vars

\* After stop() no answer that is still on its way starts an ownership.
StoppedStaysStopped ==
    [][\A n \in Node : quit[n] = "stopped" => epoch'[n] = 0]_vars

\* The processes implement one owner at a time under the newest term.
Abs == INSTANCE FencedOwner WITH
          owners <- {[node |-> n, term |-> epoch[n]] : n \in {m \in Node : IsLeader(m)}},
          issued <- lease.epoch
ImplementsFencedOwner == Abs!Spec

\* As long as one process neither crashes nor is stopped, the lease does not
\* stay without a leader: a crashed, hung or stopped owner is replaced.
Exhausted == lease.epoch = MaxEpoch /\ lease.left = 0
Takeover == Reliable # {} => []<>(Exhausted \/ \E n \in Node : IsLeader(n))
=============================================================================
