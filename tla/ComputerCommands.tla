-------------------------- MODULE ComputerCommands --------------------------
(***************************************************************************)
(* The command queue of the Discord bot: slash commands insert rows into   *)
(* computer_commands (src/commands/computer.ts, clusterUpdate.ts), and on  *)
(* every node an agent claims them, runs them and records the outcome      *)
(* (src/computerAgent.ts).  An update names a row of                       *)
(* cluster_update_packages, which every upload prunes.                     *)
(*                                                                         *)
(* One action is one SQL statement, or what a node does between two.  A    *)
(* statement whose caller sees an error may have been executed all the     *)
(* same, and an outcome may be written later: the pool gives a query up    *)
(* after query_timeout.  A row's id is its place in `rows', which is also  *)
(* the order of requested_at.  An action that is told to run happens at    *)
(* once, when the row is already completed ("sleep", after the four        *)
(* seconds of its timer), or after staging a package ("update"; NodeUpdate *)
(* models what follows).                                                   *)
(***************************************************************************)
EXTENDS Naturals, Sequences, FiniteSets

CONSTANTS Node,       \* the registered computers
          User,       \* slash commands being executed
          Sha,        \* the contents of update packages
          Keep,       \* the packages an upload keeps, 10
          MaxRows,    \* bound: commands
          MaxUploads, \* bound: package rows
          MaxFaults   \* bound: failed statements and nodes that end

ASSUME CommandsAssumption ==
    /\ Keep \in Nat \ {0}
    /\ {MaxRows, MaxUploads, MaxFaults} \subseteq Nat

VARIABLES
    rows,    \* computer_commands
    ran,     \* how often each command took effect
    store,   \* cluster_update_packages; ids are given in the order of created_at
    uploads, \* package ids given out
    user,    \* where each slash command is
    agent,   \* the run loop of each node
    late,    \* outcomes on their way that nobody awaits any more
    faults   \* failed statements and nodes that ended

queue == <<rows, ran>>
packages == <<store, uploads, user>>
commandVars == <<rows, ran, store, uploads, user, agent, late, faults>>

Row == 1 .. MaxRows
NoPackage == 0
Actions == {"settings", "sleep", "update"}
Status == {"pending", "claimed", "completed", "failed", "expired"}

Idle == [pc |-> "idle", package |-> NoPackage, todo |-> {}]
At(stage, c) == [pc |-> stage, cmd |-> c]

CommandsInit ==
    /\ rows = <<>>
    /\ ran = [c \in Row |-> 0]
    /\ store = {}
    /\ uploads = 0
    /\ user = [u \in User |-> Idle]
    /\ agent = [n \in Node |-> At("down", 0)]
    /\ late = {}
    /\ faults = 0

Fault == faults < MaxFaults /\ faults' = faults + 1

Stored == {p.id : p \in store}

(***************************************************************************)
(* The slash commands.                                                     *)
(***************************************************************************)
Insert(n, action, package) ==
    /\ Len(rows) < MaxRows
    /\ rows' = Append(rows, [node |-> n, action |-> action, package |-> package,
                             status |-> "pending", due |-> FALSE])
    /\ UNCHANGED ran

\* computer.ts: enqueue.
Enqueue(u) ==
    /\ user[u] = Idle
    /\ \E n \in Node, action \in Actions \ {"update"} : Insert(n, action, NoPackage)
    /\ UNCHANGED <<packages, agent, late, faults>>

\* A package that is uploaded again keeps its row, and its created_at.
Upload(u) ==
    /\ user[u] = Idle
    /\ \E sha \in Sha :
         \/ /\ \E p \in store :
                 /\ p.sha = sha
                 /\ user' = [user EXCEPT ![u].pc = "prune", ![u].package = p.id]
            /\ UNCHANGED <<store, uploads>>
         \/ /\ uploads < MaxUploads
            /\ \A p \in store : p.sha # sha
            /\ uploads' = uploads + 1
            /\ store' = store \cup {[id |-> uploads + 1, sha |-> sha]}
            /\ user' = [user EXCEPT ![u].pc = "prune", ![u].package = uploads + 1]
    /\ UNCHANGED <<queue, agent, late, faults>>

\* An update that is not done needs its package.
Needs(id) == \E c \in DOMAIN rows :
    rows[c].package = id /\ rows[c].status \in {"pending", "claimed"}

Newest == {id \in Stored : Cardinality({other \in Stored : other > id}) < Keep}

BugSpared(id) == id \in Newest \/ \E c \in DOMAIN rows :
    rows[c].package = id /\ rows[c].status = "pending"

Spared(id) == id \in Newest \/ Needs(id)

\* storePackage's DELETE; then the targets are listed and queued one by one.
Prune(u) ==
    /\ user[u].pc = "prune"
    /\ store' = {p \in store : Spared(p.id)}
    /\ \E targets \in (SUBSET Node) \ {{}} :
         user' = [user EXCEPT ![u].pc = "queue", ![u].todo = targets]
    /\ UNCHANGED <<queue, uploads, agent, late, faults>>

QueueUpdate(u) ==
    /\ user[u].pc = "queue"
    /\ \E n \in user[u].todo :
         LET todo == user[u].todo \ {n} IN
         /\ Insert(n, "update", user[u].package)
         /\ user' = [user EXCEPT ![u] = IF todo = {} THEN Idle ELSE [@ EXCEPT !.todo = todo]]
    /\ UNCHANGED <<store, uploads, agent, late, faults>>

\* A statement fails, or the node of the gateway ends: what is queued stays.
GiveUp(u) ==
    /\ user[u] # Idle /\ Fault
    /\ user' = [user EXCEPT ![u] = Idle]
    /\ UNCHANGED <<queue, store, uploads, agent, late>>

\* expires_at passes: two minutes, or thirty days for an update.
Due(c) ==
    /\ c \in DOMAIN rows /\ rows[c].status \in {"pending", "claimed"} /\ ~rows[c].due
    /\ rows' = [rows EXCEPT ![c].due = TRUE]
    /\ UNCHANGED <<ran, packages, agent, late, faults>>

(***************************************************************************)
(* ComputerAgent.runLoop.                                                  *)
(***************************************************************************)
Goto(n, stage) == agent' = [agent EXCEPT ![n] = At(stage, agent[n].cmd)]
Poll(n) == agent' = [agent EXCEPT ![n] = At("sweep", 0)]
\* Every node expires the commands of all nodes.
BugExpired == [c \in DOMAIN rows |->
    IF rows[c].status \in {"pending", "claimed"} /\ rows[c].due
    THEN [rows[c] EXCEPT !.status = "expired"] ELSE rows[c]]

Expired == [c \in DOMAIN rows |->
    IF rows[c].status = "pending" /\ rows[c].due
    THEN [rows[c] EXCEPT !.status = "expired"] ELSE rows[c]]

Sweep(n) ==
    /\ agent[n].pc = "sweep"
    /\ rows' = Expired
    /\ Goto(n, "claim")
    /\ UNCHANGED <<ran, packages, late, faults>>

SweepFault(n) ==
    /\ agent[n].pc = "sweep" /\ Fault
    /\ rows' \in {rows, Expired}
    /\ UNCHANGED <<ran, packages, agent, late>>

BugReopen(n) == {c \in DOMAIN rows :
    rows[c].node = n /\ rows[c].status \in {"pending", "claimed"} /\ ~rows[c].due}

\* claimNext: the first of the pending commands that are not due.
Open(n) == {c \in DOMAIN rows :
    rows[c].node = n /\ rows[c].status = "pending" /\ ~rows[c].due}

Candidate(n) == {c \in Open(n) : \A d \in Open(n) : c <= d}

Record(c, status) == rows' = [rows EXCEPT ![c].status = status]

Claim(n) ==
    /\ agent[n].pc = "claim"
    /\ \E c \in Candidate(n) :
         /\ Record(c, "claimed")
         /\ agent' = [agent EXCEPT ![n] = At("run", c)]
    /\ UNCHANGED <<ran, packages, late, faults>>

NothingToDo(n) ==
    /\ agent[n].pc = "claim" /\ Open(n) = {}
    /\ Poll(n)
    /\ UNCHANGED <<queue, packages, late, faults>>

\* The answer is lost: nobody knows of the claim.
ClaimFault(n) ==
    /\ agent[n].pc = "claim" /\ Fault
    /\ \/ \E c \in Candidate(n) : Record(c, "claimed")
       \/ UNCHANGED rows
    /\ Poll(n)
    /\ UNCHANGED <<ran, packages, late>>

\* executeAction; prepareUpdateAction, which reads the package first.
Succeeds(n) ==
    LET c == agent[n].cmd IN
    /\ agent[n].pc = "run"
    /\ rows[c].action = "update" => rows[c].package \in Stored
    /\ ran' = IF rows[c].action = "settings" THEN [ran EXCEPT ![c] = @ + 1] ELSE ran
    /\ Goto(n, "complete")
    /\ UNCHANGED <<rows, packages, late, faults>>

\* An action that fails may have taken effect: a timeout, a second setting.
Fails(n) ==
    LET c == agent[n].cmd IN
    /\ agent[n].pc = "run"
    /\ \/ UNCHANGED ran
       \/ rows[c].action = "settings" /\ ran' = [ran EXCEPT ![c] = @ + 1]
    /\ Goto(n, "fail")
    /\ UNCHANGED <<rows, packages, late, faults>>

\* complete(command, "completed"), then deferredAction.
Complete(n) ==
    /\ agent[n].pc = "complete"
    /\ Record(agent[n].cmd, "completed")
    /\ Goto(n, "defer")
    /\ UNCHANGED <<ran, packages, late, faults>>

Defer(n) ==
    LET c == agent[n].cmd IN
    /\ agent[n].pc = "defer"
    /\ ran' = IF rows[c].action = "settings" THEN ran ELSE [ran EXCEPT ![c] = @ + 1]
    /\ Poll(n)
    /\ UNCHANGED <<rows, packages, late, faults>>

\* execute's catch: complete(command, "failed").
Fail(n) ==
    /\ agent[n].pc = "fail"
    /\ Record(agent[n].cmd, "failed")
    /\ Poll(n)
    /\ UNCHANGED <<ran, packages, late, faults>>

\* The outcome is not written, written and not confirmed, or written later.
\* A completed command is then recorded as failed; a failed one is left.
Unconfirmed(c, status) ==
    \/ UNCHANGED <<rows, late>>
    \/ Record(c, status) /\ UNCHANGED late
    \/ late' = late \cup {[cmd |-> c, status |-> status]} /\ UNCHANGED rows

OutcomeFault(n) ==
    /\ Fault
    /\ \/ agent[n].pc = "complete" /\ Unconfirmed(agent[n].cmd, "completed") /\ Goto(n, "fail")
       \/ agent[n].pc = "fail" /\ Unconfirmed(agent[n].cmd, "failed") /\ Poll(n)
    /\ UNCHANGED <<ran, packages>>

WriteLate(m) ==
    /\ m \in late
    /\ Record(m.cmd, m.status)
    /\ late' = late \ {m}
    /\ UNCHANGED <<ran, packages, agent, faults>>

Start(n) ==
    /\ agent[n].pc = "down"
    /\ Poll(n)
    /\ UNCHANGED <<queue, packages, late, faults>>

Crash(n) ==
    /\ agent[n].pc # "down" /\ Fault
    /\ agent' = [agent EXCEPT ![n] = At("down", 0)]
    /\ UNCHANGED <<queue, packages, late>>

Works(n) ==
    \/ Sweep(n) \/ Claim(n) \/ NothingToDo(n) \/ Succeeds(n) \/ Fails(n)
    \/ Complete(n) \/ Defer(n) \/ Fail(n)

CommandsNext ==
    \/ \E u \in User : Enqueue(u) \/ Upload(u) \/ Prune(u) \/ QueueUpdate(u) \/ GiveUp(u)
    \/ \E c \in Row : Due(c)
    \/ \E n \in Node : \/ Works(n) \/ Start(n) \/ Crash(n)
                       \/ SweepFault(n) \/ ClaimFault(n) \/ OutcomeFault(n)
    \/ \E m \in late : WriteLate(m)

CommandsSpec == CommandsInit /\ [][CommandsNext]_commandVars
-----------------------------------------------------------------------------
Commands == [node : Node, action : Actions, package : 0 .. MaxUploads,
             status : Status, due : BOOLEAN]

CommandsTyped ==
    /\ rows \in Seq(Commands)
    /\ Len(rows) <= MaxRows
    /\ ran \in [Row -> 0 .. 2]
    /\ store \subseteq [id : 1 .. MaxUploads, sha : Sha]
    /\ uploads \in 0 .. MaxUploads
    /\ user \in [User -> [pc : {"idle", "prune", "queue"},
                          package : 0 .. MaxUploads, todo : SUBSET Node]]
    /\ agent \in [Node -> [pc : {"down", "sweep", "claim", "run", "complete",
                                 "defer", "fail"}, cmd : 0 .. MaxRows]]
    /\ late \subseteq [cmd : Row, status : {"completed", "failed"}]
    /\ faults \in 0 .. MaxFaults

\* A command takes effect at most once: a claim whose answer was lost or whose
\* node died is never taken up again.
AtMostOnce == \A c \in Row : ran[c] <= 1

\* What the table says of a command that nobody works on any more is true:
\* an expired or pending one never ran, a completed setting was made.
OutcomeIsTrue == \A c \in DOMAIN rows :
    /\ rows[c].status \in {"pending", "expired"} => ran[c] = 0
    /\ rows[c].status = "completed" /\ rows[c].action = "settings" => ran[c] = 1

\* A node takes its commands in the order they were requested.
InOrder == \A c, d \in DOMAIN rows :
    /\ c < d /\ rows[c].node = rows[d].node
    /\ rows[c].status = "pending" /\ ~rows[c].due
    => rows[d].status \in {"pending", "expired"}

\* The invariant of the queue: its types, and each command once and in order.
ServedOnceInOrder == CommandsTyped /\ AtMostOnce /\ InOrder

\* No upload takes a package away that an update waits for or works with.
NeededIsKept == [][\A id \in Stored : Needs(id) /\ Needs(id)' => id \in Stored']_commandVars

-----------------------------------------------------------------------------
(* A promise of the program's own text that the code breaks; the README     *)
(* says how.                                                                *)

\* An update that is queued finds its package: "Offline registered nodes keep
\* the command for up to 30 days and update when their agent returns."
PackageIsThere == \A c \in DOMAIN rows :
    rows[c].action = "update" /\ rows[c].status = "pending" => rows[c].package \in Stored

=============================================================================
