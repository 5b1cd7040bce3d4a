----------------------------- MODULE BuildStore -----------------------------
(***************************************************************************)
(* One build in PostgreSQL, as the node handlers of the worker see it: the *)
(* build row, its nodes, their attempts, the work items that execute them, *)
(* and the executions of those items.  The handlers (SyncNode, LocalNode)  *)
(* and BuildExecution, which composes them, extend this module.            *)
(*                                                                         *)
(* Every transaction that changes a node takes the row locks of the node   *)
(* and of the build before it reads them, so a transaction is one action;  *)
(* what a handler does between two transactions (a provider call, a        *)
(* composition, storage) is a program counter.  The work queue is reduced  *)
(* to what JobBoard promises: an open job is executed at least once,       *)
(* possibly by overlapping executions, until it is closed.                 *)
(***************************************************************************)
EXTENDS RecoveryLadder

CONSTANTS
    Nodes,           \* build nodes
    Edges,           \* Edges: pairs <<predecessor, node>>
    Kind,            \* Kind[n]: the handler _execute_build_node picks for n
    Policy,          \* Policy[n]: its provider policy, for the nodes of GMI Cloud
    Models,          \* the models of the policies
    Reuses,          \* the sets of nodes a commit may reuse
    Slots,           \* handler executions that can be in flight together
    MaxRetakes,      \* bound: retake decisions per node
    MaxFaults,       \* bound: faults
    FaultKinds       \* which faults happen: see Fault

SyncKinds  == {"copy", "plan", "narration", "music"}
LocalKinds == {"source", "image", "end_card", "delivery"}
Gmi        == {n \in Nodes : Kind[n] = "gmi"}
AllFaults  == {"lapse", "crash", "settle", "storage", "database", "late"}

ASSUME GraphAssumption ==
    /\ Edges \subseteq Nodes \X Nodes
    /\ Kind \in [Nodes -> SyncKinds \cup LocalKinds \cup {"gmi"}]
    /\ Reuses \subseteq SUBSET Nodes
\* A source feeds some node: no node of the template is an orphan (assert_reaches).
ASSUME SourceAssumption ==
    \A n \in Nodes : Kind[n] = "source" => \E m \in Nodes : <<n, m>> \in Edges
\* A worker does not start without the name of the fallback model of the one
\* policy that has another provider (gmi_gateway.py, from_env).
ASSUME PolicyAssumption ==
    /\ Policy \in [Gmi -> Policies(Models)]
    /\ \A n \in Gmi :
         Policy[n].providers # <<>> => Others(Policy[n], Head(Policy[n].providers)) # {}
\* changes.py reuses a node only when everything it was made from is reused.
ASSUME ReuseAssumption ==
    \A R \in Reuses, e \in Edges : e[2] \in R => e[1] \in R
ASSUME BoundAssumption ==
    MaxRetakes \in Nat /\ MaxFaults \in Nat /\ FaultKinds \subseteq AllFaults

VARIABLES
    build,           \* builds.status
    node,            \* node[n]: build_nodes.status
    attempts,        \* attempts[n]: the statuses of the attempts of n
    selected,        \* selected[n]: selected_attempt_id, 0 when null
    open,            \* the work items that are not settled
    ex,              \* ex[s]: the handler execution in slot s
    ladder,          \* ladder[n]: what the recovery ladder reads of the attempts
                     \* of n, and whether the latest has used up the time
    retakes,         \* retakes[n]: the RETAKE approvals recorded for n
    calls,           \* history: requests the synchronous handlers made for n
    faults           \* faults spent

rows == <<build, node, attempts, selected>>
vars == <<build, node, attempts, selected, open, ex, retakes, ladder, calls, faults>>

BuildStatuses == {"QUEUED", "RUNNING", "WAITING_REVIEW", "SUCCEEDED", "FAILED"}
NodeStatuses  == {"PENDING", "QUEUED", "RUNNING", "WAITING_REVIEW", "RETAKE_PENDING",
                  "RETRY_PENDING", "FALLBACK_PENDING", "PASSED", "REUSED", "FAILED"}
Satisfying    == {"PASSED", "REUSED"}

\* SUBMITTED, POLLING and STORED are entered and left within one transaction.
AttemptStatuses == {"SUBMITTING", "FETCHING", "SUCCEEDED", "FAILED"}
Live            == {"SUBMITTING", "FETCHING"}

\* A job is a dedupe key: why the node was queued, and for the how-manieth time.
JobIds == Nodes \X {"ready", "retake", "recovery"} \X Nat
Ready(n) == <<n, "ready", 0>>
Retake(n, k) == <<n, "retake", k>>
Recover(n, a) == <<n, "recovery", a>>

(***************************************************************************)
(* An execution past its prepare transaction: it calls its provider (or    *)
(* composes locally), then stores and finalizes attempt att of its node;   *)
(* skipping: it composes for an attempt that was FETCHING already.         *)
(* held: the queue still thinks the lease is this execution's.             *)
(***************************************************************************)
Idle == [pc |-> "idle", job |-> <<>>, att |-> 0, held |-> FALSE]
Executing == [pc : {"calling", "skipping", "storing"}, job : JobIds, att : Nat \ {0}, held : BOOLEAN]

TypeOK ==
    /\ build \in BuildStatuses
    /\ node \in [Nodes -> NodeStatuses]
    /\ attempts \in [Nodes -> Seq(AttemptStatuses)]
    /\ selected \in [Nodes -> Nat]
    /\ open \subseteq JobIds
    /\ ex \in [Slots -> Executing \cup {Idle}]
    /\ retakes \in [Nodes -> 0..MaxRetakes]
    /\ ladder \in [Nodes -> [steps : Seq(Steps(Models)), late : BOOLEAN]]
    /\ calls \in [Nodes -> Nat]
    /\ faults \in 0..MaxFaults

-----------------------------------------------------------------------------
(* The graph *)

Preds(n) == {e[1] : e \in {d \in Edges : d[2] = n}}

Unblocked(st) ==
    {n \in Nodes : st[n] = "PENDING" /\ \A m \in Preds(n) : st[m] \in Satisfying}

Complete(st) == \A n \in Nodes : st[n] \in Satisfying

\* Variant of Queued: the readiness queries do not see the flushed rows.
QueuedUnflushed(st) ==
    [n \in Nodes |-> IF n \in Unblocked(node) THEN "QUEUED" ELSE st[n]]

\* Every pending node of the build whose predecessors are satisfied is queued,
\* whatever the status of the build.
Queued(st) == [n \in Nodes |-> IF n \in Unblocked(st) THEN "QUEUED" ELSE st[n]]

-----------------------------------------------------------------------------
(* The commit of a change, or of a first build: what can be reused is, and the *)
(* nodes that are ready are queued with a work item each.                      *)

Committed(R) ==
    [n \in Nodes |-> CASE n \in R -> "REUSED"
                       [] n \notin R /\ Preds(n) \subseteq R -> "QUEUED"
                       [] OTHER -> "PENDING"]

Init ==
    /\ build = "QUEUED"
    /\ \E R \in Reuses :
         /\ node = Committed(R)
         /\ open = {Ready(n) : n \in {m \in Nodes : Committed(R)[m] = "QUEUED"}}
    /\ attempts = [n \in Nodes |-> <<>>]
    /\ selected = [n \in Nodes |-> 0]
    /\ ex = [s \in Slots |-> Idle]
    /\ retakes = [n \in Nodes |-> 0]
    /\ ladder = [n \in Nodes |-> [steps |-> <<>>, late |-> FALSE]]
    /\ calls = [n \in Nodes |-> 0]
    /\ faults = 0

-----------------------------------------------------------------------------
(* Executions and jobs *)

(***************************************************************************)
(* Faults: a lease lapses under a running execution; a worker process      *)
(* dies; the transaction that settles the item is lost; storage fails      *)
(* (retried, until the item's attempts are used up); the database fails    *)
(* (the item is dead at once).                                             *)
(***************************************************************************)
Fault(kind) == kind \in FaultKinds /\ faults < MaxFaults /\ faults' = faults + 1

\* Variant of AttemptNo: numbered from zero.
AttemptNoFromZero(n) == Len(attempts[n])

AttemptNo(n) == Len(attempts[n]) + 1
Latest(n) == IF attempts[n] = <<>> THEN "NONE" ELSE attempts[n][Len(attempts[n])]

NodeOf(s) == ex[s].job[1]
Row(s) == attempts[NodeOf(s)][ex[s].att]

Claimable(j) == j \in open /\ \A s \in Slots : ex[s].job = j => ~ex[s].held

\* The handler of job j returned or raised for good, posting jobs on the way; an
\* execution that lost its lease is not heard, unless it bears the same owner.
Settle(j, held, posts) ==
    \/ open' = (open \cup posts) \ {j} /\ UNCHANGED faults
    \/ ~held /\ open' = open \cup posts /\ UNCHANGED faults
    \/ open' = open \cup posts /\ Fault("settle")

Leave(s, posts) ==
    /\ Settle(ex[s].job, ex[s].held, posts)
    /\ ex' = [ex EXCEPT ![s] = Idle]

Enter(s, j, pc, a) ==
    /\ Claimable(j) /\ ex[s] = Idle
    /\ ex' = [ex EXCEPT ![s] = [pc |-> pc, job |-> j, att |-> a, held |-> TRUE]]
    /\ UNCHANGED <<open, faults>>

\* A transaction that raised leaves no trace; the item is dead.
RollBack(s) == Leave(s, {}) /\ UNCHANGED rows

-----------------------------------------------------------------------------
(* Transitions several handlers share *)

\* The build statuses from which the handler of n submits.
Runnable(n) ==
    CASE Kind[n] = "narration" -> {"RUNNING"}
      [] Kind[n] \in {"end_card", "delivery"} -> BuildStatuses
      [] OTHER -> {"QUEUED", "RUNNING"}

\* The handlers of the end card and of the narration do not start the build.
Started(n) ==
    IF build = "QUEUED" /\ Kind[n] \notin {"end_card", "narration"} THEN "RUNNING" ELSE build

\* Variant of Fresh: neither the node nor its attempts are looked at.
FreshUnchecked(n) == build \in Runnable(n)

Fresh(n) == attempts[n] = <<>> /\ node[n] = "QUEUED" /\ build \in Runnable(n)

Mark(n, a, status) == attempts' = [attempts EXCEPT ![n][a] = status]

\* schedule_ready_nodes, after a node of status st was flushed: it raises when
\* the set completes a build that is not RUNNING.
Schedulable(st, b) == Complete(Queued(st)) => b = "RUNNING"

\* Variant of Schedule: nobody looks whether that was the last node.
ScheduleOnly(st, b) == node' = Queued(st) /\ build' = b

Schedule(st, b) ==
    /\ node' = Queued(st)
    /\ build' = IF Complete(Queued(st)) THEN "SUCCEEDED" ELSE b

Posts(st) == {Ready(n) : n \in Unblocked(st)}

PassedBy(s) == [node EXCEPT ![NodeOf(s)] = "PASSED"]

\* Variant of Landable: the row that is locked is not looked at again.
LandableBlind(s) == Schedulable(PassedBy(s), build)

Landable(s) ==
    /\ Row(s) = "FETCHING" /\ node[NodeOf(s)] = "RUNNING"
    /\ Schedulable(PassedBy(s), build)

\* The attempt is stored and succeeds, the node passes, its dependents are
\* queued: one transaction.
Land(s) ==
    /\ Mark(NodeOf(s), ex[s].att, "SUCCEEDED")
    /\ selected' = [selected EXCEPT ![NodeOf(s)] = ex[s].att]
    /\ Schedule(PassedBy(s), build)
    /\ Leave(s, Posts(PassedBy(s)))

-----------------------------------------------------------------------------
(* What can happen to any execution *)

Lapse(s) ==
    /\ ex[s].held /\ Fault("lapse")
    /\ ex' = [ex EXCEPT ![s].held = FALSE]
    /\ UNCHANGED <<rows, open, retakes, ladder, calls>>

\* A process dies with all it was executing.
Crash(S) ==
    /\ S # {} /\ \A s \in S : ex[s] # Idle
    /\ Fault("crash")
    /\ ex' = [s \in Slots |-> IF s \in S THEN Idle ELSE ex[s]]
    /\ UNCHANGED <<rows, open, retakes, ladder, calls>>

\* Storage or the database fails under an execution, between its transactions
\* or rolling one back: storage errors leave the item to a retry while its
\* attempts last, the others kill it.
Raises(s) ==
    /\ ex[s] # Idle
    /\ \/ Fault("storage") /\ open' \in {open, open \ {ex[s].job}}
       \/ Fault("database") /\ open' = open \ {ex[s].job}
    /\ ex' = [ex EXCEPT ![s] = Idle]
    /\ UNCHANGED <<rows, retakes, ladder, calls>>

\* The same before the execution has prepared anything.
Abandon(j) ==
    /\ Claimable(j)
    /\ Fault("storage") \/ Fault("database")
    /\ open' = open \ {j}
    /\ UNCHANGED <<rows, ex, retakes, ladder, calls>>

=============================================================================
