----------------------------- MODULE WorkQueue ------------------------------
(***************************************************************************)
(* The durable work queue (queue.py) and the worker runtime that leases    *)
(* from it (runtime.py, __main__.py).                                      *)
(*                                                                         *)
(* One row of work_items per dedupe key; a worker process claims a batch,  *)
(* runs one execution of _process per claimed row, each with a heartbeat   *)
(* task beside it, and settles the row when the handler returns.  A worker *)
(* dies or loses its database at any point and comes back under the same   *)
(* WORKER_ID.  What a handler does is not modelled here, only how it ends. *)
(*                                                                         *)
(* Time.  A lease is LeaseTicks heartbeat intervals long; ttl counts the   *)
(* intervals left.  While an execution beats, an interval passes only with *)
(* its heartbeat, unless a fault delays the heartbeat past it.             *)
(***************************************************************************)
EXTENDS Naturals, FiniteSets

CONSTANTS
    Items,           \* dedupe keys
    Workers,         \* worker processes, identified by WORKER_ID
    NoWorker,        \* lease_owner is null
    Concurrency,     \* WORKER_CONCURRENCY: the limit of one claim
    MaxAttempts,     \* max_attempts of every item
    LeaseTicks,      \* lease_seconds / heartbeat_seconds
    MaxFaults,       \* bound: delayed heartbeats, crashes and database errors
    Maintained       \* whether anything calls release_expired_leases and
                     \* cancel_for_build (the shipped processes never do)

ASSUME NullAssumption  == NoWorker \notin Workers
ASSUME LimitAssumption == Concurrency \in Nat \ {0} /\ MaxAttempts \in Nat \ {0}
\* validate_lease_config refuses a lease under three heartbeat intervals.
ASSUME LeaseAssumption == LeaseTicks \in Nat /\ LeaseTicks >= 3
ASSUME FaultAssumption == MaxFaults \in Nat /\ Maintained \in BOOLEAN

VARIABLES
    item,            \* item[i]: the row, or the record Absent
    run,             \* the executions of _process alive in some worker
    verdicts,        \* history: what the executions of i have said
    faults           \* faults spent

vars == <<item, run, verdicts, faults>>

Claimable == {"QUEUED", "RETRY_WAIT", "LEASED"}
Terminal  == {"DONE", "DEAD", "CANCELLED"}
Statuses  == {"NONE"} \cup Claimable \cup Terminal

Rows == [status : Statuses, owner : Workers \cup {NoWorker}, ttl : 0..LeaseTicks,
         attempts : Nat, due : BOOLEAN]

Absent == [status |-> "NONE", owner |-> NoWorker, ttl |-> 0, attempts |-> 0, due |-> FALSE]

(***************************************************************************)
(* An execution: the item and the attempt_count it claimed, how its        *)
(* handler ended, and its heartbeat task, which beats, was told the lease  *)
(* is gone, or died on a database error.  gather() in run_once does not    *)
(* cancel the siblings of an execution that raised: they go on as orphans  *)
(* nobody awaits.                                                          *)
(***************************************************************************)
Outcomes   == {"ok", "retry", "dead"}
Executions == [worker : Workers, item : Items, claim : Nat,
               phase : {"handling"} \cup Outcomes,
               beat : {"on", "lost", "died"}, orphan : BOOLEAN]

TypeOK ==
    /\ item \in [Items -> Rows]
    /\ run \subseteq Executions
    /\ verdicts \in [Items -> SUBSET {"started", "ok", "failed"}]
    /\ faults \in 0..MaxFaults

Init ==
    /\ item = [i \in Items |-> Absent]
    /\ run = {}
    /\ verdicts = [i \in Items |-> {}]
    /\ faults = 0

-----------------------------------------------------------------------------
(* Helpers *)

Fault == faults < MaxFaults /\ faults' = faults + 1

Owns(x) == item[x.item].status = "LEASED" /\ item[x.item].owner = x.worker

\* Variant of Idle: the loop claims while a batch is in flight.
IdleAlways(w) == w \in Workers

\* run_once awaits its whole batch before the loop claims again.
Idle(w) == \A x \in run : x.worker = w => x.orphan

Attended(i) == \E x \in run : x.item = i /\ x.beat = "on" /\ Owns(x)

\* Variant of Eligible: an expired lease is not claimable.
EligibleUnleased(i) ==
    item[i].status \in {"QUEUED", "RETRY_WAIT"} /\ item[i].due

Eligible(i) ==
    /\ item[i].status \in Claimable
    /\ item[i].due
    /\ item[i].status = "LEASED" => item[i].ttl = 0

\* Variant of Released: the lease is left on the row.
ReleasedOwned(row, status) == [row EXCEPT !.status = status]

Released(row, status) == [row EXCEPT !.status = status, !.owner = NoWorker, !.ttl = 0]

-----------------------------------------------------------------------------
(* queue.py *)

\* The insert; a second insert of the same dedupe key does nothing.
Enqueue(i) ==
    /\ item[i].status = "NONE"
    /\ \E due \in BOOLEAN : item' = [item EXCEPT ![i].status = "QUEUED", ![i].due = due]
    /\ UNCHANGED <<run, verdicts, faults>>

\* available_at passes.
BecomesDue(i) ==
    /\ item[i].status \in {"QUEUED", "RETRY_WAIT"} /\ ~item[i].due
    /\ item' = [item EXCEPT ![i].due = TRUE]
    /\ UNCHANGED <<run, verdicts, faults>>

\* Variant of Leased: the lease is one interval too long.
LeasedLong(row, w) ==
    [row EXCEPT !.status = "LEASED", !.owner = w, !.ttl = LeaseTicks + 1, !.attempts = @ + 1]

Leased(row, w) ==
    [row EXCEPT !.status = "LEASED", !.owner = w, !.ttl = LeaseTicks, !.attempts = @ + 1]

Execution(w, i) ==
    [worker |-> w, item |-> i, claim |-> item[i].attempts + 1,
     phase |-> "handling", beat |-> "on", orphan |-> FALSE]

\* One atomic UPDATE over rows it could lock: SKIP LOCKED makes any subset of
\* the eligible rows possible.  max_attempts plays no part in the claim.
Claim(w, S) ==
    /\ Idle(w)
    /\ S # {} /\ Cardinality(S) <= Concurrency
    /\ \A i \in S : Eligible(i)
    /\ item' = [i \in Items |-> IF i \in S THEN Leased(item[i], w) ELSE item[i]]
    /\ run' = run \cup {Execution(w, i) : i \in S}
    /\ verdicts' = [i \in Items |-> IF i \in S THEN verdicts[i] \cup {"started"}
                                               ELSE verdicts[i]]
    /\ UNCHANGED faults

\* An interval of a lease passes.  A beating execution owes a heartbeat per
\* interval, so a second interval passes only over a delayed heartbeat.
OwesBeat(i) == Attended(i) /\ item[i].ttl < LeaseTicks

Tick(i) ==
    /\ item[i].status = "LEASED" /\ item[i].ttl > 0
    /\ ~OwesBeat(i)
    /\ item' = [item EXCEPT ![i].ttl = @ - 1]
    /\ UNCHANGED <<run, verdicts, faults>>

MissedBeat(i) ==
    /\ item[i].status = "LEASED" /\ item[i].ttl > 0
    /\ OwesBeat(i) /\ Fault
    /\ item' = [item EXCEPT ![i].ttl = @ - 1]
    /\ UNCHANGED <<run, verdicts>>

HeartbeatExtends(x) == Owns(x) /\ item[x.item].ttl > 0

\* A refused heartbeat only sets the lost event: nothing stops the handler.
Heartbeat(x) ==
    /\ x.beat = "on" /\ x.phase = "handling"
    /\ IF HeartbeatExtends(x)
         THEN /\ item' = [item EXCEPT ![x.item].ttl = LeaseTicks]
              /\ UNCHANGED run
         ELSE /\ run' = (run \ {x}) \cup {[x EXCEPT !.beat = "lost"]}
              /\ UNCHANGED item
    /\ UNCHANGED <<verdicts, faults>>

\* Variant of Complete: the owner is not compared.
CompleteUnowned(x) == Released(item[x.item], "DONE")

\* complete does not look at the expiry of the lease.
Complete(x) == IF Owns(x) THEN Released(item[x.item], "DONE") ELSE item[x.item]

\* Variant of Fail: one retry too many.
FailLastChance(x, retryable) ==
    LET row == item[x.item]
    IN  CASE row.owner # x.worker -> row
          [] row.owner = x.worker /\ retryable /\ row.attempts <= MaxAttempts ->
               [Released(row, "RETRY_WAIT") EXCEPT !.due = FALSE]
          [] OTHER -> Released(row, "DEAD")

\* fail looks at the owner alone: a row has one only while it is LEASED.
Fail(x, retryable) ==
    LET row == item[x.item]
    IN  CASE row.owner # x.worker -> row
          [] row.owner = x.worker /\ retryable /\ row.attempts < MaxAttempts ->
               [Released(row, "RETRY_WAIT") EXCEPT !.due = FALSE]
          [] OTHER -> Released(row, "DEAD")

-----------------------------------------------------------------------------
(* runtime.py *)

\* Variant of Verdict: a failed handler falls through to complete.
RecordFailureAsDone(x) == IF x.phase = "retry" THEN Fail(x, TRUE) ELSE Complete(x)

Verdict(x) == IF x.phase = "ok" THEN Complete(x) ELSE Fail(x, x.phase = "retry")

HandlerReturns(x, outcome) ==
    /\ x.phase = "handling"
    /\ run' = (run \ {x}) \cup {[x EXCEPT !.phase = outcome]}
    /\ verdicts' = [verdicts EXCEPT ![x.item] =
                      @ \cup {IF outcome = "ok" THEN "ok" ELSE "failed"}]
    /\ UNCHANGED <<item, faults>>

\* The end of _process: a lost lease drops the verdict, otherwise it is
\* recorded; complete and fail silently give up when the row is not theirs.
Settle(x) ==
    /\ x.phase # "handling" /\ x.beat # "died"
    /\ item' = IF x.beat = "lost" THEN item ELSE [item EXCEPT ![x.item] = Verdict(x)]
    /\ run' = run \ {x}
    /\ UNCHANGED <<verdicts, faults>>

\* The heartbeat's transaction fails; the error stays in the task until
\* _process awaits it.
HeartbeatDies(x) ==
    /\ x.beat = "on" /\ x.phase = "handling"
    /\ Fault
    /\ run' = (run \ {x}) \cup {[x EXCEPT !.beat = "died"]}
    /\ UNCHANGED <<item, verdicts>>

\* _process raises out of gather: the siblings are orphaned and the main loop
\* is free to claim again.
Raised(x) == {IF y.worker = x.worker THEN [y EXCEPT !.orphan = TRUE] ELSE y : y \in run \ {x}}

RaiseDeadBeat(x) ==
    /\ x.phase # "handling" /\ x.beat = "died"
    /\ run' = IF x.orphan THEN run \ {x} ELSE Raised(x)
    /\ UNCHANGED <<item, verdicts, faults>>

\* The settling transaction fails, or commits and its answer is lost.
SettleRaises(x) ==
    /\ x.phase # "handling" /\ x.beat = "on"
    /\ Fault
    /\ item' \in {item, [item EXCEPT ![x.item] = Verdict(x)]}
    /\ run' = IF x.orphan THEN run \ {x} ELSE Raised(x)
    /\ UNCHANGED verdicts

\* The process dies, by signal or by giving up on the database.
Crash(w) ==
    /\ \E x \in run : x.worker = w
    /\ Fault
    /\ run' = {x \in run : x.worker # w}
    /\ UNCHANGED <<item, verdicts>>

-----------------------------------------------------------------------------
(* Maintenance entry points of the queue *)

ReleaseExpiredLeases ==
    LET expired == {i \in Items : item[i].status = "LEASED" /\ item[i].ttl = 0}
    IN  /\ Maintained /\ expired # {}
        /\ item' = [i \in Items |->
             IF i \in expired
               THEN Released(item[i], IF item[i].attempts >= MaxAttempts THEN "DEAD" ELSE "QUEUED")
               ELSE item[i]]
        /\ UNCHANGED <<run, verdicts, faults>>

\* The items of one build, those waiting at least.
CancelForBuild(S) ==
    /\ Maintained /\ S # {}
    /\ \A i \in S : item[i].status \in {"QUEUED", "RETRY_WAIT"}
    /\ item' = [i \in Items |-> IF i \in S THEN Released(item[i], "CANCELLED") ELSE item[i]]
    /\ UNCHANGED <<run, verdicts, faults>>

-----------------------------------------------------------------------------
Next ==
    \/ \E i \in Items : Enqueue(i) \/ BecomesDue(i) \/ Tick(i) \/ MissedBeat(i)
    \/ \E w \in Workers, S \in SUBSET Items : Claim(w, S)
    \/ \E x \in run : Heartbeat(x) \/ Settle(x) \/ HeartbeatDies(x)
                        \/ RaiseDeadBeat(x) \/ SettleRaises(x)
    \/ \E x \in run, outcome \in Outcomes : HandlerReturns(x, outcome)
    \/ \E w \in Workers : Crash(w)
    \/ ReleaseExpiredLeases
    \/ \E S \in SUBSET Items : CancelForBuild(S)

Spec == Init /\ [][Next]_vars

(***************************************************************************)
(* Fairness: time passes; some worker keeps looping, so an eligible item   *)
(* is claimed while anyone is idle; handlers return and what they returned *)
(* is recorded; heartbeats are attempted.  Nothing forces a fault.         *)
(***************************************************************************)
Fairness ==
    /\ \A i \in Items : WF_vars(BecomesDue(i)) /\ WF_vars(Tick(i))
    /\ WF_vars(\E w \in Workers, S \in SUBSET Items : Claim(w, S))
    /\ WF_vars(\E x \in run, outcome \in Outcomes : HandlerReturns(x, outcome))
    /\ WF_vars(\E x \in run : Settle(x) \/ RaiseDeadBeat(x))

FairSpec == Spec /\ Fairness

-----------------------------------------------------------------------------
(* Properties *)

\* A lease has an owner and an expiry exactly while the row is LEASED, so fail,
\* which matches the owner alone, cannot reopen a row that is already settled
\* (queue.py fail, complete, release_expired_leases).
OwnerIffLeased ==
    \A i \in Items : (item[i].owner # NoWorker) <=> (item[i].status = "LEASED")

\* Of the executions a worker still awaits, only the one of the latest claim can
\* settle the row it owns: claiming again while an older execution of the same
\* owner is awaited would let the older one settle the newer claim, since both
\* present the same lease_owner (runtime.py run_once, _process).  An orphan, which nobody
\* awaits, can: the code does not prevent it, and ImplementsBoard says what is left.
LatestClaimSettles ==
    \A x \in run : Owns(x) /\ ~x.orphan => x.claim = item[x.item].attempts

\* A row that waits has budget left, whichever of fail, enqueue and
\* release_expired_leases put it there: the claim itself never checks it.
WaitingHasBudget ==
    \A i \in Items : item[i].status \in {"QUEUED", "RETRY_WAIT"} => item[i].attempts < MaxAttempts

\* WORK_ITEM_TRANSITIONS, which no SQL statement of the queue consults.
Transitions ==
    ({"QUEUED"} \X {"LEASED", "CANCELLED"})
    \cup ({"LEASED"} \X {"DONE", "RETRY_WAIT", "DEAD", "QUEUED", "CANCELLED"})
    \cup ({"RETRY_WAIT"} \X {"LEASED", "DEAD", "CANCELLED"})

LegalMove ==
    \A i \in Items : item'[i].status # item[i].status =>
        \/ item[i].status = "NONE" /\ item'[i].status = "QUEUED"
        \/ <<item[i].status, item'[i].status>> \in Transitions

\* Every statement moves a row along the work-item table of the state machine,
\* re-leasing an expired lease apart; settled rows never move again.
LegalMoves == [][LegalMove]_vars

ExcessIsReclaim ==
    \A i \in Items :
        item'[i].attempts > item[i].attempts /\ item'[i].attempts > MaxAttempts
            => item[i].status = "LEASED" /\ item[i].ttl = 0

\* A claim that exceeds max_attempts only ever re-takes an expired lease: fail
\* never returns an exhausted item to the queue.
ExcessOnlyByReclaim == [][ExcessIsReclaim]_vars

\* The queue implements the job board: at least once, done only on the word of a
\* handler that returned, closed for good.
BoardOf(status) ==
    CASE status = "NONE" -> "absent"
      [] status \in Claimable -> "open"
      [] status = "DONE" -> "done"
      [] status = "DEAD" -> "dead"
      [] OTHER -> "cancelled"

Board == INSTANCE JobBoard WITH
    Jobs <- Items, board <- [i \in Items |-> BoardOf(item[i].status)], verdicts <- verdicts

ImplementsBoard == Board!BoardSpec

\* Every job that was posted is settled: crashed leases expire and are re-taken,
\* retries are bounded, an execution that lost its lease leaves the row to
\* another one.
EverySettled ==
    \A i \in Items : item[i].status = "QUEUED" ~> item[i].status \in Terminal

\* "The caller must stop work rather than continue and risk two workers
\* finishing the same job" (queue.py heartbeat): an execution that was told its
\* lease is gone does not finish the job another execution also finished.
LoserStops ==
    \A x, y \in run :
        x.item = y.item /\ x # y /\ x.beat = "lost" => ~(x.phase = "ok" /\ y.phase = "ok")

=============================================================================
