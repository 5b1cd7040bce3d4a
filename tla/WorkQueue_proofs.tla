-------------------------- MODULE WorkQueue_proofs --------------------------
(***************************************************************************)
(* Theorems about WorkQueue, for every set of items and workers, every     *)
(* concurrency, retry budget and lease length, with or without the         *)
(* maintenance entry points.                                               *)
(***************************************************************************)
EXTENDS WorkQueue, TLAPS

\* What ties the executions to the rows and to what they have said so far.
History ==
    /\ \A i \in Items :
         /\ item[i].status = "NONE" => item[i].attempts = 0
         /\ item[i].status = "LEASED" => "started" \in verdicts[i]
    /\ \A x \in run :
         /\ item[x.item].status # "NONE"
         /\ "started" \in verdicts[x.item]
         /\ x.phase = "ok" => "ok" \in verdicts[x.item]

IInv == TypeOK /\ OwnerIffLeased /\ WaitingHasBudget /\ LatestClaimSettles /\ History

-----------------------------------------------------------------------------
(* Rows *)

\* Releasing a row keeps it a row, without an owner.
LEMMA ReleasedRow ==
    ASSUME NEW row \in Rows, NEW status \in Statuses
    PROVE  /\ Released(row, status) \in Rows
           /\ Released(row, status).status = status
           /\ Released(row, status).owner = NoWorker
           /\ Released(row, status).attempts = row.attempts
  <1>1. 0 \in 0..LeaseTicks
    BY LeaseAssumption
  <1>2. Released(row, status) \in Rows
    BY <1>1, Zenon DEF Released, Rows
  <1>3. Released(row, status).status = status
    BY DEF Released, Rows
  <1>4. Released(row, status).owner = NoWorker
    BY DEF Released, Rows
  <1>5. Released(row, status).attempts = row.attempts
    BY DEF Released, Rows
  <1> QED
    BY <1>2, <1>3, <1>4, <1>5

\* What a verdict writes: nothing, or a closed row on the right word, or a row
\* that waits with budget left.
LEMMA VerdictRow ==
    ASSUME TypeOK, OwnerIffLeased, NEW x \in run, x.phase # "handling"
    PROVE  LET row == item[x.item] new == Verdict(x)
           IN  /\ new \in Rows
               /\ new.attempts = row.attempts
               /\ \/ new = row
                  \/ /\ row.status = "LEASED" /\ row.owner = x.worker
                     /\ new.owner = NoWorker
                     /\ \/ new.status = "DONE" /\ x.phase = "ok"
                        \/ new.status = "DEAD" /\ x.phase # "ok"
                        \/ new.status = "RETRY_WAIT" /\ new.attempts < MaxAttempts
  <1> DEFINE row == item[x.item]
  <1>1. x.item \in Items /\ x.worker \in Workers /\ row \in Rows /\ x.worker # NoWorker
    BY NullAssumption DEF TypeOK, Executions
  <1>2. CASE x.phase = "ok"
    <2>1. Verdict(x) = IF Owns(x) THEN Released(row, "DONE") ELSE row
      BY <1>2 DEF Verdict, Complete
    <2>2. "DONE" \in Statuses
      BY DEF Statuses, Terminal
    <2> QED
      BY <1>1, <1>2, <2>1, <2>2, ReleasedRow DEF Owns
  <1>3. CASE x.phase # "ok"
    <2> DEFINE retry == x.phase = "retry" /\ row.attempts < MaxAttempts
               dead == Released(row, "DEAD")
               wait == [Released(row, "RETRY_WAIT") EXCEPT !.due = FALSE]
    <2>1. Verdict(x) = IF row.owner # x.worker THEN row ELSE IF retry THEN wait ELSE dead
      BY <1>3 DEF Verdict, Fail
    <2>2. /\ dead \in Rows /\ dead.status = "DEAD"
          /\ dead.owner = NoWorker /\ dead.attempts = row.attempts
      BY <1>1, ReleasedRow DEF Statuses, Terminal
    <2>3. /\ wait \in Rows /\ wait.status = "RETRY_WAIT"
          /\ wait.owner = NoWorker /\ wait.attempts = row.attempts
      <3> DEFINE released == Released(row, "RETRY_WAIT")
      <3>1. /\ released \in Rows /\ released.status = "RETRY_WAIT"
            /\ released.owner = NoWorker /\ released.attempts = row.attempts
        BY <1>1, ReleasedRow DEF Statuses, Claimable
      <3>2. wait = [released EXCEPT !.due = FALSE]
        OBVIOUS
      <3> HIDE DEF released, wait
      <3>3. wait \in Rows
        BY <3>1, <3>2, Zenon DEF Rows
      <3>4. /\ wait.status = "RETRY_WAIT" /\ wait.owner = NoWorker
            /\ wait.attempts = row.attempts
        BY <3>1, <3>2 DEF Rows
      <3> QED
        BY <3>3, <3>4
    <2>4. row.owner = x.worker => row.status = "LEASED"
      BY <1>1 DEF OwnerIffLeased
    <2> HIDE DEF wait, dead
    <2> QED
      BY <1>1, <1>3, <2>1, <2>2, <2>3, <2>4
  <1> QED
    BY <1>2, <1>3

-----------------------------------------------------------------------------
(* The inductive invariant *)

\* Nothing is queued at first.
LEMMA InitInv == Init => IInv
  <1> SUFFICES ASSUME Init PROVE IInv
    OBVIOUS
  <1>1. Absent \in Rows
    <2>1. 0 \in 0..LeaseTicks
      BY LeaseAssumption
    <2> QED
      BY <2>1, Zenon DEF Absent, Rows, Statuses
  <1>2. TypeOK
    BY <1>1, FaultAssumption DEF Init, TypeOK
  <1>3. OwnerIffLeased /\ WaitingHasBudget /\ LatestClaimSettles /\ History
    BY DEF Init, Absent, OwnerIffLeased, WaitingHasBudget, LatestClaimSettles, History
  <1> QED
    BY <1>2, <1>3 DEF IInv

(***************************************************************************)
(* Every step but a claim is quiet: a row keeps its status and owner or    *)
(* loses its owner, and the executions after the step are executions that  *)
(* were there before it.                                                   *)
(***************************************************************************)
RowKept(j) ==
    /\ item'[j].status = item[j].status
    /\ item'[j].owner = item[j].owner
    /\ item'[j].attempts = item[j].attempts

RowFreed(j) ==
    /\ item'[j].status \in Terminal \cup {"QUEUED", "RETRY_WAIT"}
    /\ item'[j].owner = NoWorker
    /\ item'[j].attempts = item[j].attempts
    /\ item'[j].status \in {"QUEUED", "RETRY_WAIT"} => item[j].attempts < MaxAttempts

Descends(x) ==
    \E y \in run :
        /\ x.worker = y.worker /\ x.item = y.item /\ x.claim = y.claim
        /\ y.orphan => x.orphan
        /\ x.phase = "ok" => "ok" \in verdicts'[x.item]

\* A step that keeps or frees each row, and starts no execution, keeps the invariant.
LEMMA QuietStep ==
    ASSUME IInv, TypeOK',
           \A j \in Items : RowKept(j) \/ RowFreed(j),
           \A x \in run' : Descends(x),
           \A j \in Items : verdicts[j] \subseteq verdicts'[j]
    PROVE  IInv'
  <1>1. OwnerIffLeased'
    BY DEF IInv, OwnerIffLeased, RowKept, RowFreed, Terminal
  <1>2. WaitingHasBudget'
    BY DEF IInv, WaitingHasBudget, RowKept, RowFreed, Terminal
  <1>3. LatestClaimSettles'
    <2> SUFFICES ASSUME NEW x \in run', Owns(x)', ~x.orphan
                 PROVE  x.claim = item'[x.item].attempts
      BY DEF LatestClaimSettles
    <2>1. PICK y \in run : /\ x.worker = y.worker /\ x.item = y.item /\ x.claim = y.claim
                           /\ y.orphan => x.orphan
      BY DEF Descends
    <2>2. x.item \in Items
      BY DEF TypeOK, Executions
    <2>3. RowKept(x.item)
      BY <2>2 DEF Owns, RowFreed, Terminal
    <2>4. Owns(y)
      BY <2>1, <2>3 DEF Owns, RowKept
    <2> QED
      BY <2>1, <2>3, <2>4 DEF IInv, LatestClaimSettles, RowKept
  <1>4. History'
    <2>1. ASSUME NEW j \in Items
          PROVE  /\ item'[j].status = "NONE" => item'[j].attempts = 0
                 /\ item'[j].status = "LEASED" => "started" \in verdicts'[j]
      BY DEF IInv, History, RowKept, RowFreed, Terminal
    <2>2. ASSUME NEW x \in run'
          PROVE  /\ item'[x.item].status # "NONE"
                 /\ "started" \in verdicts'[x.item]
                 /\ x.phase = "ok" => "ok" \in verdicts'[x.item]
      <3>1. PICK y \in run : x.item = y.item
        BY DEF Descends
      <3>2. x.item \in Items
        BY DEF TypeOK, Executions
      <3>3. x.phase = "ok" => "ok" \in verdicts'[x.item]
        BY DEF Descends
      <3> QED
        BY <3>1, <3>2, <3>3 DEF IInv, History, RowKept, RowFreed, Terminal
    <2> QED
      BY <2>1, <2>2 DEF History
  <1> QED
    BY <1>1, <1>2, <1>3, <1>4 DEF IInv

\* An execution that survives a step unchanged descends from itself.
LEMMA SurvivorDescends ==
    ASSUME IInv, NEW x \in run, \A j \in Items : verdicts[j] \subseteq verdicts'[j]
    PROVE  Descends(x)
  <1>1. x.item \in Items
    BY DEF IInv, TypeOK, Executions
  <1>2. x.phase = "ok" => "ok" \in verdicts'[x.item]
    BY <1>1 DEF IInv, History
  <1> QED
    BY <1>2 DEF Descends

\* An item is enqueued.
LEMMA EnqueueInv == ASSUME IInv, NEW i \in Items, Enqueue(i) PROVE IInv'
  <1>1. PICK due \in BOOLEAN : item' = [item EXCEPT ![i].status = "QUEUED", ![i].due = due]
    BY DEF Enqueue
  <1>2. item \in [Items -> Rows]
    BY DEF IInv, TypeOK
  <1>3. /\ item'[i] = [item[i] EXCEPT !.status = "QUEUED", !.due = due]
        /\ \A j \in Items \ {i} : item'[j] = item[j]
    BY <1>1, <1>2
  <1>4. [item[i] EXCEPT !.status = "QUEUED", !.due = due] \in Rows
    BY <1>2, Zenon DEF Rows, Statuses, Claimable
  <1>5. item' \in [Items -> Rows]
    BY <1>1, <1>2, <1>3, <1>4
  <1>6. TypeOK'
    BY <1>5 DEF Enqueue, IInv, TypeOK
  <1>7. RowFreed(i)
    <2>1. item[i].status = "NONE" /\ item[i].attempts = 0 /\ item[i].owner = NoWorker
      BY <1>2 DEF Enqueue, IInv, History, OwnerIffLeased
    <2>2. item'[i].status = "QUEUED" /\ item'[i].owner = NoWorker /\ item'[i].attempts = 0
      BY <1>2, <1>3, <2>1 DEF Rows
    <2> QED
      BY <2>1, <2>2, LimitAssumption DEF RowFreed
  <1>8. \A j \in Items : RowKept(j) \/ RowFreed(j)
    BY <1>3, <1>7 DEF RowKept
  <1>9. \A x \in run' : Descends(x)
    BY SurvivorDescends DEF Enqueue
  <1> QED
    BY <1>6, <1>8, <1>9, QuietStep DEF Enqueue

\* Time passing on a row: due and ttl are nobody's concern but the claim's.
LEMMA ClockInv ==
    ASSUME IInv, NEW i \in Items,
           item'[i] \in Rows, item' = [item EXCEPT ![i] = item'[i]], RowKept(i),
           UNCHANGED <<run, verdicts>>, faults' \in 0..MaxFaults
    PROVE  IInv'
  <1>1. TypeOK'
    BY DEF IInv, TypeOK
  <1>2. \A j \in Items : RowKept(j) \/ RowFreed(j)
    BY DEF IInv, TypeOK, RowKept
  <1>3. \A x \in run' : Descends(x)
    BY SurvivorDescends
  <1> QED
    BY <1>1, <1>2, <1>3, QuietStep

\* A fault is counted within its bound.
LEMMA FaultCount == ASSUME TypeOK, Fault PROVE faults' \in 0..MaxFaults
  BY FaultAssumption DEF TypeOK, Fault

\* The delay of an item that waits is over.
LEMMA BecomesDueInv == ASSUME IInv, NEW i \in Items, BecomesDue(i) PROVE IInv'
  <1>1. item \in [Items -> Rows]
    BY DEF IInv, TypeOK
  <1>2. item' = [item EXCEPT ![i] = [item[i] EXCEPT !.due = TRUE]]
    BY <1>1 DEF BecomesDue
  <1>3. item'[i] = [item[i] EXCEPT !.due = TRUE]
    BY <1>1, <1>2
  <1>4. item'[i] \in Rows
    BY <1>1, <1>3, Zenon DEF Rows
  <1>5. RowKept(i)
    BY <1>1, <1>3 DEF RowKept, Rows
  <1> QED
    BY <1>2, <1>3, <1>4, <1>5, ClockInv DEF BecomesDue, IInv, TypeOK

\* A lease runs down, with or without a beat that was missed.
LEMMA TickInv == ASSUME IInv, NEW i \in Items, Tick(i) \/ MissedBeat(i) PROVE IInv'
  <1>1. item \in [Items -> Rows]
    BY DEF IInv, TypeOK
  <1>2. item' = [item EXCEPT ![i] = [item[i] EXCEPT !.ttl = item[i].ttl - 1]]
    BY <1>1 DEF Tick, MissedBeat
  <1>3. item'[i] = [item[i] EXCEPT !.ttl = item[i].ttl - 1]
    BY <1>1, <1>2
  <1>4. item'[i] \in Rows
    <2>1. item[i].ttl - 1 \in 0..LeaseTicks
      BY <1>1, LeaseAssumption DEF Rows, Tick, MissedBeat
    <2> QED
      BY <1>1, <1>3, <2>1, Zenon DEF Rows
  <1>5. RowKept(i)
    BY <1>1, <1>3 DEF RowKept, Rows
  <1>6. faults' \in 0..MaxFaults
    BY FaultCount DEF Tick, MissedBeat, IInv, TypeOK
  <1> QED
    BY <1>2, <1>3, <1>4, <1>5, <1>6, ClockInv DEF Tick, MissedBeat

\* One execution is replaced by itself with another heartbeat or outcome.
LEMMA ReplacedRun ==
    ASSUME IInv, NEW x \in run, NEW y \in Executions,
           y.worker = x.worker, y.item = x.item, y.claim = x.claim, y.orphan = x.orphan,
           run' = (run \ {x}) \cup {y}, item' = item, faults' \in 0..MaxFaults,
           verdicts' \in [Items -> SUBSET {"started", "ok", "failed"}],
           \A j \in Items : verdicts[j] \subseteq verdicts'[j],
           y.phase = "ok" => "ok" \in verdicts'[x.item]
    PROVE  IInv'
  <1>1. TypeOK'
    BY DEF IInv, TypeOK
  <1>2. \A j \in Items : RowKept(j)
    BY DEF RowKept
  <1>3. Descends(y)
    BY DEF Descends
  <1>4. \A z \in run' : Descends(z)
    BY <1>3, SurvivorDescends
  <1> QED
    BY <1>1, <1>2, <1>4, QuietStep

\* A beat extends the lease of its worker.
LEMMA HeartbeatInv == ASSUME IInv, NEW x \in run, Heartbeat(x) PROVE IInv'
  <1>1. x \in Executions /\ item \in [Items -> Rows] /\ x.item \in Items
    BY DEF IInv, TypeOK, Executions
  <1>2. CASE HeartbeatExtends(x)
    <2> DEFINE i == x.item
    <2>1. item' = [item EXCEPT ![i] = [item[i] EXCEPT !.ttl = LeaseTicks]]
      BY <1>1, <1>2 DEF Heartbeat
    <2>2. item'[i] = [item[i] EXCEPT !.ttl = LeaseTicks]
      BY <1>1, <2>1
    <2>3. LeaseTicks \in 0..LeaseTicks
      BY LeaseAssumption
    <2>4. item'[i] \in Rows
      BY <1>1, <2>2, <2>3, Zenon DEF Rows
    <2>5. RowKept(i)
      BY <1>1, <2>2 DEF RowKept, Rows
    <2>6. UNCHANGED <<run, verdicts>> /\ faults' \in 0..MaxFaults
      BY <1>2 DEF Heartbeat, IInv, TypeOK
    <2> QED
      BY <1>1, <2>1, <2>2, <2>4, <2>5, <2>6, ClockInv
  <1>3. CASE ~HeartbeatExtends(x)
    <2> DEFINE y == [x EXCEPT !.beat = "lost"]
    <2>1. y \in Executions
      BY <1>1, Zenon DEF Executions
    <2>2. /\ y.worker = x.worker /\ y.item = x.item /\ y.claim = x.claim
          /\ y.orphan = x.orphan /\ y.phase = x.phase
      BY <1>1 DEF Executions
    <2>3. x.phase = "handling"
      BY DEF Heartbeat
    <2>4. run' = (run \ {x}) \cup {y} /\ UNCHANGED <<item, verdicts, faults>>
      BY <1>3 DEF Heartbeat
    <2> HIDE DEF y
    <2> QED
      BY <2>1, <2>2, <2>3, <2>4, ReplacedRun DEF IInv, TypeOK
  <1> QED
    BY <1>2, <1>3

\* The heartbeat task of an execution dies.
LEMMA HeartbeatDiesInv == ASSUME IInv, NEW x \in run, HeartbeatDies(x) PROVE IInv'
  <1> DEFINE y == [x EXCEPT !.beat = "died"]
  <1>1. x \in Executions
    BY DEF IInv, TypeOK
  <1>2. y \in Executions
    BY <1>1, Zenon DEF Executions
  <1>3. /\ y.worker = x.worker /\ y.item = x.item /\ y.claim = x.claim
        /\ y.orphan = x.orphan /\ y.phase = x.phase
    BY <1>1 DEF Executions
  <1>4. x.phase = "handling" /\ faults' \in 0..MaxFaults
    BY FaultCount DEF HeartbeatDies, IInv
  <1>5. run' = (run \ {x}) \cup {y} /\ UNCHANGED <<item, verdicts>>
    BY DEF HeartbeatDies
  <1> HIDE DEF y
  <1> QED
    BY <1>2, <1>3, <1>4, <1>5, ReplacedRun DEF IInv, TypeOK

\* A handler returns, with a verdict that is not settled yet.
LEMMA HandlerReturnsInv ==
    ASSUME IInv, NEW x \in run, NEW outcome \in Outcomes, HandlerReturns(x, outcome)
    PROVE  IInv'
  <1> DEFINE y == [x EXCEPT !.phase = outcome]
             word == IF outcome = "ok" THEN "ok" ELSE "failed"
  <1>1. x \in Executions /\ x.item \in Items
    BY DEF IInv, TypeOK, Executions
  <1>2. y \in Executions
    BY <1>1, Zenon DEF Executions
  <1>3. /\ y.worker = x.worker /\ y.item = x.item /\ y.claim = x.claim
        /\ y.orphan = x.orphan /\ y.phase = outcome
    BY <1>1 DEF Executions
  <1>4. verdicts' = [verdicts EXCEPT ![x.item] = verdicts[x.item] \cup {word}]
    BY <1>1 DEF HandlerReturns, IInv, TypeOK
  <1>5. /\ verdicts' \in [Items -> SUBSET {"started", "ok", "failed"}]
        /\ \A j \in Items : verdicts[j] \subseteq verdicts'[j]
        /\ word \in verdicts'[x.item]
    BY <1>1, <1>4 DEF IInv, TypeOK
  <1>6. run' = (run \ {x}) \cup {y} /\ UNCHANGED <<item, faults>>
    BY DEF HandlerReturns
  <1> HIDE DEF y
  <1> QED
    BY <1>2, <1>3, <1>5, <1>6, ReplacedRun DEF IInv, TypeOK

-----------------------------------------------------------------------------
(* The end of an execution *)

\* What run becomes when executions end: some are gone, some are orphaned.
LEMMA FewerRuns ==
    ASSUME IInv, \A j \in Items : verdicts'[j] = verdicts[j],
           \A x \in run' : x \in run \/ \E y \in run : x = [y EXCEPT !.orphan = TRUE]
    PROVE  run' \subseteq Executions /\ \A x \in run' : Descends(x)
  <1> SUFFICES ASSUME NEW x \in run' PROVE x \in Executions /\ Descends(x)
    OBVIOUS
  <1>1. CASE x \in run
    BY <1>1, SurvivorDescends DEF IInv, TypeOK
  <1>2. CASE \E y \in run : x = [y EXCEPT !.orphan = TRUE]
    <2>1. PICK y \in run : x = [y EXCEPT !.orphan = TRUE]
      BY <1>2
    <2>2. y \in Executions /\ y.item \in Items
      BY DEF IInv, TypeOK, Executions
    <2>3. x \in Executions
      BY <2>1, <2>2, Zenon DEF Executions
    <2>4. /\ x.worker = y.worker /\ x.item = y.item /\ x.claim = y.claim
          /\ x.orphan /\ x.phase = y.phase
      BY <2>1, <2>2 DEF Executions
    <2>5. x.phase = "ok" => "ok" \in verdicts'[x.item]
      BY <2>2, <2>4 DEF IInv, History
    <2> QED
      BY <2>3, <2>4, <2>5 DEF Descends
  <1> QED
    BY <1>1, <1>2

\* When a settlement raises, its batch goes on as orphans.
LEMMA RaisedRuns ==
    ASSUME NEW x \in run, NEW z \in Raised(x)
    PROVE  z \in run \/ \E y \in run : z = [y EXCEPT !.orphan = TRUE]
  BY DEF Raised

\* A verdict written on one row, or nothing at all, is a quiet step.
LEMMA VerdictStep ==
    ASSUME IInv, NEW x \in run, x.phase # "handling",
           item' \in {item, [item EXCEPT ![x.item] = Verdict(x)]},
           verdicts' = verdicts, faults' \in 0..MaxFaults,
           run' \subseteq Executions, \A z \in run' : Descends(z)
    PROVE  IInv'
  <1> DEFINE i == x.item new == Verdict(x)
  <1>1. item \in [Items -> Rows] /\ i \in Items
    BY DEF IInv, TypeOK, Executions
  <1>2. /\ new \in Rows
        /\ new.attempts = item[i].attempts
        /\ \/ new = item[i]
           \/ /\ new.owner = NoWorker
              /\ \/ new.status \in {"DONE", "DEAD"}
                 \/ new.status = "RETRY_WAIT" /\ new.attempts < MaxAttempts
    BY VerdictRow DEF IInv
  <1> HIDE DEF new
  <1>3. item' \in [Items -> Rows]
    BY <1>1, <1>2 DEF new
  <1>4. \A j \in Items : item'[j] = item[j] \/ (j = i /\ item'[j] = new)
    BY <1>1 DEF new
  <1>5. \A j \in Items : RowKept(j) \/ RowFreed(j)
    BY <1>2, <1>4 DEF RowKept, RowFreed, Terminal
  <1>6. TypeOK'
    BY <1>3 DEF IInv, TypeOK
  <1> QED
    BY <1>5, <1>6, QuietStep

\* A verdict is settled.
LEMMA SettleInv == ASSUME IInv, NEW x \in run, Settle(x) PROVE IInv'
  <1>1. run' \subseteq Executions /\ \A z \in run' : Descends(z)
    BY FewerRuns DEF Settle
  <1> QED
    BY <1>1, VerdictStep DEF Settle, IInv, TypeOK

\* A settlement raises.
LEMMA SettleRaisesInv == ASSUME IInv, NEW x \in run, SettleRaises(x) PROVE IInv'
  <1>1. run' \subseteq Executions /\ \A z \in run' : Descends(z)
    BY FewerRuns, RaisedRuns DEF SettleRaises
  <1>2. faults' \in 0..MaxFaults
    BY FaultCount DEF SettleRaises, IInv
  <1> QED
    BY <1>1, <1>2, VerdictStep DEF SettleRaises

\* A dead heartbeat raises in the settlement.
LEMMA RaiseDeadBeatInv == ASSUME IInv, NEW x \in run, RaiseDeadBeat(x) PROVE IInv'
  <1>1. run' \subseteq Executions /\ \A z \in run' : Descends(z)
    BY FewerRuns, RaisedRuns DEF RaiseDeadBeat
  <1> QED
    BY <1>1, VerdictStep DEF RaiseDeadBeat, IInv, TypeOK

\* A process dies with its executions.
LEMMA CrashInv == ASSUME IInv, NEW w \in Workers, Crash(w) PROVE IInv'
  <1>1. run' \subseteq Executions /\ \A z \in run' : Descends(z)
    BY FewerRuns DEF Crash
  <1>2. TypeOK'
    BY <1>1, FaultCount DEF Crash, IInv, TypeOK
  <1>3. \A j \in Items : RowKept(j)
    BY DEF Crash, RowKept
  <1> QED
    BY <1>1, <1>2, <1>3, QuietStep DEF Crash

-----------------------------------------------------------------------------
(* Maintenance *)

\* Rows of a set are released to a status that fits their attempts.
LEMMA ReleasedSet ==
    ASSUME IInv, NEW S \in SUBSET Items, NEW to \in [S -> Statuses],
           \A i \in S : /\ to[i] \in Terminal \cup {"QUEUED"}
                        /\ to[i] = "QUEUED" => item[i].attempts < MaxAttempts,
           item' = [i \in Items |-> IF i \in S THEN Released(item[i], to[i]) ELSE item[i]],
           UNCHANGED <<run, verdicts, faults>>
    PROVE  IInv'
  <1>1. item \in [Items -> Rows]
    BY DEF IInv, TypeOK
  <1>2. ASSUME NEW i \in S
        PROVE  /\ item'[i] \in Rows
               /\ item'[i].status = to[i]
               /\ item'[i].owner = NoWorker
               /\ item'[i].attempts = item[i].attempts
    BY <1>1, ReleasedRow
  <1>3. item' \in [Items -> Rows]
    <2>1. \A i \in Items : item'[i] \in Rows
      BY <1>1, <1>2
    <2> QED
      BY <2>1
  <1>4. \A i \in Items : RowKept(i) \/ RowFreed(i)
    BY <1>2 DEF RowKept, RowFreed, Terminal
  <1>5. TypeOK'
    BY <1>3 DEF IInv, TypeOK
  <1>6. \A x \in run' : Descends(x)
    BY SurvivorDescends
  <1> QED
    BY <1>4, <1>5, <1>6, QuietStep

\* Expired leases are released.
LEMMA ReleaseExpiredLeasesInv == ASSUME IInv, ReleaseExpiredLeases PROVE IInv'
  <1> DEFINE S == {i \in Items : item[i].status = "LEASED" /\ item[i].ttl = 0}
             to == [i \in S |-> IF item[i].attempts >= MaxAttempts THEN "DEAD" ELSE "QUEUED"]
  <1>1. item' = [i \in Items |-> IF i \in S THEN Released(item[i], to[i]) ELSE item[i]]
    BY DEF ReleaseExpiredLeases
  <1>2. to \in [S -> Statuses]
    BY DEF Statuses, Terminal, Claimable
  <1>3. ASSUME NEW i \in S
        PROVE  /\ to[i] \in Terminal \cup {"QUEUED"}
               /\ to[i] = "QUEUED" => item[i].attempts < MaxAttempts
    <2>1. item[i].attempts \in Nat
      BY DEF IInv, TypeOK, Rows
    <2> QED
      BY <2>1, LimitAssumption DEF Terminal
  <1> HIDE DEF S, to
  <1>4. S \in SUBSET Items
    BY DEF S
  <1> QED
    BY <1>1, <1>2, <1>3, <1>4, ReleasedSet DEF ReleaseExpiredLeases

\* The items of a build are cancelled.
LEMMA CancelForBuildInv == ASSUME IInv, NEW S \in SUBSET Items, CancelForBuild(S) PROVE IInv'
  <1> DEFINE to == [i \in S |-> "CANCELLED"]
  <1>1. item' = [i \in Items |-> IF i \in S THEN Released(item[i], to[i]) ELSE item[i]]
    BY DEF CancelForBuild
  <1>2. to \in [S -> Statuses] /\ \A i \in S : to[i] \in Terminal /\ to[i] # "QUEUED"
    BY DEF Statuses, Terminal
  <1> HIDE DEF to
  <1> QED
    BY <1>1, <1>2, ReleasedSet DEF CancelForBuild

-----------------------------------------------------------------------------
(* The claim *)

\* What a claim makes of a row.
LEMMA LeasedRow ==
    ASSUME NEW row \in Rows, NEW w \in Workers
    PROVE  /\ Leased(row, w) \in Rows
           /\ Leased(row, w).status = "LEASED"
           /\ Leased(row, w).owner = w
           /\ Leased(row, w).attempts = row.attempts + 1
  <1>1. LeaseTicks \in 0..LeaseTicks
    BY LeaseAssumption
  <1>2. row.attempts + 1 \in Nat
    BY DEF Rows
  <1>3. Leased(row, w) \in Rows
    BY <1>1, <1>2, Zenon DEF Leased, Rows, Statuses, Claimable
  <1>4. Leased(row, w).status = "LEASED" /\ Leased(row, w).owner = w
    BY DEF Leased, Rows
  <1>5. Leased(row, w).attempts = row.attempts + 1
    BY DEF Leased, Rows
  <1> QED
    BY <1>3, <1>4, <1>5

\* The claiming worker awaits no older execution, and the executions of the
\* others no longer own the rows it took.
LEMMA ClaimInv ==
    ASSUME IInv, NEW w \in Workers, NEW S \in SUBSET Items, Claim(w, S)
    PROVE  IInv'
  <1>1. /\ item \in [Items -> Rows] /\ run \subseteq Executions
        /\ verdicts \in [Items -> SUBSET {"started", "ok", "failed"}]
        /\ w # NoWorker
    BY NullAssumption DEF IInv, TypeOK
  <1>2. ASSUME NEW i \in S
        PROVE  /\ item'[i] \in Rows
               /\ item'[i].status = "LEASED"
               /\ item'[i].owner = w
               /\ item'[i].attempts = item[i].attempts + 1
               /\ verdicts'[i] = verdicts[i] \cup {"started"}
    <2>1. item'[i] = Leased(item[i], w) /\ verdicts'[i] = verdicts[i] \cup {"started"}
      BY DEF Claim
    <2> QED
      BY <1>1, <2>1, LeasedRow
  <1>3. \A i \in Items \ S : item'[i] = item[i] /\ verdicts'[i] = verdicts[i]
    BY DEF Claim
  <1>4. ASSUME NEW i \in S
        PROVE  /\ Execution(w, i) \in Executions
               /\ Execution(w, i).worker = w /\ Execution(w, i).item = i
               /\ Execution(w, i).claim = item[i].attempts + 1
               /\ Execution(w, i).phase = "handling"
    <2>1. item[i].attempts + 1 \in Nat
      BY <1>1 DEF Rows
    <2> QED
      BY <2>1 DEF Execution, Executions
  <1>5. run' = run \cup {Execution(w, i) : i \in S}
    BY DEF Claim
  <1>6. TypeOK'
    <2>1. \A i \in Items : item'[i] \in Rows
      BY <1>1, <1>2, <1>3
    <2>2. item' \in [Items -> Rows]
      BY <2>1 DEF Claim
    <2>3. run' \subseteq Executions
      BY <1>1, <1>4, <1>5
    <2>4. verdicts' \in [Items -> SUBSET {"started", "ok", "failed"}]
      BY <1>1 DEF Claim
    <2> QED
      BY <2>2, <2>3, <2>4 DEF Claim, IInv, TypeOK
  <1>7. OwnerIffLeased'
    BY <1>1, <1>2, <1>3 DEF IInv, OwnerIffLeased
  <1>8. WaitingHasBudget'
    BY <1>2, <1>3 DEF IInv, WaitingHasBudget
  <1>9. LatestClaimSettles'
    <2> SUFFICES ASSUME NEW x \in run', Owns(x)', ~x.orphan
                 PROVE  x.claim = item'[x.item].attempts
      BY DEF LatestClaimSettles
    <2>1. CASE x \in run
      <3>1. x.worker # w
        BY <2>1 DEF Claim, Idle
      <3>2. x.item \in Items \ S
        BY <1>1, <1>2, <2>1, <3>1 DEF Owns, Executions
      <3> QED
        BY <1>3, <2>1, <3>2 DEF Owns, IInv, LatestClaimSettles
    <2>2. CASE x \in {Execution(w, i) : i \in S}
      BY <1>2, <1>4, <2>2
    <2> QED
      BY <1>5, <2>1, <2>2
  <1>10. History'
    <2>1. ASSUME NEW i \in Items
          PROVE  /\ item'[i].status = "NONE" => item'[i].attempts = 0
                 /\ item'[i].status = "LEASED" => "started" \in verdicts'[i]
      BY <1>2, <1>3 DEF IInv, History
    <2>2. ASSUME NEW x \in run'
          PROVE  /\ item'[x.item].status # "NONE"
                 /\ "started" \in verdicts'[x.item]
                 /\ x.phase = "ok" => "ok" \in verdicts'[x.item]
      <3>1. CASE x \in run
        <4>1. x.item \in Items
          BY <1>1, <3>1 DEF Executions
        <4> QED
          BY <1>2, <1>3, <3>1, <4>1 DEF IInv, History
      <3>2. CASE x \in {Execution(w, i) : i \in S}
        BY <1>2, <1>4, <3>2
      <3> QED
        BY <1>5, <3>1, <3>2
    <2> QED
      BY <2>1, <2>2 DEF History
  <1> QED
    BY <1>6, <1>7, <1>8, <1>9, <1>10 DEF IInv

-----------------------------------------------------------------------------
(* Theorems *)

\* Nothing happens.
LEMMA StutterInv == ASSUME IInv, UNCHANGED vars PROVE IInv'
  BY DEF vars, IInv, TypeOK, OwnerIffLeased, WaitingHasBudget, LatestClaimSettles, History, Owns

\* Every action keeps the invariant.
LEMMA NextInv == IInv /\ [Next]_vars => IInv'
  <1> SUFFICES ASSUME IInv, [Next]_vars PROVE IInv'
    OBVIOUS
  <1>1. ASSUME NEW i \in Items, Enqueue(i) \/ BecomesDue(i) \/ Tick(i) \/ MissedBeat(i)
        PROVE  IInv'
    BY <1>1, EnqueueInv, BecomesDueInv, TickInv
  <1>2. ASSUME NEW w \in Workers, NEW S \in SUBSET Items, Claim(w, S)
        PROVE  IInv'
    BY <1>2, ClaimInv
  <1>3. ASSUME NEW x \in run,
               Heartbeat(x) \/ Settle(x) \/ HeartbeatDies(x) \/ RaiseDeadBeat(x) \/ SettleRaises(x)
        PROVE  IInv'
    BY <1>3, HeartbeatInv, SettleInv, HeartbeatDiesInv, RaiseDeadBeatInv, SettleRaisesInv
  <1>4. ASSUME NEW x \in run, NEW outcome \in Outcomes, HandlerReturns(x, outcome)
        PROVE  IInv'
    BY <1>4, HandlerReturnsInv
  <1>5. ASSUME NEW w \in Workers, Crash(w)
        PROVE  IInv'
    BY <1>5, CrashInv
  <1>6. CASE ReleaseExpiredLeases
    BY <1>6, ReleaseExpiredLeasesInv
  <1>7. ASSUME NEW S \in SUBSET Items, CancelForBuild(S)
        PROVE  IInv'
    BY <1>7, CancelForBuildInv
  <1>8. CASE UNCHANGED vars
    BY <1>8, StutterInv
  <1> QED
    BY <1>1, <1>2, <1>3, <1>4, <1>5, <1>6, <1>7, <1>8 DEF Next

\* Every reachable state of the queue satisfies the inductive invariant.
THEOREM Invariance == Spec => []IInv
  BY InitInv, NextInv, PTL DEF Spec

\* Rows, executions and history keep their types whatever workers, crashes and
\* database errors do (queue.py, runtime.py).
THEOREM TypeCorrect == Spec => []TypeOK
  <1>1. IInv => TypeOK
    BY DEF IInv
  <1> QED
    BY <1>1, Invariance, PTL

\* A row has an owner exactly while it is LEASED, so fail, which compares the
\* owner alone, never reopens a settled row.
THEOREM OwnerExactlyWhileLeased == Spec => []OwnerIffLeased
  <1>1. IInv => OwnerIffLeased
    BY DEF IInv
  <1> QED
    BY <1>1, Invariance, PTL

\* An awaited execution that owns the row carries its latest claim: no older
\* execution that its worker awaits can settle a newer claim.  Orphans are excluded.
THEOREM OnlyLatestClaimSettles == Spec => []LatestClaimSettles
  <1>1. IInv => LatestClaimSettles
    BY DEF IInv
  <1> QED
    BY <1>1, Invariance, PTL

\* No path puts an exhausted item back in the queue.
THEOREM WaitingWithinBudget == Spec => []WaitingHasBudget
  <1>1. IInv => WaitingHasBudget
    BY DEF IInv
  <1> QED
    BY <1>1, Invariance, PTL

-----------------------------------------------------------------------------
(* How a row moves in one step *)

\* The moves of one row: kept, posted, taken, given up, cancelled.
RowTaken(i) ==
    /\ item[i].status \in Claimable /\ item'[i].status = "LEASED"
    /\ item[i].status = "LEASED" => item[i].ttl = 0
    /\ item'[i].attempts = item[i].attempts + 1

RowMove(i) ==
    \/ RowKept(i)
    \/ RowTaken(i)
    \/ /\ item'[i].attempts = item[i].attempts
       /\ \/ item[i].status = "NONE" /\ item'[i].status = "QUEUED"
          \/ item[i].status = "LEASED" /\ item'[i].status \in {"DONE", "DEAD", "RETRY_WAIT", "QUEUED"}
          \/ item[i].status \in {"QUEUED", "RETRY_WAIT"} /\ item'[i].status = "CANCELLED"

\* What any step may do to a row.
LEMMA RowMoves == ASSUME IInv, [Next]_vars, NEW i \in Items PROVE RowMove(i)
  <1>1. item \in [Items -> Rows] /\ item[i] \in Rows
    BY DEF IInv, TypeOK
  <1>2. ASSUME item' = item PROVE RowMove(i)
    BY <1>2 DEF RowMove, RowKept
  <1>3. ASSUME NEW j \in Items, Enqueue(j) PROVE RowMove(i)
    <2>1. PICK due \in BOOLEAN : item' = [item EXCEPT ![j].status = "QUEUED", ![j].due = due]
      BY <1>3 DEF Enqueue
    <2>2. item'[i] = item[i] \/ (j = i /\ item'[i] = [item[i] EXCEPT !.status = "QUEUED", !.due = due])
      BY <1>1, <2>1
    <2> QED
      BY <1>1, <1>3, <2>2 DEF Enqueue, RowMove, RowKept, Rows
  <1>4. ASSUME NEW j \in Items, BecomesDue(j) \/ Tick(j) \/ MissedBeat(j) PROVE RowMove(i)
    <2>1. /\ item'[i].status = item[i].status
          /\ item'[i].owner = item[i].owner
          /\ item'[i].attempts = item[i].attempts
      BY <1>1, <1>4 DEF BecomesDue, Tick, MissedBeat, Rows
    <2> QED
      BY <2>1 DEF RowMove, RowKept
  <1>5. ASSUME NEW x \in run, Heartbeat(x) PROVE RowMove(i)
    <2>1. /\ item'[i].status = item[i].status
          /\ item'[i].owner = item[i].owner
          /\ item'[i].attempts = item[i].attempts
      BY <1>1, <1>5 DEF Heartbeat, Rows
    <2> QED
      BY <2>1 DEF RowMove, RowKept
  <1>6. ASSUME NEW w \in Workers, NEW S \in SUBSET Items, Claim(w, S) PROVE RowMove(i)
    <2>1. CASE i \in S
      <3>1. item'[i] = Leased(item[i], w) /\ Eligible(i)
        BY <1>6, <2>1 DEF Claim
      <3> QED
        BY <1>1, <3>1, LeasedRow DEF Eligible, RowMove, RowTaken
    <2>2. CASE i \notin S
      BY <1>6, <2>2 DEF Claim, RowMove, RowKept
    <2> QED
      BY <2>1, <2>2
  <1>7. ASSUME NEW x \in run, Settle(x) \/ SettleRaises(x) PROVE RowMove(i)
    <2>1. x.phase # "handling" /\ x.item \in Items
      BY <1>7 DEF Settle, SettleRaises, IInv, TypeOK, Executions
    <2>2. item'[i] = item[i] \/ (i = x.item /\ item'[i] = Verdict(x))
      BY <1>1, <1>7, <2>1 DEF Settle, SettleRaises
    <2>3. CASE item'[i] = item[i]
      BY <2>3 DEF RowMove, RowKept
    <2>4. CASE i = x.item /\ item'[i] = Verdict(x)
      BY <2>1, <2>4, VerdictRow DEF IInv, RowMove, RowKept
    <2> QED
      BY <2>2, <2>3, <2>4
  <1>8. CASE ReleaseExpiredLeases
    <2>1. \/ item'[i] = item[i]
          \/ /\ item[i].status = "LEASED"
             /\ \E to \in {"DEAD", "QUEUED"} : item'[i] = Released(item[i], to)
      BY <1>8 DEF ReleaseExpiredLeases
    <2> QED
      BY <1>1, <2>1, ReleasedRow DEF Statuses, Claimable, Terminal, RowMove, RowKept
  <1>9. ASSUME NEW S \in SUBSET Items, CancelForBuild(S) PROVE RowMove(i)
    <2>1. \/ item'[i] = item[i]
          \/ /\ item[i].status \in {"QUEUED", "RETRY_WAIT"}
             /\ item'[i] = Released(item[i], "CANCELLED")
      BY <1>9 DEF CancelForBuild
    <2> QED
      BY <1>1, <2>1, ReleasedRow DEF Statuses, Terminal, RowMove, RowKept
  <1>10. CASE UNCHANGED vars
    BY <1>2, <1>10 DEF vars
  <1>11. ASSUME NEW x \in run,
                HeartbeatDies(x) \/ RaiseDeadBeat(x) \/ \E o \in Outcomes : HandlerReturns(x, o)
         PROVE  RowMove(i)
    BY <1>2, <1>11 DEF HeartbeatDies, RaiseDeadBeat, HandlerReturns
  <1>12. ASSUME NEW w \in Workers, Crash(w) PROVE RowMove(i)
    BY <1>2, <1>12 DEF Crash
  <1> QED
    BY <1>3, <1>4, <1>5, <1>6, <1>7, <1>8, <1>9, <1>10, <1>11, <1>12 DEF Next

\* Every statement of the queue moves a row along WORK_ITEM_TRANSITIONS, which
\* none of them consults; a settled row never moves again.
THEOREM MovesAreLegal == Spec => LegalMoves
  <1>1. IInv /\ [Next]_vars => LegalMove
    <2> SUFFICES ASSUME IInv, [Next]_vars, NEW i \in Items, item'[i].status # item[i].status
                 PROVE  \/ item[i].status = "NONE" /\ item'[i].status = "QUEUED"
                        \/ <<item[i].status, item'[i].status>> \in Transitions
      BY DEF LegalMove
    <2> QED
      BY RowMoves DEF RowMove, RowKept, RowTaken, Transitions, Claimable
  <1> QED
    BY <1>1, Invariance, PTL DEF LegalMoves, Spec

\* A claim beyond max_attempts re-takes an expired lease, never a row that fail
\* or release_expired_leases returned to the queue.
THEOREM ExcessReclaims == Spec => ExcessOnlyByReclaim
  <1>1. IInv /\ [Next]_vars => ExcessIsReclaim
    <2> SUFFICES ASSUME IInv, [Next]_vars, NEW i \in Items,
                        item'[i].attempts > item[i].attempts, item'[i].attempts > MaxAttempts
                 PROVE  item[i].status = "LEASED" /\ item[i].ttl = 0
      BY DEF ExcessIsReclaim
    <2>1. item[i].attempts \in Nat
      <3>1. item[i] \in Rows
        BY DEF IInv, TypeOK
      <3> QED
        BY <3>1 DEF Rows
    <2>2. RowTaken(i)
      BY <2>1, RowMoves DEF RowMove, RowKept
    <2>3. item[i].status \notin {"QUEUED", "RETRY_WAIT"}
      BY <2>1, <2>2, LimitAssumption DEF RowTaken, IInv, WaitingHasBudget
    <2> QED
      BY <2>2, <2>3 DEF RowTaken, Claimable
  <1> QED
    BY <1>1, Invariance, PTL DEF ExcessOnlyByReclaim, Spec

-----------------------------------------------------------------------------
(* The queue implements the job board *)

board == [i \in Items |-> BoardOf(item[i].status)]

\* Rows that are not settled stand open, whatever their lease.
LEMMA OpenRows ==
    /\ \A status \in Claimable : BoardOf(status) = "open"
    /\ BoardOf("NONE") = "absent" /\ BoardOf("DONE") = "done"
    /\ BoardOf("DEAD") = "dead" /\ BoardOf("CANCELLED") = "cancelled"
  BY DEF BoardOf, Claimable

\* A step that closes nothing and starts nothing is none of the board.
LEMMA BoardStutter ==
    ASSUME \A i \in Items : item'[i].status = item[i].status, verdicts' = verdicts
    PROVE  UNCHANGED Board!boardVars
  BY DEF Board!boardVars

\* Some open jobs close with one outcome.
LEMMA BoardClose ==
    ASSUME NEW S \in SUBSET Items, NEW outcome \in {"done", "dead", "cancelled"},
           verdicts' = verdicts,
           \A i \in S : Board!MayClose(i, outcome) /\ board'[i] = outcome,
           \A i \in Items \ S : board'[i] = board[i]
    PROVE  Board!BoardNext
  <1>1. Board!Move(S, outcome)
    BY DEF Board!Move, board
  <1>2. Board!Close(S, outcome)
    BY <1>1 DEF Board!Close
  <1> QED
    BY <1>2 DEF Board!BoardNext, Board!Closings

\* A verdict that is settled is a step of the board.
LEMMA BoardVerdict ==
    ASSUME IInv, NEW x \in run, Settle(x) \/ SettleRaises(x)
    PROVE  [Board!BoardNext]_Board!boardVars
  <1> DEFINE i == x.item
  <1>1. /\ item \in [Items -> Rows] /\ i \in Items /\ x.phase # "handling"
        /\ x.phase = "ok" => "ok" \in verdicts[i]
        /\ "started" \in verdicts[i]
    BY DEF Settle, SettleRaises, IInv, TypeOK, Executions, History
  <1>2. /\ verdicts' = verdicts
        /\ item' = item \/ item' = [item EXCEPT ![i] = Verdict(x)]
    BY DEF Settle, SettleRaises
  <1>3. \A j \in Items : item'[j] = item[j] \/ (j = i /\ item'[j] = Verdict(x))
    BY <1>1, <1>2
  <1>4. CASE item'[i].status \in {"DONE", "DEAD"} /\ item'[i] # item[i]
    <2> DEFINE outcome == BoardOf(item'[i].status)
    <2>1. item'[i] = Verdict(x)
      BY <1>1, <1>3, <1>4
    <2>2. /\ item[i].status = "LEASED"
          /\ \/ item'[i].status = "DONE" /\ x.phase = "ok"
             \/ item'[i].status = "DEAD"
      BY <1>1, <1>4, <2>1, VerdictRow DEF IInv
    <2>3. board[i] = "open" /\ board'[i] = outcome
      BY <1>1, <2>2, OpenRows DEF board, Claimable
    <2>4. /\ outcome \in {"done", "dead", "cancelled"}
          /\ outcome = "done" => x.phase = "ok"
      BY <2>2, OpenRows
    <2>5. Board!MayClose(i, outcome)
      BY <1>1, <2>3, <2>4 DEF Board!MayClose, board
    <2>6. \A j \in Items \ {i} : board'[j] = board[j]
      BY <1>3 DEF board
    <2> DEFINE S == {i}
    <2>7. /\ S \in SUBSET Items
          /\ \A j \in S : Board!MayClose(j, outcome) /\ board'[j] = outcome
          /\ \A j \in Items \ S : board'[j] = board[j]
      BY <1>1, <2>3, <2>5, <2>6
    <2> HIDE DEF outcome, S
    <2>8. Board!BoardNext
      BY <1>2, <2>4, <2>7, BoardClose
    <2> QED
      BY <2>8
  <1>5. CASE ~(item'[i].status \in {"DONE", "DEAD"} /\ item'[i] # item[i])
    <2>1. CASE item'[i] = item[i]
      BY <1>2, <1>3, <2>1, BoardStutter
    <2>2. CASE item'[i] # item[i]
      <3>1. item'[i] = Verdict(x)
        BY <1>1, <1>3, <2>2
      <3>2. item[i].status = "LEASED" /\ item'[i].status = "RETRY_WAIT"
        BY <1>1, <1>5, <2>2, <3>1, VerdictRow DEF IInv
      <3>3. \A j \in Items : BoardOf(item'[j].status) = BoardOf(item[j].status)
        BY <1>3, <3>2, OpenRows DEF Claimable
      <3> QED
        BY <1>2, <3>3 DEF Board!boardVars
    <2> QED
      BY <2>1, <2>2
  <1> QED
    BY <1>4, <1>5

\* Every step is a step of the board or none.
LEMMA BoardStep == IInv /\ [Next]_vars => [Board!BoardNext]_Board!boardVars
  <1> SUFFICES ASSUME IInv, [Next]_vars PROVE [Board!BoardNext]_Board!boardVars
    OBVIOUS
  <1>1. item \in [Items -> Rows] /\ verdicts \in [Items -> SUBSET {"started", "ok", "failed"}]
    BY DEF IInv, TypeOK
  <1>2. ASSUME NEW i \in Items, Enqueue(i) PROVE Board!BoardNext
    <2>1. PICK due \in BOOLEAN : item' = [item EXCEPT ![i].status = "QUEUED", ![i].due = due]
      BY <1>2 DEF Enqueue
    <2>2. item'[i].status = "QUEUED" /\ \A j \in Items \ {i} : item'[j] = item[j]
      BY <1>1, <2>1 DEF Rows
    <2>3. Board!Move({i}, "open") /\ board[i] = "absent"
      BY <1>2, <2>2, OpenRows DEF Enqueue, Board!Move, board, Claimable
    <2>4. Board!Post(i)
      BY <1>2, <2>3 DEF Board!Post, board, Enqueue
    <2> QED
      BY <2>4 DEF Board!BoardNext
  <1>3. ASSUME NEW i \in Items, BecomesDue(i) \/ Tick(i) \/ MissedBeat(i)
        PROVE  UNCHANGED Board!boardVars
    <2>1. \A j \in Items : item'[j].status = item[j].status
      BY <1>1, <1>3 DEF BecomesDue, Tick, MissedBeat, Rows
    <2> QED
      BY <1>3, <2>1, BoardStutter DEF BecomesDue, Tick, MissedBeat
  <1>4. ASSUME NEW x \in run, Heartbeat(x) PROVE UNCHANGED Board!boardVars
    <2>1. \A j \in Items : item'[j].status = item[j].status
      BY <1>1, <1>4 DEF Heartbeat, Rows
    <2> QED
      BY <1>4, <2>1, BoardStutter DEF Heartbeat
  <1>5. ASSUME NEW w \in Workers, NEW S \in SUBSET Items, Claim(w, S) PROVE Board!BoardNext
    <2>1. \A i \in S : item[i].status \in Claimable /\ item'[i].status = "LEASED"
      BY <1>1, <1>5, LeasedRow DEF Claim, Eligible
    <2>2. \A i \in Items \ S : item'[i] = item[i]
      BY <1>5 DEF Claim
    <2>3. \A i \in Items : BoardOf(item'[i].status) = BoardOf(item[i].status)
      BY <2>1, <2>2, OpenRows DEF Claimable
    <2>4. board' = board /\ \A i \in S : board[i] = "open"
      BY <2>1, <2>3, OpenRows DEF board
    <2>5. Board!Start(S)
      BY <1>5, <2>4 DEF Board!Start, Board!Say, Claim, board
    <2> QED
      BY <2>5 DEF Board!BoardNext
  <1>6. ASSUME NEW x \in run, NEW outcome \in Outcomes, HandlerReturns(x, outcome)
        PROVE  Board!BoardNext
    <2> DEFINE word == IF outcome = "ok" THEN "ok" ELSE "failed"
    <2>1. x.item \in Items /\ "started" \in verdicts[x.item]
      BY DEF IInv, TypeOK, Executions, History
    <2>2. Board!Say({x.item}, word)
      BY <1>1, <1>6, <2>1 DEF HandlerReturns, Board!Say
    <2>3. Board!Return(x.item, word)
      BY <1>6, <2>1, <2>2 DEF HandlerReturns, Board!Return
    <2>4. word \in {"ok", "failed"}
      OBVIOUS
    <2> HIDE DEF word
    <2> QED
      BY <2>1, <2>3, <2>4 DEF Board!BoardNext, Board!Verdicts
  <1>7. ASSUME NEW x \in run, Settle(x) \/ SettleRaises(x)
        PROVE  [Board!BoardNext]_Board!boardVars
    BY <1>7, BoardVerdict
  <1>8. ASSUME item' = item, verdicts' = verdicts PROVE UNCHANGED Board!boardVars
    BY <1>8, BoardStutter
  <1>9. ASSUME NEW x \in run, HeartbeatDies(x) \/ RaiseDeadBeat(x)
        PROVE  UNCHANGED Board!boardVars
    BY <1>8, <1>9 DEF HeartbeatDies, RaiseDeadBeat
  <1>10. ASSUME NEW w \in Workers, Crash(w) PROVE UNCHANGED Board!boardVars
    BY <1>8, <1>10 DEF Crash
  <1>11. CASE ReleaseExpiredLeases
    <2> DEFINE S == {i \in Items : /\ item[i].status = "LEASED" /\ item[i].ttl = 0
                                   /\ item[i].attempts >= MaxAttempts}
    <2>1. \A i \in S : /\ item[i].status = "LEASED" /\ item'[i].status = "DEAD"
                       /\ "started" \in verdicts[i]
      BY <1>1, <1>11, ReleasedRow
      DEF ReleaseExpiredLeases, Statuses, Terminal, IInv, History
    <2>2. \A i \in Items \ S : \/ item'[i] = item[i]
                               \/ item[i].status = "LEASED" /\ item'[i].status = "QUEUED"
      BY <1>1, <1>11, ReleasedRow DEF ReleaseExpiredLeases, Statuses, Claimable
    <2>3. \A i \in S : Board!MayClose(i, "dead") /\ board'[i] = "dead"
      BY <2>1, OpenRows DEF Board!MayClose, board, Claimable
    <2>4. \A i \in Items \ S : board'[i] = board[i]
      BY <2>2, OpenRows DEF board, Claimable
    <2>5. S \in SUBSET Items /\ verdicts' = verdicts
      BY <1>11 DEF ReleaseExpiredLeases
    <2> HIDE DEF S
    <2> QED
      BY <2>3, <2>4, <2>5, BoardClose
  <1>12. ASSUME NEW S \in SUBSET Items, CancelForBuild(S) PROVE Board!BoardNext
    <2>1. \A i \in S : item[i].status \in Claimable /\ item'[i].status = "CANCELLED"
      BY <1>1, <1>12, ReleasedRow DEF CancelForBuild, Claimable, Statuses, Terminal
    <2>2. \A i \in S : Board!MayClose(i, "cancelled") /\ board'[i] = "cancelled"
      BY <2>1, OpenRows DEF Board!MayClose, board
    <2>3. \A i \in Items \ S : board'[i] = board[i]
      BY <1>12 DEF CancelForBuild, board
    <2> QED
      BY <1>12, <2>2, <2>3, BoardClose DEF CancelForBuild
  <1>13. CASE UNCHANGED vars
    BY <1>8, <1>13 DEF vars
  <1> QED
    BY <1>2, <1>3, <1>4, <1>5, <1>6, <1>7, <1>9, <1>10, <1>11, <1>12, <1>13 DEF Next

\* Leases, heartbeats, retries, crashes and maintenance together keep the
\* promise of the job board: at least once, done only on the word of a handler
\* that returned, closed for good.
THEOREM QueueImplementsBoard == Spec => ImplementsBoard
  <1>1. Init => Board!BoardInit
    BY OpenRows DEF Init, Absent, Board!BoardInit
  <1> QED
    BY <1>1, BoardStep, Invariance, PTL DEF ImplementsBoard, Board!BoardSpec, Spec

=============================================================================
