--------------------------- MODULE BuildExecution ---------------------------
(***************************************************************************)
(* The execution of one build: the handlers of all its nodes, the reviewer *)
(* and the faults of the workers, over the rows they share.                *)
(***************************************************************************)
EXTENDS SyncNode, LocalNode, GmiNode, Review

CONSTANT Errors      \* the classes of the failures of GMI Cloud
ASSUME ErrorAssumption == Errors \subseteq ErrorClasses

(***************************************************************************)
(* A prepare transaction with nothing to do: the attempt has succeeded     *)
(* (the item is done), or the handler finds statuses it does not run from  *)
(* and raises (the item is dead).                                          *)
(***************************************************************************)
Dismiss(j) ==
    /\ Claimable(j)
    /\ ~Fresh(j[1]) /\ ~Retaken(j[1]) /\ ~Parkable(j[1]) /\ ~Resumable(j[1]) /\ ~Recoverable(j[1])
    /\ ~(IsSync(j[1]) /\ Latest(j[1]) = "FETCHING")
    /\ Settle(j, TRUE, {})
    /\ UNCHANGED <<rows, ex, retakes, ladder, calls>>

Start(s, j) ==
    \/ SyncSubmit(s, j) \/ SyncResume(s, j) \/ LocalStarts(s, j) \/ LocalResumes(s, j)
    \/ GmiSubmit(s, j)

Turn(j) == SyncPark(j) \/ SourceResolves(j) \/ Dismiss(j)

Continue(s) ==
    \/ ProviderAnswers(s) \/ ProviderAmbiguous(s) \/ SyncFails(s)
    \/ SyncFinalizes(s) \/ GateFails(s)
    \/ LocalPersists(s) \/ LocalFinalizes(s) \/ LocalFails(s)
    \/ GmiStores(s) \/ GmiFinalizes(s) \/ GmiRaises(s)
    \/ \E error \in Errors : GmiFails(s, error)

Next ==
    \/ \E s \in Slots, j \in open :
         SyncSubmit(s, j) \/ SyncResume(s, j) \/ LocalStarts(s, j) \/ LocalResumes(s, j)
         \/ GmiSubmit(s, j)
    \/ \E j \in open : SyncPark(j) \/ SourceResolves(j) \/ Dismiss(j) \/ Abandon(j)
    \/ \E s \in Slots :
         \/ ProviderAnswers(s) \/ ProviderAmbiguous(s) \/ SyncFails(s)
         \/ SyncFinalizes(s) \/ GateFails(s)
         \/ LocalPersists(s) \/ LocalFinalizes(s) \/ LocalFails(s)
         \/ GmiStores(s) \/ GmiFinalizes(s) \/ GmiRaises(s)
         \/ \E error \in Errors : GmiFails(s, error)
         \/ Lapse(s) \/ Raises(s)
    \/ \E S \in SUBSET Slots : Crash(S)
    \/ \E n \in Nodes : RunsLate(n) \/ \E decision \in Decisions : Decide(n, decision)

Spec == Init /\ [][Next]_vars

(***************************************************************************)
(* Fairness: the queue executes an open job (WorkQueue, EverySettled), and *)
(* an execution goes on to its end.  Nothing forces a human or a fault.    *)
(***************************************************************************)
FairSpec ==
    /\ Spec
    /\ WF_vars(\E j \in open : Turn(j) \/ \E s \in Slots : Start(s, j))
    /\ \A s \in Slots : WF_vars(Continue(s))

-----------------------------------------------------------------------------
(* Properties *)

\* However often the worker fails, retries and falls back, a node of GMI Cloud
\* has one PRIMARY attempt and no more attempts and retries than its policy
\* allows ("budgets are enforced before any new submission", recovery.py).
LadderWithinBudget ==
    \A n \in Gmi :
        LET steps == ladder[n].steps IN
        /\ Len(steps) = Len(attempts[n]) /\ Len(steps) <= Policy[n].total
        /\ RetriesOf(steps) <= Policy[n].retries
        /\ \A a \in 1..Len(steps) : steps[a].mechanism = "PRIMARY" <=> a = 1

\* What follows a failed attempt: nothing when the failure is deterministic, another
\* model when it was one of the model.
NextIsAnother ==
    \A n \in Gmi :
        LET steps == ladder[n].steps IN
        \A a \in 1..Len(steps) : a < Len(steps) =>
            /\ steps[a].error \notin Deterministic \cup {"NONE"}
            /\ steps[a].error \in {"MODEL", "QUOTA"} => steps[a + 1].model # steps[a].model

\* The policy's own model, once another was tried, is not used again.
OwnModelIsLeft ==
    \A n \in Gmi : Policy[n].model \notin Alternatives(Policy[n]) =>
        LET steps == ladder[n].steps IN
        \A a, b \in 1..Len(steps) :
            a < b /\ steps[b].model = Policy[n].model => steps[a].model = Policy[n].model

\* "A model-specific fault should move to a different model rather than re-run
\* the one that just failed" (enums.py), what is deterministic is not tried again at
\* all, and the own model of a policy is given up for good, also when another process
\* takes the step than decided it.  A fallback model may come back: LadderGoesDown.
FailedModelNotRepeated == NextIsAnother /\ OwnModelIsLeft

\* "A failed attempt walks a policy ladder: same-model retry -> model fallback ->
\* cross-provider fallback -> fail" (README.md:79): after another provider was tried,
\* the ladder does not go back to the fallback models of the first.
LadderGoesDown ==
    \A n \in Gmi :
        LET steps == ladder[n].steps IN
        \A a, b \in 1..Len(steps) :
            a < b /\ steps[a].mechanism = "CROSS_PROVIDER_FALLBACK"
              => steps[b].mechanism # "SAME_PROVIDER_MODEL_FALLBACK"

\* Recomputing the decision from the persisted state "yields the same answer
\* that scheduled this work item" (gmi_work.py), as long as the time has not run
\* out in between.
DecisionStands ==
    \A n \in Gmi : Parked(n) /\ ~ladder[n].late =>
        Resumption(n).parked /\ Resumption(n).status = node[n]

\* A provider is paid for one request per node, and once more for each retake a
\* human ordered, whatever crashes, lapses and loses its answer in between (the
\* prepare transactions, reentry.py, review.py).
PaidOncePerDecision == \A n \in Nodes : calls[n] <= 1 + retakes[n]

\* A superseded attempt is over: its late answer has nowhere to land.
OnlyLatestLives ==
    \A n \in Nodes : \A a \in 1..Len(attempts[n]) :
        a < Len(attempts[n]) => attempts[n][a] = "FAILED"

\* The node row and the attempt rows, which different transactions of different
\* executions write, tell the same story.
NodeMatchesAttempt ==
    \A n \in Nodes :
        /\ node[n] = "RUNNING" <=> Latest(n) \in Live
        /\ node[n] \in {"WAITING_REVIEW", "RETAKE_PENDING"} \/ Parked(n) => Latest(n) = "FAILED"
        /\ node[n] \in {"PENDING", "QUEUED", "REUSED"} => Latest(n) = "NONE"
        /\ node[n] = "PASSED" /\ Kind[n] # "source" =>
             selected[n] = Len(attempts[n]) /\ Latest(n) = "SUCCEEDED"

\* The three tables of state_machine.py, the stations left out that are entered
\* and left within one transaction.
BuildMoves ==
    {<<"QUEUED", "RUNNING">>, <<"WAITING_REVIEW", "RUNNING">>}
    \cup ({"RUNNING"} \X {"WAITING_REVIEW", "SUCCEEDED", "FAILED"})
    \cup {<<"WAITING_REVIEW", "FAILED">>}

NodeMoves ==
    {<<"PENDING", "QUEUED">>, <<"QUEUED", "RUNNING">>, <<"RETAKE_PENDING", "QUEUED">>}
    \cup ({"RUNNING"} \X {"WAITING_REVIEW", "PASSED", "FAILED"})
    \cup ({"WAITING_REVIEW"} \X {"PASSED", "FAILED", "RETAKE_PENDING"})
    \cup ({"RUNNING"} \X {"RETRY_PENDING", "FALLBACK_PENDING"})
    \cup ({"RETRY_PENDING", "FALLBACK_PENDING"} \X {"RUNNING"})
    \cup {<<"QUEUED", "PASSED">>, <<"RETAKE_PENDING", "RUNNING">>}

AttemptMoves ==
    {<<"SUBMITTING", "FETCHING">>, <<"FETCHING", "SUCCEEDED">>} \cup (Live \X {"FAILED"})

LegalMove ==
    /\ build' # build => <<build, build'>> \in BuildMoves
    /\ \A n \in Nodes :
         /\ node'[n] # node[n] => <<node[n], node'[n]>> \in NodeMoves
         /\ Len(attempts'[n]) >= Len(attempts[n])
         /\ \A a \in 1..Len(attempts[n]) :
              attempts'[n][a] # attempts[n][a] =>
                <<attempts[n][a], attempts'[n][a]>> \in AttemptMoves
         /\ selected[n] # 0 => selected'[n] = selected[n]

\* No interleaving of executions moves a build, a node or an attempt outside the
\* tables: what is terminal stays, in particular what was parked as ambiguous.  The
\* output of a node, which dependents have consumed, is selected once.
LegalMoves == [][LegalMove]_vars

\* The build implements the data flow it was compiled from: ready nodes are
\* queued in the transaction that makes them ready, whichever siblings finish
\* together; none runs ahead; the build succeeds with its last node.
StateOf(status) ==
    CASE status = "PENDING" -> "waiting"
      [] status \in Satisfying -> "done"
      [] status = "FAILED" -> "failed"
      [] OTHER -> "working"

Flow == INSTANCE DataFlow WITH
    state  <- [n \in Nodes |-> StateOf(node[n])],
    result <- CASE build = "SUCCEEDED" -> "succeeded"
                [] build = "FAILED" -> "failed"
                [] OTHER -> "open"

ImplementsDataFlow == Flow!FlowSpec

\* A running build comes to an end or to a human.
BuildEnds == build = "RUNNING" ~> build \in {"SUCCEEDED", "FAILED", "WAITING_REVIEW"}

Attended(n) == (\E j \in open : j[1] = n) \/ (\E s \in Slots : ex[s] # Idle /\ NodeOf(s) = n)

\* "A human decision can unblock the build and return it to work"
\* (state_machine.py): a node that was queued still has a work item when the
\* decision comes.
QueuedIsAttended ==
    build # "FAILED" => \A n \in Nodes : node[n] = "QUEUED" => Attended(n)

\* The retake is queued under a key of its own "or the retake would be deduped
\* away and the node would sit in RETAKE_PENDING forever" (review.py).
RetakeIsAttended == \A n \in Nodes : node[n] = "RETAKE_PENDING" => Attended(n)

\* A node parked for recovery has a work item, or it is "neither failed nor
\* scheduled, which is the state a build hangs in forever" (recovery_work.py).
ParkedIsAttended ==
    build = "RUNNING" => \A n \in Gmi : Parked(n) => Attended(n)

\* "... or FAIL to stop the build" (review.py): a build that waits for review
\* waits for a node.
WaitsForSomeNode == build = "WAITING_REVIEW" => \E n \in Nodes : node[n] = "WAITING_REVIEW"

=============================================================================
