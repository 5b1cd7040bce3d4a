------------------------------ MODULE GmiNode -------------------------------
(***************************************************************************)
(* The handler of the keyframes and clips GMI Cloud generates              *)
(* (gmi_work.py), with the worker side of recovery (recovery_work.py).  An *)
(* attempt streams events until its output is stored or it fails; a        *)
(* failure parks the node and queues the next attempt, or ends it.  An     *)
(* attempt in flight belongs to the execution that made it: another        *)
(* execution of the node is refused.                                       *)
(* SUBMITTED and POLLING, which nothing tells from SUBMITTING, are left    *)
(* out, and so are injected faults, which fail an attempt as a provider    *)
(* would.                                                                  *)
(***************************************************************************)
EXTENDS BuildStore

Parked(n) == node[n] \in {"RETRY_PENDING", "FALLBACK_PENDING"}

LastStep(n) == ladder[n].steps[Len(ladder[n].steps)]

\* Variant of CurrentModel: the model of the policy.
CurrentModelOfPolicy(n) == Policy[n].model

CurrentModel(n) == LastStep(n).model

\* The decision of _prepare, taken again from the rows.
Resumption(n) ==
    NextMove(Policy[n], ladder[n].steps, ladder[n].late, LastStep(n).error, CurrentModel(n))

Recoverable(n) ==
    /\ n \in Gmi /\ Parked(n) /\ Latest(n) = "FAILED"
    /\ Resumption(n).parked
    /\ build \in Runnable(n)

\* The prepare transaction that starts an attempt; started_at starts again too,
\* and with it the elapsed time of the budget.
GmiSubmit(s, j) ==
    LET n == j[1]
        step == IF Parked(n) THEN Resumption(n).step ELSE Primary(Policy[n])
    IN  /\ n \in Gmi /\ (Fresh(n) \/ Recoverable(n))
        /\ Enter(s, j, "calling", AttemptNo(n))
        /\ attempts' = [attempts EXCEPT ![n] = Append(@, "SUBMITTING")]
        /\ ladder' = [ladder EXCEPT ![n] = [steps |-> Append(@.steps, step), late |-> FALSE]]
        /\ node' = [node EXCEPT ![n] = "RUNNING"]
        /\ build' = Started(n)
        /\ UNCHANGED <<selected, retakes, calls>>

\* _persist_event of the stored output.
GmiStores(s) ==
    /\ ex[s].pc = "calling" /\ NodeOf(s) \in Gmi
    /\ IF Row(s) \in Live THEN Mark(NodeOf(s), ex[s].att, "FETCHING") ELSE UNCHANGED attempts
    /\ ex' = [ex EXCEPT ![s].pc = "storing"]
    /\ UNCHANGED <<build, node, selected, open, retakes, ladder, calls, faults>>

\* Variant of Failed: the class of the error is not written down.
FailedInternally(step, error) == [step EXCEPT !.error = IF error = "NONE" THEN @ ELSE "INTERNAL"]

Failed(step, error) == [step EXCEPT !.error = error]

\* The decision of _fail, where the failed attempt counts already.
Recovery(n, error) ==
    NextMove(Policy[n], ladder[n].steps, ladder[n].late, error, CurrentModel(n))

\* Variant of Rests: a node that goes on is left RUNNING.
RestsRunning(d) == IF d.parked THEN "RUNNING" ELSE "FAILED"

\* Where a failed attempt leaves its node.
Rests(d) == IF d.parked THEN d.status ELSE "FAILED"

\* _fail, of a provider event or of an exception: parked with a work item of its
\* own, or failed for good, and the build with it if it is RUNNING.
GmiFails(s, error) ==
    LET n == NodeOf(s)
        d == Recovery(n, error)
    IN  /\ ex[s].pc \in {"calling", "storing"} /\ n \in Gmi
        /\ IF Row(s) \in Live /\ node[n] = "RUNNING"
             THEN /\ Mark(n, ex[s].att, "FAILED")
                  /\ ladder' = [ladder EXCEPT ![n].steps[ex[s].att] = Failed(@, error)]
                  /\ node' = [node EXCEPT ![n] = Rests(d)]
                  /\ build' = IF ~d.parked /\ build = "RUNNING" THEN "FAILED" ELSE build
                  /\ UNCHANGED selected
                  /\ Leave(s, IF d.parked THEN {Recover(n, ex[s].att)} ELSE {})
             ELSE RollBack(s) /\ UNCHANGED ladder
        /\ UNCHANGED <<retakes, calls>>

\* _finalize, outside the try of the handler.
GmiFinalizes(s) ==
    /\ ex[s].pc = "storing" /\ NodeOf(s) \in Gmi
    /\ IF Landable(s) THEN Land(s) ELSE RollBack(s)
    /\ UNCHANGED <<retakes, ladder, calls>>

\* What the handler raises outside its try, before the stream (the prompt, the
\* fallback models, the input links) or after it (the stored output does not
\* verify), nobody records: the item is retried while it may be, or is dead.
GmiRaises(s) ==
    /\ ex[s].pc \in {"calling", "storing"} /\ NodeOf(s) \in Gmi
    /\ open' \in {open, open \ {ex[s].job}}
    /\ ex' = [ex EXCEPT ![s] = Idle]
    /\ UNCHANGED <<rows, retakes, ladder, calls, faults>>

\* The elapsed-time budget, counted from the start of the last attempt, is spent.
RunsLate(n) ==
    /\ n \in Gmi /\ attempts[n] # <<>> /\ ~ladder[n].late /\ Fault("late")
    /\ ladder' = [ladder EXCEPT ![n].late = TRUE]
    /\ UNCHANGED <<rows, open, ex, retakes, calls>>

=============================================================================
