------------------------------- MODULE Review -------------------------------
(***************************************************************************)
(* The human decision on a node that waits for review (review.py).         *)
(***************************************************************************)
EXTENDS BuildStore

Decisions == {"PASS", "FAIL", "RETAKE"}

Target(decision) ==
    CASE decision = "PASS" -> "PASSED"
      [] decision = "FAIL" -> "FAILED"
      [] decision = "RETAKE" -> "RETAKE_PENDING"

\* There must be an output to accept.
Decidable(n, decision) ==
    /\ node[n] = "WAITING_REVIEW"
    /\ decision = "PASS" => selected[n] # 0

\* Every approval is a row of its own, so that a retake is a job of its own; a
\* decision other than FAIL sets a waiting build running again; none schedules.
Decide(n, decision) ==
    /\ Decidable(n, decision)
    /\ node' = [node EXCEPT ![n] = Target(decision)]
    /\ IF decision = "RETAKE"
         THEN /\ retakes[n] < MaxRetakes
              /\ retakes' = [retakes EXCEPT ![n] = @ + 1]
              /\ open' = open \cup {Retake(n, retakes[n] + 1)}
         ELSE UNCHANGED <<retakes, open>>
    /\ build' = IF build = "WAITING_REVIEW" /\ decision # "FAIL" THEN "RUNNING" ELSE build
    /\ UNCHANGED <<attempts, selected, ex, ladder, calls, faults>>

=============================================================================
