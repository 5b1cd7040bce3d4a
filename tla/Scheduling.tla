----------------------------- MODULE Scheduling -----------------------------
(***************************************************************************)
(* The pure rules of scheduling.py: which nodes may start, and whether the *)
(* build has finished and how.  The worker decides both itself, in         *)
(* schedule_ready_nodes and in the handlers; the modules that model it     *)
(* state that it agrees with these rules.                                  *)
(* ORBIT marks every node required, so the nodes are the required ones.    *)
(***************************************************************************)
CONSTANTS
    Nodes,
    Edges            \* pairs <<predecessor, node>>

Satisfies == {"PASSED", "REUSED"}
Finished  == Satisfies \cup {"FAILED", "CANCELLED"}
InFlight  == {"QUEUED", "RUNNING", "STORING", "VERIFYING",
              "RETRY_PENDING", "FALLBACK_PENDING", "RETAKE_PENDING"}
Ended     == {"SUCCEEDED", "FAILED", "CANCELLED"}

DependenciesMet(st, n) == \A e \in Edges : e[2] = n => st[e[1]] \in Satisfies

\* ready_nodes; their order, by priority, is that of the queue.
ReadyNodes(st, build) ==
    IF build \in {"RUNNING", "QUEUED"}
      THEN {n \in Nodes : st[n] = "PENDING" /\ DependenciesMet(st, n)}
      ELSE {}

In(st, statuses) == {n \in Nodes : st[n] \in statuses}

\* evaluate_build_completion: a failure outranks a review, a review success.
Unfinished(st) == Nodes \ In(st, Finished \cup {"WAITING_REVIEW"})

Stuck(st) ==
    /\ In(st, {"WAITING_REVIEW"}) # {}
    /\ ReadyNodes(st, "RUNNING") = {} /\ In(st, InFlight) = {}

Outcome(st) ==
    IF In(st, {"FAILED"}) # {}                        THEN "FAILED"
    ELSE IF Unfinished(st) # {} /\ ~Stuck(st)         THEN "RUNNING"
    ELSE IF In(st, {"WAITING_REVIEW"}) # {}           THEN "WAITING_REVIEW"
    ELSE IF In(st, Satisfies) = Nodes                 THEN "SUCCEEDED"
    ELSE "FAILED"

Completion(st, build) ==
    CASE build \in Ended -> build
      [] build = "CANCELLING" ->
           IF In(st, {"RUNNING", "STORING", "VERIFYING"}) # {} THEN "CANCELLING" ELSE "CANCELLED"
      [] OTHER -> Outcome(st)

=============================================================================
