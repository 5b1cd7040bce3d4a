------------------------------ MODULE DataFlow ------------------------------
(***************************************************************************)
(* What the execution of a build promises, free of handlers, attempts,     *)
(* work items and reviews: nodes are worked on as soon as, and never       *)
(* before, all their predecessors are done; what is done or failed stays   *)
(* so; the build succeeds with its last node, and fails only with a node.  *)
(* BuildExecution implements this module.                                  *)
(***************************************************************************)

CONSTANTS
    Nodes,           \* the nodes of the graph
    Edges,           \* its edges, from a predecessor
    Reuses           \* the sets of nodes that may be done from the start

VARIABLES
    state,           \* state[n]: where node n stands
    result           \* of the whole

flowVars == <<state, result>>

\* Whoever waited for the last of its predecessors is worked on at once.
Released(st) ==
    [n \in Nodes |->
       IF st[n] = "waiting" /\ \A e \in Edges : e[2] = n => st[e[1]] = "done"
         THEN "working" ELSE st[n]]

FlowInit ==
    /\ \E R \in Reuses : state = Released([n \in Nodes |-> IF n \in R THEN "done" ELSE "waiting"])
    /\ result = "open"

Finish(n) ==
    /\ state[n] = "working"
    /\ state' = Released([state EXCEPT ![n] = "done"])
    /\ IF \A m \in Nodes : state'[m] = "done"
         THEN result = "open" /\ result' = "succeeded"
         ELSE UNCHANGED result

Fail(n) ==
    /\ state[n] = "working"
    /\ state' = [state EXCEPT ![n] = "failed"]
    /\ \/ UNCHANGED result
       \/ result = "open" /\ result' = "failed"

FlowNext == \E n \in Nodes : Finish(n) \/ Fail(n)

FlowSpec == FlowInit /\ [][FlowNext]_flowVars

=============================================================================
