------------------------------ MODULE JobBoard ------------------------------
(***************************************************************************)
(* What the durable work queue promises to the code that relies on it,     *)
(* free of leases, owners, clocks and workers: a posted job is executed at *)
(* least once, possibly several times and by overlapping executions, until *)
(* it is closed; it is closed as done only on the word of an execution     *)
(* whose handler returned; and a closed job never opens again.  WorkQueue  *)
(* implements this module.                                                 *)
(***************************************************************************)

CONSTANT Jobs            \* the dedupe keys that can ever be posted

VARIABLES
    board,               \* board[j]: where job j stands
    verdicts             \* verdicts[j]: what the executions of j have said

boardVars == <<board, verdicts>>

Closings == {"done", "dead", "cancelled"}
Verdicts == {"started", "ok", "failed"}

BoardInit ==
    /\ board = [j \in Jobs |-> "absent"]
    /\ verdicts = [j \in Jobs |-> {}]

Say(S, v) ==
    verdicts' = [j \in Jobs |-> IF j \in S THEN verdicts[j] \cup {v} ELSE verdicts[j]]

Move(S, to) ==
    board' = [j \in Jobs |-> IF j \in S THEN to ELSE board[j]]

\* Posting twice is posting once: the dedupe key is unique.
Post(j) ==
    /\ board[j] = "absent"
    /\ Move({j}, "open")
    /\ UNCHANGED verdicts

\* One claim may start several jobs.
Start(S) ==
    /\ \A j \in S : board[j] = "open"
    /\ Say(S, "started")
    /\ UNCHANGED board

\* A handler may return long after another execution closed the job.
Return(j, v) ==
    /\ "started" \in verdicts[j]
    /\ Say({j}, v)
    /\ UNCHANGED board

MayClose(j, outcome) ==
    /\ board[j] = "open"
    /\ outcome = "done" => "ok" \in verdicts[j]
    /\ outcome = "dead" => "started" \in verdicts[j]

\* Reconciliation and cancellation close several jobs in one transaction.
Close(S, outcome) ==
    /\ \A j \in S : MayClose(j, outcome)
    /\ Move(S, outcome)
    /\ UNCHANGED verdicts

BoardNext ==
    \/ \E j \in Jobs : Post(j)
    \/ \E S \in SUBSET Jobs : Start(S)
    \/ \E j \in Jobs, v \in Verdicts \ {"started"} : Return(j, v)
    \/ \E S \in SUBSET Jobs, outcome \in Closings : Close(S, outcome)

BoardSpec == BoardInit /\ [][BoardNext]_boardVars

=============================================================================
