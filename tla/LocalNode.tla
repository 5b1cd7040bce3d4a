----------------------------- MODULE LocalNode ------------------------------
(***************************************************************************)
(* The handlers of the nodes no provider is asked for: the two sources     *)
(* (source_node_work.py), the cutout and the poster (local_image_work.py), *)
(* the end card (end_card_work.py) and the delivery package                *)
(* (delivery_work.py).  All but the sources record an attempt; the cutout, *)
(* the poster and the end card resume one that was interrupted, by         *)
(* composing again; the delivery package refuses to.                       *)
(***************************************************************************)
EXTENDS BuildStore

IsComposed(n) == Kind[n] \in {"image", "end_card", "delivery"}

\* One transaction resolves a source: no attempt, no selection.
SourceResolves(j) ==
    LET n  == j[1]
        st == [node EXCEPT ![n] = "PASSED"]
    IN  /\ Claimable(j) /\ Kind[n] = "source" /\ Fresh(n)
        /\ Schedule(st, "RUNNING")
        /\ Settle(j, TRUE, Posts(st))
        /\ UNCHANGED <<attempts, selected, ex, retakes, ladder, calls>>

\* The prepare transaction that starts an attempt.
LocalStarts(s, j) ==
    LET n == j[1] IN
    /\ IsComposed(n) /\ Fresh(n)
    /\ Enter(s, j, "calling", AttemptNo(n))
    /\ attempts' = [attempts EXCEPT ![n] = Append(@, "SUBMITTING")]
    /\ node' = [node EXCEPT ![n] = "RUNNING"]
    /\ build' = Started(n)
    /\ UNCHANGED <<selected, retakes, ladder, calls>>

Resumable(n) == Kind[n] \in {"image", "end_card"} /\ Latest(n) \in Live

\* The end card remembers that the attempt was FETCHING (already_fetching).
LocalResumes(s, j) ==
    LET n == j[1] IN
    /\ Resumable(n)
    /\ Enter(s, j, IF Kind[n] = "end_card" /\ Latest(n) = "FETCHING" THEN "skipping" ELSE "calling",
             Len(attempts[n]))
    /\ UNCHANGED <<rows, retakes, ladder, calls>>

\* _persist_fetching, once the output is stored and verified.
Persisted(s) ==
    \/ ex[s].pc = "skipping"
    \/ Kind[NodeOf(s)] = "image" /\ Row(s) = "FETCHING"

LocalPersists(s) ==
    /\ ex[s].pc \in {"calling", "skipping"} /\ IsComposed(NodeOf(s))
    /\ IF Persisted(s) \/ Row(s) = "SUBMITTING"
         THEN /\ IF Persisted(s) THEN UNCHANGED attempts ELSE Mark(NodeOf(s), ex[s].att, "FETCHING")
              /\ ex' = [ex EXCEPT ![s].pc = "storing"]
              /\ UNCHANGED <<build, node, selected, open, faults>>
         ELSE RollBack(s)
    /\ UNCHANGED <<retakes, ladder, calls>>

\* The build statuses a failed composition turns into FAILED; in any other the
\* node fails alone.
FailsBuild(n) == IF Kind[n] = "end_card" THEN {"RUNNING", "WAITING_REVIEW"} ELSE {"RUNNING"}

\* Variant of LocalFail: the attempt is left in flight.
LocalFailNodeOnly(s) ==
    /\ node' = [node EXCEPT ![NodeOf(s)] = "FAILED"]
    /\ build' = IF build \in FailsBuild(NodeOf(s)) THEN "FAILED" ELSE build
    /\ UNCHANGED <<attempts, selected>>
    /\ Leave(s, {})

\* _fail, which also takes over when _finalize raises InvalidSourceError.
LocalFail(s) ==
    /\ Mark(NodeOf(s), ex[s].att, "FAILED")
    /\ node' = [node EXCEPT ![NodeOf(s)] = "FAILED"]
    /\ build' = IF build \in FailsBuild(NodeOf(s)) THEN "FAILED" ELSE build
    /\ UNCHANGED selected
    /\ Leave(s, {})

\* The delivery handler asserts a constant transition, not that of its row.
Finalizable(s) ==
    /\ (Row(s) = "FETCHING" \/ Kind[NodeOf(s)] = "delivery")
    /\ node[NodeOf(s)] = "RUNNING"

LocalFinalizes(s) ==
    /\ ex[s].pc = "storing" /\ IsComposed(NodeOf(s))
    /\ IF ~Finalizable(s) THEN RollBack(s)
       ELSE IF Schedulable(PassedBy(s), build) THEN Land(s) ELSE LocalFail(s)
    /\ UNCHANGED <<retakes, ladder, calls>>

\* The composition, or the verification of what it stored, fails.
LocalFails(s) ==
    /\ ex[s].pc \in {"calling", "skipping"} /\ IsComposed(NodeOf(s))
    /\ IF Row(s) \in Live /\ node[NodeOf(s)] = "RUNNING" THEN LocalFail(s) ELSE RollBack(s)
    /\ UNCHANGED <<retakes, ladder, calls>>

=============================================================================
