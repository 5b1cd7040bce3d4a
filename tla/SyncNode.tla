------------------------------ MODULE SyncNode ------------------------------
(***************************************************************************)
(* The handlers of the nodes a remote provider makes in one synchronous    *)
(* request: copy.pack (build_work.py), plan.shots (plan_work.py, with      *)
(* reentry.py), audio.narration (narration_work.py) and audio.music        *)
(* (music_work.py).  None of these requests can be repeated safely, so an  *)
(* attempt found SUBMITTING is never submitted again: it is parked for a   *)
(* human.                                                                  *)
(***************************************************************************)
EXTENDS BuildStore

IsSync(n) == Kind[n] \in SyncKinds

\* plan_reentry, which only the plan handler calls: a retake is submitted when
\* the attempt it supersedes is over.
Retaken(n) ==
    /\ Kind[n] = "plan"
    /\ node[n] = "RETAKE_PENDING" /\ Latest(n) = "FAILED"
    /\ build \in Runnable(n)

\* The prepare transaction that starts an attempt.
SyncSubmit(s, j) ==
    LET n == j[1] IN
    /\ IsSync(n) /\ (Fresh(n) \/ Retaken(n))
    /\ Enter(s, j, "calling", AttemptNo(n))
    /\ attempts' = [attempts EXCEPT ![n] = Append(@, "SUBMITTING")]
    /\ node' = [node EXCEPT ![n] = "RUNNING"]
    /\ build' = Started(n)
    /\ calls' = [calls EXCEPT ![n] = @ + 1]
    /\ UNCHANGED <<selected, retakes, ladder>>

\* The result of an earlier execution is durable: store it.
SyncResume(s, j) ==
    LET n == j[1] IN
    /\ IsSync(n) /\ Latest(n) = "FETCHING"
    /\ Enter(s, j, "storing", Len(attempts[n]))
    /\ UNCHANGED <<rows, retakes, ladder, calls>>

\* Variant of MarkAmbiguous: the node waits, the build does not hear of it.
MarkAmbiguousQuietly(n, a) ==
    /\ Mark(n, a, "FAILED")
    /\ node' = [node EXCEPT ![n] = "WAITING_REVIEW"]
    /\ UNCHANGED <<build, selected>>

\* Variant of MarkAmbiguous: the attempt is left in flight.
MarkNodeAmbiguous(n, a) ==
    /\ a \in Nat
    /\ node' = [node EXCEPT ![n] = "WAITING_REVIEW"]
    /\ build' = IF build = "RUNNING" THEN "WAITING_REVIEW" ELSE build
    /\ UNCHANGED <<attempts, selected>>

\* _mark_ambiguous: nobody knows whether the provider did the work.
MarkAmbiguous(n, a) ==
    /\ Mark(n, a, "FAILED")
    /\ node' = [node EXCEPT ![n] = "WAITING_REVIEW"]
    /\ build' = IF build = "RUNNING" THEN "WAITING_REVIEW" ELSE build
    /\ UNCHANGED selected

Parkable(n) == IsSync(n) /\ Latest(n) = "SUBMITTING" /\ node[n] = "RUNNING"

\* Variant of SyncPark: the interrupted request is sent again.
Resubmit(j) ==
    /\ Claimable(j) /\ Parkable(j[1])
    /\ \E s \in Slots : Enter(s, j, "calling", Len(attempts[j[1]]))
    /\ calls' = [calls EXCEPT ![j[1]] = @ + 1]
    /\ UNCHANGED <<rows, retakes, ladder>>

\* The prepare transaction that finds an attempt it cannot account for.
SyncPark(j) ==
    /\ Claimable(j) /\ Parkable(j[1])
    /\ MarkAmbiguous(j[1], Len(attempts[j[1]]))
    /\ Settle(j, TRUE, {})
    /\ UNCHANGED <<ex, retakes, ladder, calls>>

\* Variant of Acceptable: the status of the attempt is overwritten.
AcceptableAlways(s) == ex[s].pc = "calling"

Acceptable(s) == Row(s) \in Live

\* The provider answers and the answer is made durable, or is refused because
\* the attempt was parked in the meantime.
ProviderAnswers(s) ==
    /\ ex[s].pc = "calling" /\ IsSync(NodeOf(s))
    /\ IF Acceptable(s)
         THEN /\ Mark(NodeOf(s), ex[s].att, "FETCHING")
              /\ ex' = [ex EXCEPT ![s].pc = "storing"]
              /\ UNCHANGED <<build, node, selected, open, faults>>
         ELSE RollBack(s)
    /\ UNCHANGED <<retakes, ladder, calls>>

\* The call failed and may or may not have been accepted.
ProviderAmbiguous(s) ==
    /\ ex[s].pc = "calling" /\ IsSync(NodeOf(s))
    /\ IF Row(s) \in Live /\ node[NodeOf(s)] = "RUNNING"
         THEN MarkAmbiguous(NodeOf(s), ex[s].att) /\ Leave(s, {})
         ELSE RollBack(s)
    /\ UNCHANGED <<retakes, ladder, calls>>

\* _terminal_failure: the provider refused, or (music) what it sent does not
\* decode.  A build that has failed already cannot fail again: the whole
\* transaction rolls back.
SyncFails(s) ==
    /\ \/ ex[s].pc = "calling" /\ IsSync(NodeOf(s))
       \/ ex[s].pc = "storing" /\ Kind[NodeOf(s)] = "music"
    /\ IF Row(s) \in Live /\ node[NodeOf(s)] = "RUNNING"
             /\ build \in {"RUNNING", "WAITING_REVIEW"}
         THEN /\ Mark(NodeOf(s), ex[s].att, "FAILED")
              /\ node' = [node EXCEPT ![NodeOf(s)] = "FAILED"]
              /\ build' = "FAILED"
              /\ UNCHANGED selected
              /\ Leave(s, {})
         ELSE RollBack(s)
    /\ UNCHANGED <<retakes, ladder, calls>>

\* _finalize with every gate passed.
SyncFinalizes(s) ==
    /\ ex[s].pc = "storing" /\ IsSync(NodeOf(s))
    /\ IF Landable(s) THEN Land(s) ELSE RollBack(s)
    /\ UNCHANGED <<retakes, ladder, calls>>

\* _finalize_copy when the copy breaks a gate: the attempt succeeds and is
\* selected, the node and the build fail.
GateFails(s) ==
    /\ ex[s].pc = "storing" /\ Kind[NodeOf(s)] = "copy"
    /\ IF Row(s) = "FETCHING" /\ node[NodeOf(s)] = "RUNNING"
             /\ build \in {"RUNNING", "WAITING_REVIEW"}
         THEN /\ Mark(NodeOf(s), ex[s].att, "SUCCEEDED")
              /\ selected' = [selected EXCEPT ![NodeOf(s)] = ex[s].att]
              /\ node' = [node EXCEPT ![NodeOf(s)] = "FAILED"]
              /\ build' = "FAILED"
              /\ Leave(s, {})
         ELSE RollBack(s)
    /\ UNCHANGED <<retakes, ladder, calls>>

=============================================================================
