------------------------ MODULE BuildExecution_proofs ------------------------
(***************************************************************************)
(* Theorems about BuildExecution, for every graph, every policy and every  *)
(* number of nodes, handler executions, retakes and faults.                *)
(***************************************************************************)
EXTENDS BuildExecution, FiniteSetTheorems, SequenceTheorems, WellFoundedInduction, TLAPS

\* An execution refers to an attempt its node really has; what it stores for a
\* composed node is past SUBMITTING.
Referring(s) ==
    /\ ex[s].att \in 1..Len(attempts[NodeOf(s)])
    /\ ex[s].pc = "skipping" => Kind[NodeOf(s)] = "end_card"
    /\ ex[s].pc \in {"skipping", "storing"} /\ IsComposed(NodeOf(s)) => Row(s) # "SUBMITTING"

Refers == \A s \in Slots : ex[s] # Idle => Referring(s)

\* Only the plan and the nodes of GMI Cloud are attempted twice.
Single == \A n \in Nodes : Kind[n] \notin {"plan", "gmi"} => Len(attempts[n]) <= 1

\* What is selected is not revised.
Chosen == \A n \in Nodes : selected[n] # 0 => node[n] \in {"PASSED", "FAILED"}

\* No node runs ahead of its predecessors.
Ordered ==
    \A n \in Nodes : node[n] # "PENDING" => \A m \in Preds(n) : node[m] \in Satisfying

\* A retake that was ordered and not taken up is a request not made yet.
Paid ==
    \A n \in Nodes :
        /\ calls[n] <= 1 + retakes[n]
        /\ node[n] = "RETAKE_PENDING" => calls[n] <= retakes[n]
        /\ attempts[n] = <<>> => calls[n] = 0

\* A parked node is one of GMI Cloud, and why its last attempt failed is known.
Diagnosed ==
    \A n \in Nodes : Parked(n) => n \in Gmi /\ LastStep(n).error \in ErrorClasses

IInv ==
    /\ TypeOK /\ Refers /\ Single /\ OnlyLatestLives /\ NodeMatchesAttempt
    /\ Chosen /\ Ordered /\ Paid /\ Diagnosed
    /\ LadderWithinBudget /\ FailedModelNotRepeated /\ DecisionStands

-----------------------------------------------------------------------------
(* Sequences, attempts, executions *)

\* A sequence is empty when it has no length.
LEMMA EmptyLength == ASSUME NEW S, NEW q \in Seq(S) PROVE q = <<>> <=> Len(q) = 0
  BY EmptySeq

\* Of the numbers in a set, one is the least.
LEMMA Least ==
    ASSUME NEW T, T \subseteq Nat, T # {}
    PROVE  \E i \in T : \A k \in T : i <= k
  <1> DEFINE Segments == {1..i : i \in T}
             R == StrictSubsetOrdering(Nat)
  <1>1. ASSUME NEW i \in T PROVE 1..i \in FiniteSubsetsOf(Nat)
    <2>1. IsFiniteSet(1..i)
      BY FS_Interval
    <2> QED
      BY <2>1 DEF FiniteSubsetsOf
  <1>2. Segments \subseteq FiniteSubsetsOf(Nat) /\ Segments # {}
    BY <1>1
  <1>3. PICK x \in Segments : \A y \in Segments : ~ (<<y, x>> \in R)
    <2>1. IsWellFoundedOn(R, FiniteSubsetsOf(Nat))
      BY FS_StrictSubsetOrderingWellFounded
    <2> HIDE DEF R, Segments
    <2> QED
      BY <1>2, <2>1, WFMin
  <1>4. PICK i \in T : x = 1..i
    BY <1>3
  <1>5. ASSUME NEW k \in T, k < i PROVE FALSE
    <2>1. k \in Nat /\ i \in Nat
      OBVIOUS
    <2>2. 1..k \subseteq 1..i /\ i \notin 1..k /\ i \in 1..i
      BY <1>5, <2>1
    <2>3. <<1..k, 1..i>> \in R
      BY <2>1, <2>2 DEF StrictSubsetOrdering
    <2> QED
      BY <1>3, <1>4, <2>3
  <1>6. \A k \in T : i <= k
    BY <1>5
  <1> QED
    BY <1>6

\* The status of one attempt changes.
LEMMA Marking ==
    ASSUME TypeOK, NEW n \in Nodes, NEW a \in 1..Len(attempts[n]),
           NEW status \in AttemptStatuses, Mark(n, a, status)
    PROVE  /\ attempts' \in [Nodes -> Seq(AttemptStatuses)]
           /\ \A m \in Nodes \ {n} : attempts'[m] = attempts[m]
           /\ Len(attempts'[n]) = Len(attempts[n])
           /\ \A i \in 1..Len(attempts[n]) :
                attempts'[n][i] = IF i = a THEN status ELSE attempts[n][i]
  <1> DEFINE list == [attempts[n] EXCEPT ![a] = status]
  <1>1. attempts \in [Nodes -> Seq(AttemptStatuses)] /\ attempts' = [attempts EXCEPT ![n] = list]
    BY DEF TypeOK, Mark
  <1>2. attempts[n] \in Seq(AttemptStatuses)
    BY <1>1
  <1>3. /\ list \in Seq(AttemptStatuses) /\ Len(list) = Len(attempts[n])
        /\ \A i \in 1..Len(attempts[n]) : list[i] = IF i = a THEN status ELSE attempts[n][i]
    BY <1>2, ExceptSeq
  <1> HIDE DEF list
  <1> QED
    BY <1>1, <1>3

\* An attempt is added.
LEMMA Appending ==
    ASSUME TypeOK, NEW n \in Nodes,
           attempts' = [attempts EXCEPT ![n] = Append(@, "SUBMITTING")]
    PROVE  /\ attempts' \in [Nodes -> Seq(AttemptStatuses)]
           /\ \A m \in Nodes \ {n} : attempts'[m] = attempts[m]
           /\ Len(attempts'[n]) = Len(attempts[n]) + 1
           /\ attempts'[n][Len(attempts[n]) + 1] = "SUBMITTING"
           /\ \A i \in 1..Len(attempts[n]) : attempts'[n][i] = attempts[n][i]
  <1> DEFINE list == Append(attempts[n], "SUBMITTING")
  <1>1. attempts \in [Nodes -> Seq(AttemptStatuses)] /\ attempts' = [attempts EXCEPT ![n] = list]
    BY DEF TypeOK
  <1>2. attempts[n] \in Seq(AttemptStatuses) /\ "SUBMITTING" \in AttemptStatuses
    BY <1>1 DEF AttemptStatuses
  <1>3. /\ list \in Seq(AttemptStatuses) /\ Len(list) = Len(attempts[n]) + 1
        /\ list[Len(attempts[n]) + 1] = "SUBMITTING"
        /\ \A i \in 1..Len(attempts[n]) : list[i] = attempts[n][i]
    BY <1>2, AppendProperties
  <1> HIDE DEF list
  <1> QED
    BY <1>1, <1>3

\* The attempts of a node, and the latest of them.
LEMMA Attempts ==
    ASSUME TypeOK, NEW n \in Nodes
    PROVE  /\ attempts[n] \in Seq(AttemptStatuses) /\ Len(attempts[n]) \in Nat
           /\ attempts[n] = <<>> <=> Len(attempts[n]) = 0
           /\ \A a \in 1..Len(attempts[n]) : attempts[n][a] \in AttemptStatuses
           /\ Latest(n) = IF Len(attempts[n]) = 0 THEN "NONE" ELSE attempts[n][Len(attempts[n])]
  <1>1. attempts[n] \in Seq(AttemptStatuses)
    BY DEF TypeOK
  <1>2. attempts[n] = <<>> <=> Len(attempts[n]) = 0
    BY <1>1, EmptyLength
  <1>3. Len(attempts[n]) \in Nat /\ \A a \in 1..Len(attempts[n]) : attempts[n][a] \in AttemptStatuses
    BY <1>1, LenProperties, ElementOfSeq
  <1> QED
    BY <1>1, <1>2, <1>3 DEF Latest

\* Only the latest attempt can be in flight, or have succeeded.
LEMMA LiveIsLatest ==
    ASSUME TypeOK, OnlyLatestLives, NEW n \in Nodes, NEW a \in 1..Len(attempts[n]),
           attempts[n][a] # "FAILED"
    PROVE  a = Len(attempts[n]) /\ Latest(n) = attempts[n][a]
  <1>1. Len(attempts[n]) \in Nat
    BY Attempts
  <1>2. a = Len(attempts[n])
    BY <1>1 DEF OnlyLatestLives
  <1> QED
    BY <1>1, <1>2, Attempts

\* What an execution is.
LEMMA ExecutionIs ==
    ASSUME TypeOK, NEW s \in Slots, ex[s] # Idle
    PROVE  /\ ex[s] \in Executing /\ NodeOf(s) \in Nodes /\ ex[s].att \in Nat \ {0}
           /\ ex[s].job \in JobIds /\ ex[s].held \in BOOLEAN
           /\ ex[s].pc \in {"calling", "skipping", "storing"}
  BY DEF TypeOK, Executing, NodeOf, JobIds

-----------------------------------------------------------------------------
(***************************************************************************)
(* What a transaction does to the rows of a build: one of eight kinds of   *)
(* change of one node, of its latest attempt and of the build.             *)
(***************************************************************************)

RowsTyped ==
    /\ build \in BuildStatuses
    /\ node \in [Nodes -> NodeStatuses]
    /\ attempts \in [Nodes -> Seq(AttemptStatuses)]
    /\ selected \in [Nodes -> Nat]

Elsewhere(n) ==
    \A m \in Nodes \ {n} : attempts'[m] = attempts[m] /\ selected'[m] = selected[m]

Alone(n) == Elsewhere(n) /\ \A m \in Nodes \ {n} : node'[m] = node[m]

\* The latest attempt of n gets a status.
Sets(n, status) ==
    /\ Len(attempts[n]) > 0 /\ Len(attempts'[n]) = Len(attempts[n])
    /\ \A i \in 1..Len(attempts[n]) :
         attempts'[n][i] = IF i = Len(attempts[n]) THEN status ELSE attempts[n][i]

Begins(n) ==
    /\ Alone(n) /\ Kind[n] # "source"
    /\ \/ node[n] = "QUEUED" /\ Len(attempts[n]) = 0
       \/ node[n] = "RETAKE_PENDING" /\ Kind[n] = "plan" /\ Latest(n) = "FAILED"
       \/ Parked(n) /\ Kind[n] = "gmi" /\ Latest(n) = "FAILED"
    /\ Len(attempts'[n]) = Len(attempts[n]) + 1
    /\ attempts'[n][Len(attempts[n]) + 1] = "SUBMITTING"
    /\ \A i \in 1..Len(attempts[n]) : attempts'[n][i] = attempts[n][i]
    /\ node'[n] = "RUNNING" /\ selected'[n] = selected[n]
    /\ build' = build \/ (build = "QUEUED" /\ build' = "RUNNING")

Fetches(n) ==
    /\ Alone(n) /\ Latest(n) \in Live /\ Sets(n, "FETCHING")
    /\ node'[n] = node[n] /\ selected'[n] = selected[n] /\ build' = build

Ends(n) ==
    /\ Alone(n) /\ Latest(n) \in Live /\ Sets(n, "FAILED")
    /\ node[n] = "RUNNING" /\ selected'[n] = selected[n]
    /\ \/ node'[n] \in {"WAITING_REVIEW", "FAILED"}
       \/ Kind[n] = "gmi" /\ node'[n] \in {"RETRY_PENDING", "FALLBACK_PENDING"}
    /\ \/ build' = build
       \/ build = "RUNNING" /\ build' = "WAITING_REVIEW"
       \/ /\ build \in {"RUNNING", "WAITING_REVIEW"} /\ build' = "FAILED"
          /\ node'[n] = "FAILED"

Gates(n) ==
    /\ Alone(n) /\ Latest(n) = "FETCHING" /\ Sets(n, "SUCCEEDED")
    /\ node[n] = "RUNNING" /\ node'[n] = "FAILED" /\ selected'[n] = Len(attempts[n])
    /\ build \in {"RUNNING", "WAITING_REVIEW"} /\ build' = "FAILED"

Passing(n) == [node EXCEPT ![n] = "PASSED"]

Lands(n) ==
    /\ Elsewhere(n) /\ Latest(n) = "FETCHING" /\ Sets(n, "SUCCEEDED")
    /\ node[n] = "RUNNING" /\ selected'[n] = Len(attempts[n])
    /\ Schedulable(Passing(n), build) /\ Schedule(Passing(n), build)

Resolves(n) ==
    /\ Kind[n] = "source" /\ node[n] = "QUEUED" /\ build \in {"QUEUED", "RUNNING"}
    /\ UNCHANGED <<attempts, selected>> /\ Schedule(Passing(n), "RUNNING")

Decides(n) ==
    /\ Alone(n) /\ attempts'[n] = attempts[n] /\ selected'[n] = selected[n]
    /\ node[n] = "WAITING_REVIEW" /\ node'[n] \in {"FAILED", "RETAKE_PENDING"}
    /\ \/ build' = build
       \/ /\ build = "WAITING_REVIEW" /\ build' = "RUNNING"
          /\ node'[n] = "RETAKE_PENDING"
    /\ node'[n] = "RETAKE_PENDING" => retakes'[n] = retakes[n] + 1

Changes(n) ==
    \/ Begins(n) \/ Fetches(n) \/ Ends(n) \/ Gates(n)
    \/ Lands(n) \/ Resolves(n) \/ Decides(n)

RowStep == UNCHANGED rows \/ \E n \in Nodes : Changes(n)

\* The latest attempt of a node changes its status.
LEMMA MarkingLatest ==
    ASSUME TypeOK, OnlyLatestLives, NEW n \in Nodes, NEW a \in 1..Len(attempts[n]),
           attempts[n][a] # "FAILED", NEW status \in AttemptStatuses, Mark(n, a, status)
    PROVE  /\ a = Len(attempts[n]) /\ Latest(n) = attempts[n][a]
           /\ attempts' \in [Nodes -> Seq(AttemptStatuses)]
           /\ \A m \in Nodes \ {n} : attempts'[m] = attempts[m]
           /\ Sets(n, status)
  <1>1. a = Len(attempts[n]) /\ Latest(n) = attempts[n][a]
    BY LiveIsLatest
  <1>2. Len(attempts[n]) > 0
    BY Attempts
  <1>3. /\ attempts' \in [Nodes -> Seq(AttemptStatuses)]
        /\ \A m \in Nodes \ {n} : attempts'[m] = attempts[m]
        /\ Len(attempts'[n]) = Len(attempts[n])
        /\ \A i \in 1..Len(attempts[n]) :
             attempts'[n][i] = IF i = a THEN status ELSE attempts[n][i]
    BY Marking
  <1> QED
    BY <1>1, <1>2, <1>3 DEF Sets

\* The row an execution works on.
LEMMA RowIs ==
    ASSUME TypeOK, Refers, NEW s \in Slots, ex[s] # Idle
    PROVE  /\ NodeOf(s) \in Nodes /\ ex[s].att \in 1..Len(attempts[NodeOf(s)])
           /\ Row(s) = attempts[NodeOf(s)][ex[s].att]
           /\ Row(s) \in AttemptStatuses
  <1>1. NodeOf(s) \in Nodes
    BY ExecutionIs
  <1>2. ex[s].att \in 1..Len(attempts[NodeOf(s)])
    BY DEF Refers, Referring
  <1>3. attempts[NodeOf(s)][ex[s].att] \in AttemptStatuses
    BY <1>1, <1>2, Attempts
  <1> QED
    BY <1>1, <1>2, <1>3 DEF Row

\* Starting the build.
LEMMA Starting ==
    ASSUME NEW n \in Nodes, build \in BuildStatuses, build' = Started(n)
    PROVE  build' \in BuildStatuses /\ (build' = build \/ (build = "QUEUED" /\ build' = "RUNNING"))
  <1>1. build' = build \/ (build = "QUEUED" /\ build' = "RUNNING")
    BY DEF Started
  <1> QED
    BY <1>1 DEF BuildStatuses

\* The transactions that start an attempt.
LEMMA BeginStep ==
    ASSUME TypeOK, NEW s \in Slots, NEW j \in open,
           SyncSubmit(s, j) \/ LocalStarts(s, j) \/ GmiSubmit(s, j)
    PROVE  RowsTyped' /\ RowStep
  <1> DEFINE n == j[1]
  <1>1. n \in Nodes
    BY DEF TypeOK, JobIds
  <1>2. /\ attempts' = [attempts EXCEPT ![n] = Append(@, "SUBMITTING")]
        /\ node' = [node EXCEPT ![n] = "RUNNING"]
        /\ build' = Started(n) /\ selected' = selected
        /\ Kind[n] # "source"
        /\ \/ Fresh(n)
           \/ Retaken(n)
           \/ Recoverable(n)
    BY DEF SyncSubmit, LocalStarts, GmiSubmit, IsSync, SyncKinds, IsComposed, Gmi
  <1>3. /\ attempts[n] = <<>> <=> Len(attempts[n]) = 0
        /\ Kind[n] = "gmi" \/ n \notin Gmi
    BY <1>1, Attempts DEF Gmi
  <1>4. \/ node[n] = "QUEUED" /\ Len(attempts[n]) = 0
        \/ node[n] = "RETAKE_PENDING" /\ Kind[n] = "plan" /\ Latest(n) = "FAILED"
        \/ Parked(n) /\ Kind[n] = "gmi" /\ Latest(n) = "FAILED"
    BY <1>2, <1>3 DEF Fresh, Retaken, Recoverable
  <1>5. /\ attempts' \in [Nodes -> Seq(AttemptStatuses)]
        /\ \A m \in Nodes \ {n} : attempts'[m] = attempts[m]
        /\ Len(attempts'[n]) = Len(attempts[n]) + 1
        /\ attempts'[n][Len(attempts[n]) + 1] = "SUBMITTING"
        /\ \A i \in 1..Len(attempts[n]) : attempts'[n][i] = attempts[n][i]
    BY <1>1, <1>2, Appending
  <1>6. build' \in BuildStatuses /\ (build' = build \/ (build = "QUEUED" /\ build' = "RUNNING"))
    BY <1>1, <1>2, Starting DEF TypeOK
  <1>7. /\ node' \in [Nodes -> NodeStatuses] /\ node'[n] = "RUNNING"
        /\ \A m \in Nodes \ {n} : node'[m] = node[m]
    BY <1>1, <1>2 DEF TypeOK, NodeStatuses
  <1>8. RowsTyped'
    BY <1>2, <1>5, <1>6, <1>7 DEF TypeOK, RowsTyped
  <1>9. Begins(n)
    BY <1>1, <1>2, <1>4, <1>5, <1>6, <1>7 DEF Begins, Alone, Elsewhere
  <1> QED
    BY <1>1, <1>8, <1>9 DEF RowStep, Changes

\* The steps that leave the rows alone.
LEMMA StillStep ==
    ASSUME TypeOK, UNCHANGED rows
    PROVE  RowsTyped' /\ RowStep
  BY DEF TypeOK, RowsTyped, RowStep, rows

\* An answer, or an output, is made durable.
LEMMA FetchStep ==
    ASSUME TypeOK, Refers, OnlyLatestLives, NEW s \in Slots, ex[s] # Idle, Row(s) \in Live,
           Mark(NodeOf(s), ex[s].att, "FETCHING"), UNCHANGED <<build, node, selected>>
    PROVE  RowsTyped' /\ RowStep
  <1> DEFINE n == NodeOf(s)
  <1>1. /\ n \in Nodes /\ ex[s].att \in 1..Len(attempts[n])
        /\ attempts[n][ex[s].att] = Row(s)
    BY RowIs
  <1>2. attempts[n][ex[s].att] # "FAILED" /\ "FETCHING" \in AttemptStatuses
    BY <1>1 DEF Live, AttemptStatuses
  <1>3. /\ Latest(n) \in Live
        /\ attempts' \in [Nodes -> Seq(AttemptStatuses)]
        /\ \A m \in Nodes \ {n} : attempts'[m] = attempts[m]
        /\ Sets(n, "FETCHING")
    BY <1>1, <1>2, MarkingLatest
  <1>4. RowsTyped'
    BY <1>3 DEF TypeOK, RowsTyped
  <1>5. Fetches(n)
    BY <1>1, <1>3 DEF Fetches, Alone, Elsewhere
  <1> QED
    BY <1>1, <1>4, <1>5 DEF RowStep, Changes

\* The end of an attempt without an output: parked, failed or left to a human.
LEMMA EndStep ==
    ASSUME TypeOK, OnlyLatestLives, NEW n \in Nodes, NEW a \in 1..Len(attempts[n]),
           attempts[n][a] \in Live, node[n] = "RUNNING", Mark(n, a, "FAILED"),
           NEW status, node' = [node EXCEPT ![n] = status], selected' = selected,
           \/ status \in {"WAITING_REVIEW", "FAILED"}
           \/ Kind[n] = "gmi" /\ status \in {"RETRY_PENDING", "FALLBACK_PENDING"},
           \/ build' = build
           \/ build = "RUNNING" /\ build' = "WAITING_REVIEW"
           \/ /\ build \in {"RUNNING", "WAITING_REVIEW"} /\ build' = "FAILED"
              /\ status = "FAILED"
    PROVE  RowsTyped' /\ RowStep
  <1>1. attempts[n][a] # "FAILED" /\ "FAILED" \in AttemptStatuses
    BY DEF Live, AttemptStatuses
  <1>2. /\ Latest(n) \in Live
        /\ attempts' \in [Nodes -> Seq(AttemptStatuses)]
        /\ \A m \in Nodes \ {n} : attempts'[m] = attempts[m]
        /\ Sets(n, "FAILED")
    BY <1>1, MarkingLatest
  <1>3. /\ node' \in [Nodes -> NodeStatuses] /\ node'[n] = status
        /\ \A m \in Nodes \ {n} : node'[m] = node[m]
    BY DEF TypeOK, NodeStatuses
  <1>4. build' \in BuildStatuses
    BY DEF TypeOK, BuildStatuses
  <1>5. RowsTyped'
    BY <1>2, <1>3, <1>4 DEF TypeOK, RowsTyped
  <1>6. Ends(n)
    BY <1>2, <1>3 DEF Ends, Alone, Elsewhere
  <1> QED
    BY <1>5, <1>6 DEF RowStep, Changes

\* Queueing what is ready keeps the statuses of nodes.
LEMMA Queueing ==
    ASSUME TypeOK, NEW n \in Nodes
    PROVE  /\ Passing(n) \in [Nodes -> NodeStatuses] /\ Passing(n)[n] = "PASSED"
           /\ \A m \in Nodes \ {n} : Passing(n)[m] = node[m]
           /\ Queued(Passing(n)) \in [Nodes -> NodeStatuses]
           /\ Queued(Passing(n))[n] = "PASSED"
  <1>1. /\ Passing(n) \in [Nodes -> NodeStatuses] /\ Passing(n)[n] = "PASSED"
        /\ \A m \in Nodes \ {n} : Passing(n)[m] = node[m]
    BY DEF TypeOK, Passing, NodeStatuses
  <1>2. "QUEUED" \in NodeStatuses /\ n \notin Unblocked(Passing(n))
    BY <1>1 DEF NodeStatuses, Unblocked
  <1>3. Queued(Passing(n)) \in [Nodes -> NodeStatuses] /\ Queued(Passing(n))[n] = "PASSED"
    BY <1>1, <1>2 DEF Queued
  <1> QED
    BY <1>1, <1>3

\* An output is stored, its node passes and its dependents are queued.
LEMMA LandStep ==
    ASSUME TypeOK, OnlyLatestLives, Refers, NEW s \in Slots, ex[s] # Idle,
           Row(s) = "FETCHING", node[NodeOf(s)] = "RUNNING",
           Schedulable(PassedBy(s), build), Land(s)
    PROVE  RowsTyped' /\ RowStep
  <1> DEFINE n == NodeOf(s)
             a == ex[s].att
  <1>1. /\ n \in Nodes /\ a \in 1..Len(attempts[n]) /\ a \in Nat
        /\ attempts[n][a] = "FETCHING"
    BY RowIs, ExecutionIs
  <1>2. "SUCCEEDED" \in AttemptStatuses /\ Mark(n, a, "SUCCEEDED") /\ attempts[n][a] # "FAILED"
    BY <1>1 DEF AttemptStatuses, Land
  <1>3. /\ a = Len(attempts[n]) /\ Latest(n) = "FETCHING"
        /\ attempts' \in [Nodes -> Seq(AttemptStatuses)]
        /\ \A m \in Nodes \ {n} : attempts'[m] = attempts[m]
        /\ Sets(n, "SUCCEEDED")
    BY <1>1, <1>2, MarkingLatest
  <1>4. selected' = [selected EXCEPT ![n] = a] /\ Schedule(PassedBy(s), build)
    BY DEF Land
  <1>5. /\ selected' \in [Nodes -> Nat] /\ selected'[n] = Len(attempts[n])
        /\ \A m \in Nodes \ {n} : selected'[m] = selected[m]
    BY <1>1, <1>3, <1>4 DEF TypeOK
  <1>6. PassedBy(s) = Passing(n)
    BY DEF PassedBy, Passing
  <1>7. node' \in [Nodes -> NodeStatuses] /\ build' \in BuildStatuses
    BY <1>1, <1>4, <1>6, Queueing DEF Schedule, TypeOK, BuildStatuses
  <1>8. RowsTyped'
    BY <1>3, <1>5, <1>7 DEF RowsTyped
  <1>9. Lands(n)
    BY <1>3, <1>4, <1>5, <1>6 DEF Lands, Elsewhere
  <1> QED
    BY <1>1, <1>8, <1>9 DEF RowStep, Changes

\* The output of the copy breaks a gate.
LEMMA GateStep ==
    ASSUME TypeOK, OnlyLatestLives, Refers, NEW s \in Slots, GateFails(s)
    PROVE  RowsTyped' /\ RowStep
  <1> DEFINE n == NodeOf(s)
             a == ex[s].att
  <1>1. CASE UNCHANGED rows
    BY <1>1, StillStep
  <1>2. CASE ~ UNCHANGED rows
    <2>1. /\ Row(s) = "FETCHING" /\ node[n] = "RUNNING" /\ build \in {"RUNNING", "WAITING_REVIEW"}
          /\ Mark(n, a, "SUCCEEDED") /\ selected' = [selected EXCEPT ![n] = a]
          /\ node' = [node EXCEPT ![n] = "FAILED"] /\ build' = "FAILED"
          /\ ex[s] # Idle
      BY <1>2 DEF GateFails, RollBack, Idle
    <2>2. /\ n \in Nodes /\ a \in 1..Len(attempts[n]) /\ a \in Nat
          /\ attempts[n][a] = "FETCHING"
      BY <2>1, RowIs, ExecutionIs
    <2>3. "SUCCEEDED" \in AttemptStatuses /\ attempts[n][a] # "FAILED"
      BY <2>2 DEF AttemptStatuses
    <2>4. /\ a = Len(attempts[n]) /\ Latest(n) = "FETCHING"
          /\ attempts' \in [Nodes -> Seq(AttemptStatuses)]
          /\ \A m \in Nodes \ {n} : attempts'[m] = attempts[m]
          /\ Sets(n, "SUCCEEDED")
      BY <2>1, <2>2, <2>3, MarkingLatest
    <2>5. /\ selected' \in [Nodes -> Nat] /\ selected'[n] = Len(attempts[n])
          /\ \A m \in Nodes \ {n} : selected'[m] = selected[m]
      BY <2>1, <2>2, <2>4 DEF TypeOK
    <2>6. /\ node' \in [Nodes -> NodeStatuses] /\ node'[n] = "FAILED"
          /\ \A m \in Nodes \ {n} : node'[m] = node[m]
      BY <2>1, <2>2 DEF TypeOK, NodeStatuses
    <2>7. RowsTyped'
      BY <2>1, <2>4, <2>5, <2>6 DEF RowsTyped, BuildStatuses
    <2>8. Gates(n)
      BY <2>1, <2>4, <2>5, <2>6 DEF Gates, Alone, Elsewhere
    <2> QED
      BY <2>2, <2>7, <2>8 DEF RowStep, Changes
  <1> QED
    BY <1>1, <1>2

\* A source is resolved.
LEMMA ResolveStep ==
    ASSUME TypeOK, NEW j \in open, SourceResolves(j)
    PROVE  RowsTyped' /\ RowStep
  <1> DEFINE n == j[1]
  <1>1. n \in Nodes
    BY DEF TypeOK, JobIds
  <1>2. /\ Kind[n] = "source" /\ Fresh(n) /\ Schedule(Passing(n), "RUNNING")
        /\ UNCHANGED <<attempts, selected>>
    BY DEF SourceResolves, Passing
  <1>3. node[n] = "QUEUED" /\ build \in {"QUEUED", "RUNNING"}
    BY <1>2 DEF Fresh, Runnable
  <1>4. node' \in [Nodes -> NodeStatuses] /\ build' \in BuildStatuses
    BY <1>1, <1>2, Queueing DEF Schedule, BuildStatuses
  <1>5. RowsTyped'
    BY <1>2, <1>4 DEF RowsTyped, TypeOK
  <1>6. Resolves(n)
    BY <1>2, <1>3 DEF Resolves
  <1> QED
    BY <1>1, <1>5, <1>6 DEF RowStep, Changes

\* A human decides; what waits for a decision has no output to accept.
LEMMA DecideStep ==
    ASSUME TypeOK, Chosen, NEW n \in Nodes, NEW decision \in Decisions, Decide(n, decision)
    PROVE  RowsTyped' /\ RowStep
  <1>1. node[n] = "WAITING_REVIEW" /\ decision \in {"FAIL", "RETAKE"}
    BY DEF Decide, Decidable, Chosen, Decisions
  <1>2. Target(decision) = IF decision = "FAIL" THEN "FAILED" ELSE "RETAKE_PENDING"
    BY <1>1 DEF Target
  <1>3. /\ node' \in [Nodes -> NodeStatuses] /\ node'[n] = Target(decision)
        /\ \A m \in Nodes \ {n} : node'[m] = node[m]
    BY <1>2 DEF TypeOK, NodeStatuses, Decide
  <1>4. /\ UNCHANGED <<attempts, selected>>
        /\ build' = IF build = "WAITING_REVIEW" /\ decision # "FAIL" THEN "RUNNING" ELSE build
    BY DEF Decide
  <1>5. RowsTyped'
    BY <1>3, <1>4 DEF RowsTyped, TypeOK, BuildStatuses
  <1>6. decision = "RETAKE" => retakes'[n] = retakes[n] + 1
    BY DEF Decide, TypeOK
  <1>7. Decides(n)
    BY <1>1, <1>2, <1>3, <1>4, <1>6 DEF Decides, Alone, Elsewhere
  <1> QED
    BY <1>5, <1>7 DEF RowStep, Changes

\* A composed output that can be stored belongs to a FETCHING attempt, also where
\* the handler does not look (the delivery package).
LEMMA ComposedIsFetching ==
    ASSUME TypeOK, Refers, Single, NodeMatchesAttempt, NEW s \in Slots,
           ex[s].pc = "storing", IsComposed(NodeOf(s)), Finalizable(s)
    PROVE  ex[s] # Idle /\ Row(s) = "FETCHING" /\ node[NodeOf(s)] = "RUNNING"
  <1> DEFINE n == NodeOf(s)
  <1>1. ex[s] # Idle /\ node[n] = "RUNNING"
    BY DEF Idle, Finalizable
  <1>2. /\ n \in Nodes /\ ex[s].att \in 1..Len(attempts[n])
        /\ Row(s) = attempts[n][ex[s].att] /\ Row(s) # "SUBMITTING"
    BY <1>1, RowIs DEF Refers, Referring
  <1>3. Latest(n) \in Live
    BY <1>1, <1>2 DEF NodeMatchesAttempt
  <1>4. Len(attempts[n]) <= 1
    BY <1>2 DEF Single, IsComposed
  <1>5. ex[s].att = Len(attempts[n]) /\ Row(s) = Latest(n)
    BY <1>2, <1>4, Attempts
  <1> QED
    BY <1>1, <1>2, <1>3, <1>5 DEF Live

\* Every step of the build is one of the kinds of change.
LEMMA EveryRowStep ==
    ASSUME TypeOK, Refers, Single, OnlyLatestLives, NodeMatchesAttempt, Chosen, [Next]_vars
    PROVE  RowsTyped' /\ RowStep
  <1>1. ASSUME NEW s \in Slots, NEW j \in open,
               SyncSubmit(s, j) \/ LocalStarts(s, j) \/ GmiSubmit(s, j)
        PROVE  RowsTyped' /\ RowStep
    BY <1>1, BeginStep
  <1>2. ASSUME NEW j \in open, SyncPark(j)
        PROVE  RowsTyped' /\ RowStep
    <2> DEFINE n == j[1]
    <2>1. n \in Nodes
      BY DEF TypeOK, JobIds
    <2>2. /\ Latest(n) = "SUBMITTING" /\ node[n] = "RUNNING" /\ Mark(n, Len(attempts[n]), "FAILED")
          /\ node' = [node EXCEPT ![n] = "WAITING_REVIEW"] /\ selected' = selected
          /\ build' = IF build = "RUNNING" THEN "WAITING_REVIEW" ELSE build
      BY <1>2 DEF SyncPark, Parkable, MarkAmbiguous
    <2>3. Len(attempts[n]) \in 1..Len(attempts[n]) /\ attempts[n][Len(attempts[n])] \in Live
      BY <2>1, <2>2, Attempts DEF Live
    <2> QED
      BY <2>1, <2>2, <2>3, EndStep
  <1>3. ASSUME NEW s \in Slots, ex[s] # Idle, Row(s) \in Live, node[NodeOf(s)] = "RUNNING",
               Mark(NodeOf(s), ex[s].att, "FAILED"), selected' = selected,
               NEW status, node' = [node EXCEPT ![NodeOf(s)] = status],
               \/ status \in {"WAITING_REVIEW", "FAILED"}
               \/ Kind[NodeOf(s)] = "gmi" /\ status \in {"RETRY_PENDING", "FALLBACK_PENDING"},
               \/ build' = build
               \/ build = "RUNNING" /\ build' = "WAITING_REVIEW"
               \/ /\ build \in {"RUNNING", "WAITING_REVIEW"} /\ build' = "FAILED"
                  /\ status = "FAILED"
        PROVE  RowsTyped' /\ RowStep
    <2>1. /\ NodeOf(s) \in Nodes /\ ex[s].att \in 1..Len(attempts[NodeOf(s)])
          /\ attempts[NodeOf(s)][ex[s].att] \in Live
      BY <1>3, RowIs
    <2> QED
      BY <1>3, <2>1, EndStep
  <1>4. ASSUME NEW s \in Slots, LocalFail(s), ex[s] # Idle, Row(s) \in Live,
               node[NodeOf(s)] = "RUNNING"
        PROVE  RowsTyped' /\ RowStep
    <2>1. /\ Mark(NodeOf(s), ex[s].att, "FAILED") /\ selected' = selected
          /\ node' = [node EXCEPT ![NodeOf(s)] = "FAILED"]
          /\ build' = IF build \in FailsBuild(NodeOf(s)) THEN "FAILED" ELSE build
      BY <1>4 DEF LocalFail
    <2>2. build' = build \/ (build \in {"RUNNING", "WAITING_REVIEW"} /\ build' = "FAILED")
      BY <2>1 DEF FailsBuild
    <2> QED
      BY <1>3, <1>4, <2>1, <2>2
  <1>5. ASSUME NEW s \in Slots, ProviderAnswers(s) \/ LocalPersists(s) \/ GmiStores(s)
        PROVE  RowsTyped' /\ RowStep
    <2>1. ex[s] # Idle
      BY <1>5 DEF ProviderAnswers, LocalPersists, GmiStores, Idle
    <2>2. CASE UNCHANGED rows
      BY <2>2, StillStep
    <2>3. CASE ~ UNCHANGED rows
      <3>1. /\ Row(s) \in Live /\ Mark(NodeOf(s), ex[s].att, "FETCHING")
            /\ UNCHANGED <<build, node, selected>>
        <4>1. CASE ProviderAnswers(s)
          BY <2>3, <4>1 DEF ProviderAnswers, Acceptable, RollBack
        <4>2. CASE LocalPersists(s)
          BY <2>3, <4>2 DEF LocalPersists, Persisted, RollBack, Live, rows
        <4>3. CASE GmiStores(s)
          BY <2>3, <4>3 DEF GmiStores, rows
        <4> QED
          BY <1>5, <4>1, <4>2, <4>3
      <3> QED
        BY <2>1, <3>1, FetchStep
    <2> QED
      BY <2>2, <2>3
  <1>6. ASSUME NEW s \in Slots, ProviderAmbiguous(s)
        PROVE  RowsTyped' /\ RowStep
    <2>1. CASE UNCHANGED rows
      BY <2>1, StillStep
    <2>2. CASE ~ UNCHANGED rows
      <3>1. /\ ex[s] # Idle /\ Row(s) \in Live /\ node[NodeOf(s)] = "RUNNING"
            /\ MarkAmbiguous(NodeOf(s), ex[s].att)
        BY <1>6, <2>2 DEF ProviderAmbiguous, RollBack, Idle
      <3>2. /\ Mark(NodeOf(s), ex[s].att, "FAILED") /\ selected' = selected
            /\ node' = [node EXCEPT ![NodeOf(s)] = "WAITING_REVIEW"]
            /\ build' = IF build = "RUNNING" THEN "WAITING_REVIEW" ELSE build
        BY <3>1 DEF MarkAmbiguous
      <3>3. build' = build \/ (build = "RUNNING" /\ build' = "WAITING_REVIEW")
        BY <3>2
      <3> QED
        BY <1>3, <3>1, <3>2, <3>3
    <2> QED
      BY <2>1, <2>2
  <1>7. ASSUME NEW s \in Slots, SyncFails(s)
        PROVE  RowsTyped' /\ RowStep
    <2>1. CASE UNCHANGED rows
      BY <2>1, StillStep
    <2>2. CASE ~ UNCHANGED rows
      <3>1. /\ ex[s] # Idle /\ Row(s) \in Live /\ node[NodeOf(s)] = "RUNNING"
            /\ Mark(NodeOf(s), ex[s].att, "FAILED") /\ selected' = selected
            /\ node' = [node EXCEPT ![NodeOf(s)] = "FAILED"]
            /\ build \in {"RUNNING", "WAITING_REVIEW"} /\ build' = "FAILED"
        BY <1>7, <2>2 DEF SyncFails, RollBack, Idle
      <3> QED
        BY <1>3, <3>1
    <2> QED
      BY <2>1, <2>2
  <1>8. ASSUME NEW s \in Slots, LocalFails(s)
        PROVE  RowsTyped' /\ RowStep
    <2>1. CASE UNCHANGED rows
      BY <2>1, StillStep
    <2>2. CASE ~ UNCHANGED rows
      <3>1. ex[s] # Idle /\ Row(s) \in Live /\ node[NodeOf(s)] = "RUNNING" /\ LocalFail(s)
        BY <1>8, <2>2 DEF LocalFails, RollBack, Idle
      <3> QED
        BY <1>4, <3>1
    <2> QED
      BY <2>1, <2>2
  <1>9. ASSUME NEW s \in Slots, NEW error \in Errors, GmiFails(s, error)
        PROVE  RowsTyped' /\ RowStep
    <2>1. CASE UNCHANGED rows
      BY <2>1, StillStep
    <2>2. CASE ~ UNCHANGED rows
      <3> DEFINE n == NodeOf(s)
                 d == Recovery(n, error)
                 status == IF d.parked THEN d.status ELSE "FAILED"
      <3>1. /\ ex[s] # Idle /\ n \in Gmi /\ Row(s) \in Live /\ node[n] = "RUNNING"
            /\ Mark(n, ex[s].att, "FAILED") /\ selected' = selected
            /\ node' = [node EXCEPT ![n] = status]
            /\ build' = IF ~d.parked /\ build = "RUNNING" THEN "FAILED" ELSE build
        BY <1>9, <2>2 DEF GmiFails, Rests, RollBack, Idle
      <3>2. d.parked => d.status \in {"RETRY_PENDING", "FALLBACK_PENDING"}
        BY DEF Recovery, NextMove, Parking, Declined
      <3>3. Kind[n] = "gmi"
        BY <3>1 DEF Gmi
      <3>4. build' = build \/ (build = "RUNNING" /\ build' = "FAILED" /\ ~d.parked)
        BY <3>1
      <3>5. \/ status \in {"WAITING_REVIEW", "FAILED"}
            \/ Kind[n] = "gmi" /\ status \in {"RETRY_PENDING", "FALLBACK_PENDING"}
        BY <3>2, <3>3
      <3>6. ~d.parked => status = "FAILED"
        OBVIOUS
      <3> HIDE DEF d, status
      <3> QED
        BY <1>3, <3>1, <3>4, <3>5, <3>6
    <2> QED
      BY <2>1, <2>2
  <1>10. ASSUME NEW s \in Slots, SyncFinalizes(s) \/ GmiFinalizes(s)
         PROVE  RowsTyped' /\ RowStep
    <2>1. CASE UNCHANGED rows
      BY <2>1, StillStep
    <2>2. CASE ~ UNCHANGED rows
      <3>1. ex[s] # Idle /\ Landable(s) /\ Land(s)
        BY <1>10, <2>2 DEF SyncFinalizes, GmiFinalizes, RollBack, Idle
      <3>2. /\ Row(s) = "FETCHING" /\ node[NodeOf(s)] = "RUNNING"
            /\ Schedulable(PassedBy(s), build)
        BY <3>1 DEF Landable
      <3> QED
        BY <3>1, <3>2, LandStep
    <2> QED
      BY <2>1, <2>2
  <1>11. ASSUME NEW s \in Slots, LocalFinalizes(s)
         PROVE  RowsTyped' /\ RowStep
    <2>1. CASE UNCHANGED rows
      BY <2>1, StillStep
    <2>2. CASE ~ UNCHANGED rows
      <3>1. /\ ex[s].pc = "storing" /\ IsComposed(NodeOf(s)) /\ Finalizable(s)
            /\ (Schedulable(PassedBy(s), build) /\ Land(s)) \/ LocalFail(s)
        BY <1>11, <2>2 DEF LocalFinalizes, RollBack
      <3>2. ex[s] # Idle /\ Row(s) = "FETCHING" /\ node[NodeOf(s)] = "RUNNING"
        BY <3>1, ComposedIsFetching
      <3>3. CASE Schedulable(PassedBy(s), build) /\ Land(s)
        BY <3>2, <3>3, LandStep
      <3>4. CASE LocalFail(s)
        BY <1>4, <3>2, <3>4 DEF Live
      <3> QED
        BY <3>1, <3>3, <3>4
    <2> QED
      BY <2>1, <2>2
  <1>12. ASSUME NEW s \in Slots, GateFails(s) PROVE RowsTyped' /\ RowStep
    BY <1>12, GateStep
  <1>13. ASSUME NEW j \in open, SourceResolves(j) PROVE RowsTyped' /\ RowStep
    BY <1>13, ResolveStep
  <1>14. ASSUME NEW n \in Nodes, NEW decision \in Decisions, Decide(n, decision)
         PROVE  RowsTyped' /\ RowStep
    BY <1>14, DecideStep
  <1>15. ASSUME UNCHANGED rows PROVE RowsTyped' /\ RowStep
    BY <1>15, StillStep
  <1>16. ASSUME NEW s \in Slots, NEW j \in open, SyncResume(s, j) \/ LocalResumes(s, j)
         PROVE  UNCHANGED rows
    BY <1>16 DEF SyncResume, LocalResumes
  <1>17. ASSUME NEW j \in open, Dismiss(j) \/ Abandon(j)
         PROVE  UNCHANGED rows
    BY <1>17 DEF Dismiss, Abandon
  <1>18. ASSUME NEW s \in Slots, GmiRaises(s) \/ Lapse(s) \/ Raises(s)
         PROVE  UNCHANGED rows
    BY <1>18 DEF GmiRaises, Lapse, Raises
  <1>19. ASSUME NEW S \in SUBSET Slots, Crash(S) PROVE UNCHANGED rows
    BY <1>19 DEF Crash
  <1>20. ASSUME NEW n \in Nodes, RunsLate(n) PROVE UNCHANGED rows
    BY <1>20 DEF RunsLate
  <1>21. UNCHANGED vars => UNCHANGED rows
    BY DEF vars, rows
  <1> QED
    BY <1>1, <1>2, <1>5, <1>6, <1>7, <1>8, <1>9, <1>10, <1>11, <1>12, <1>13, <1>14, <1>15,
       <1>16, <1>17, <1>18, <1>19, <1>20, <1>21
       DEF Next

-----------------------------------------------------------------------------
(* What a step means for one node *)

Waits(m) == attempts'[m] = attempts[m] /\ selected'[m] = selected[m] /\ node'[m] = node[m]

Follows(m) ==
    /\ attempts'[m] = attempts[m] /\ selected'[m] = selected[m]
    /\ node[m] = "PENDING" /\ node'[m] = "QUEUED"
    /\ \A p \in Preds(m) : node'[p] \in Satisfying

NodeStep(m) ==
    \/ Waits(m) \/ Follows(m) \/ Begins(m) \/ Fetches(m) \/ Ends(m) \/ Gates(m) \/ Decides(m)
    \/ (Lands(m) \/ Resolves(m)) /\ node'[m] = "PASSED"

\* Queueing moves pending nodes, all of whose predecessors are satisfied.
LEMMA Released ==
    ASSUME TypeOK, NEW n \in Nodes, node' = Queued(Passing(n)), NEW m \in Nodes \ {n}
    PROVE  \/ node'[m] = node[m]
           \/ /\ node[m] = "PENDING" /\ node'[m] = "QUEUED"
              /\ \A p \in Preds(m) : node'[p] \in Satisfying
  <1>1. /\ Passing(n) \in [Nodes -> NodeStatuses] /\ Passing(n)[m] = node[m]
    BY Queueing
  <1>2. CASE m \notin Unblocked(Passing(n))
    BY <1>1, <1>2 DEF Queued
  <1>3. CASE m \in Unblocked(Passing(n))
    <2>1. node[m] = "PENDING" /\ node'[m] = "QUEUED"
      BY <1>1, <1>3 DEF Queued, Unblocked
    <2>2. ASSUME NEW p \in Preds(m) PROVE node'[p] \in Satisfying
      <3>1. p \in Nodes /\ Passing(n)[p] \in Satisfying
        BY <1>3, <2>2, GraphAssumption DEF Unblocked, Preds
      <3>2. p \notin Unblocked(Passing(n))
        BY <3>1 DEF Unblocked, Satisfying
      <3>3. node'[p] = Passing(n)[p]
        BY <3>1, <3>2 DEF Queued
      <3> QED
        BY <3>1, <3>3
    <2> QED
      BY <2>1, <2>2
  <1> QED
    BY <1>2, <1>3

\* A change of the rows, seen by one node: its own change, or that of another.
LEMMA EveryNodeStep ==
    ASSUME TypeOK, RowStep, NEW m \in Nodes
    PROVE  NodeStep(m)
  <1>1. CASE UNCHANGED rows
    BY <1>1 DEF rows, NodeStep, Waits
  <1>2. ASSUME NEW n \in Nodes,
               Begins(n) \/ Fetches(n) \/ Ends(n) \/ Gates(n) \/ Decides(n)
        PROVE  NodeStep(m)
    <2>1. Alone(n)
      BY <1>2 DEF Begins, Fetches, Ends, Gates, Decides
    <2>2. CASE m = n
      BY <1>2, <2>2 DEF NodeStep
    <2>3. CASE m # n
      BY <2>1, <2>3 DEF Alone, Elsewhere, NodeStep, Waits
    <2> QED
      BY <2>2, <2>3
  <1>3. ASSUME NEW n \in Nodes, Lands(n) \/ Resolves(n)
        PROVE  NodeStep(m)
    <2>1. node' = Queued(Passing(n)) /\ Elsewhere(n)
      BY <1>3 DEF Lands, Resolves, Schedule, Elsewhere
    <2>2. CASE m = n
      <3>1. node'[m] = "PASSED"
        BY <2>1, <2>2, Queueing
      <3> QED
        BY <1>3, <2>2, <3>1 DEF NodeStep
    <2>3. CASE m # n
      <3>1. \/ node'[m] = node[m]
            \/ /\ node[m] = "PENDING" /\ node'[m] = "QUEUED"
               /\ \A p \in Preds(m) : node'[p] \in Satisfying
        BY <2>1, <2>3, Released
      <3> QED
        BY <2>1, <2>3, <3>1 DEF Elsewhere, NodeStep, Waits, Follows
    <2> QED
      BY <2>2, <2>3
  <1> QED
    BY <1>1, <1>2, <1>3 DEF RowStep, Changes

\* The attempts of a node in the next state.
LEMMA AttemptsNext ==
    ASSUME RowsTyped', NEW n \in Nodes
    PROVE  /\ attempts'[n] \in Seq(AttemptStatuses) /\ Len(attempts'[n]) \in Nat
           /\ Latest(n)' = IF Len(attempts'[n]) = 0 THEN "NONE"
                           ELSE attempts'[n][Len(attempts'[n])]
  <1>1. attempts'[n] \in Seq(AttemptStatuses)
    BY DEF RowsTyped
  <1>2. attempts'[n] = <<>> <=> Len(attempts'[n]) = 0
    BY <1>1, EmptyLength
  <1>3. Len(attempts'[n]) \in Nat
    BY <1>1, LenProperties
  <1> QED
    BY <1>1, <1>2, <1>3 DEF Latest

\* What the kinds of change do to the attempts of the node: nothing, the latest
\* gets a status, or one is added after the latest failed.
LEMMA AttemptsStep ==
    ASSUME TypeOK, RowsTyped', NEW n \in Nodes, NodeStep(n)
    PROVE  \/ attempts'[n] = attempts[n] /\ Latest(n)' = Latest(n)
           \/ /\ \E status \in {"FETCHING", "SUCCEEDED", "FAILED"} :
                   Sets(n, status) /\ Latest(n)' = status
              /\ Latest(n) \in Live
           \/ /\ Len(attempts'[n]) = Len(attempts[n]) + 1
              /\ \A i \in 1..Len(attempts[n]) : attempts'[n][i] = attempts[n][i]
              /\ Latest(n)' = "SUBMITTING"
              /\ Latest(n) = "FAILED" \/ Len(attempts[n]) = 0
              /\ Kind[n] \in {"plan", "gmi"} \/ Len(attempts[n]) = 0
  <1>0. /\ Len(attempts'[n]) \in Nat /\ Len(attempts[n]) \in Nat
        /\ Latest(n) = IF Len(attempts[n]) = 0 THEN "NONE" ELSE attempts[n][Len(attempts[n])]
        /\ Latest(n)' = IF Len(attempts'[n]) = 0 THEN "NONE" ELSE attempts'[n][Len(attempts'[n])]
    BY Attempts, AttemptsNext
  <1>1. CASE Waits(n) \/ Follows(n) \/ Decides(n) \/ Resolves(n)
    <2>1. attempts'[n] = attempts[n]
      BY <1>1 DEF Waits, Follows, Decides, Resolves
    <2> QED
      BY <1>0, <2>1
  <1>2. ASSUME NEW status \in {"FETCHING", "SUCCEEDED", "FAILED"}, Sets(n, status)
        PROVE  Latest(n)' = status
    BY <1>0, <1>2 DEF Sets
  <1>3. CASE Fetches(n) \/ Ends(n) \/ Gates(n) \/ Lands(n)
    <2>1. Latest(n) \in Live
      BY <1>3 DEF Fetches, Ends, Gates, Lands, Live
    <2>2. Sets(n, "FETCHING") \/ Sets(n, "FAILED") \/ Sets(n, "SUCCEEDED")
      BY <1>3 DEF Fetches, Ends, Gates, Lands
    <2> QED
      BY <1>2, <2>1, <2>2
  <1>4. CASE Begins(n)
    <2>1. /\ Len(attempts'[n]) = Len(attempts[n]) + 1
          /\ attempts'[n][Len(attempts[n]) + 1] = "SUBMITTING"
          /\ \A i \in 1..Len(attempts[n]) : attempts'[n][i] = attempts[n][i]
      BY <1>4 DEF Begins
    <2>2. /\ Latest(n) = "FAILED" \/ Len(attempts[n]) = 0
          /\ Kind[n] \in {"plan", "gmi"} \/ Len(attempts[n]) = 0
      BY <1>4 DEF Begins
    <2>3. Latest(n)' = "SUBMITTING"
      BY <1>0, <2>1
    <2> QED
      BY <2>1, <2>2, <2>3
  <1> QED
    BY <1>1, <1>3, <1>4 DEF NodeStep

\* Only the plan and the nodes of GMI Cloud are attempted again.
LEMMA SingleStep ==
    ASSUME TypeOK, Single, RowsTyped', RowStep
    PROVE  Single'
  <1> SUFFICES ASSUME NEW n \in Nodes, Kind[n] \notin {"plan", "gmi"}
               PROVE  Len(attempts'[n]) <= 1
    BY DEF Single
  <1>1. NodeStep(n)
    BY EveryNodeStep
  <1> DEFINE k == Len(attempts[n])
             l == Len(attempts'[n])
  <1>2. k \in Nat /\ k <= 1
    BY Attempts DEF Single
  <1>3. \/ attempts'[n] = attempts[n]
        \/ \E status \in {"FETCHING", "SUCCEEDED", "FAILED"} : Sets(n, status)
        \/ Len(attempts'[n]) = Len(attempts[n]) + 1 /\ Len(attempts[n]) = 0
    BY <1>1, AttemptsStep
  <1>4. l = k \/ (l = k + 1 /\ k = 0)
    BY <1>3 DEF Sets
  <1> HIDE DEF k, l
  <1>5. l <= 1
    BY <1>2, <1>4
  <1> QED
    BY <1>5 DEF l

\* What is superseded has failed.
LEMMA LatestStep ==
    ASSUME TypeOK, OnlyLatestLives, RowsTyped', RowStep
    PROVE  OnlyLatestLives'
  <1> SUFFICES ASSUME NEW n \in Nodes, NEW a \in 1..Len(attempts'[n]), a < Len(attempts'[n])
               PROVE  attempts'[n][a] = "FAILED"
    BY DEF OnlyLatestLives
  <1>1. NodeStep(n)
    BY EveryNodeStep
  <1>2. Len(attempts[n]) \in Nat /\ Len(attempts'[n]) \in Nat
    BY Attempts, AttemptsNext
  <1>3. CASE attempts'[n] = attempts[n]
    BY <1>2, <1>3 DEF OnlyLatestLives
  <1>4. ASSUME NEW status, Sets(n, status) PROVE attempts'[n][a] = "FAILED"
    <2>1. a \in 1..Len(attempts[n]) /\ a < Len(attempts[n]) /\ attempts'[n][a] = attempts[n][a]
      BY <1>2, <1>4 DEF Sets
    <2> QED
      BY <2>1 DEF OnlyLatestLives
  <1>5. ASSUME Len(attempts'[n]) = Len(attempts[n]) + 1,
               \A i \in 1..Len(attempts[n]) : attempts'[n][i] = attempts[n][i],
               Latest(n) = "FAILED" \/ Len(attempts[n]) = 0
        PROVE  attempts'[n][a] = "FAILED"
    <2>1. a \in 1..Len(attempts[n]) /\ attempts'[n][a] = attempts[n][a]
      BY <1>2, <1>5
    <2>2. CASE a < Len(attempts[n])
      BY <2>1, <2>2 DEF OnlyLatestLives
    <2>3. CASE a = Len(attempts[n])
      BY <1>2, <1>5, <2>1, <2>3, Attempts
    <2> QED
      BY <1>2, <2>1, <2>2, <2>3
  <1> QED
    BY <1>1, <1>3, <1>4, <1>5, AttemptsStep

\* The node row and the attempt rows go on telling the same story.
LEMMA StoryStep ==
    ASSUME TypeOK, NodeMatchesAttempt, RowsTyped', RowStep
    PROVE  NodeMatchesAttempt'
  <1> SUFFICES ASSUME NEW n \in Nodes
               PROVE  /\ node'[n] = "RUNNING" <=> Latest(n)' \in Live
                      /\ \/ node'[n] \in {"WAITING_REVIEW", "RETAKE_PENDING"}
                         \/ node'[n] \in {"RETRY_PENDING", "FALLBACK_PENDING"}
                         => Latest(n)' = "FAILED"
                      /\ node'[n] \in {"PENDING", "QUEUED", "REUSED"} => Latest(n)' = "NONE"
                      /\ node'[n] = "PASSED" /\ Kind[n] # "source" =>
                           selected'[n] = Len(attempts'[n]) /\ Latest(n)' = "SUCCEEDED"
    BY DEF NodeMatchesAttempt, Parked
  <1>1. NodeStep(n)
    BY EveryNodeStep
  <1>2. /\ node[n] = "RUNNING" <=> Latest(n) \in Live
        /\ \/ node[n] \in {"WAITING_REVIEW", "RETAKE_PENDING"}
           \/ node[n] \in {"RETRY_PENDING", "FALLBACK_PENDING"}
           => Latest(n) = "FAILED"
        /\ node[n] \in {"PENDING", "QUEUED", "REUSED"} => Latest(n) = "NONE"
        /\ node[n] = "PASSED" /\ Kind[n] # "source" =>
             selected[n] = Len(attempts[n]) /\ Latest(n) = "SUCCEEDED"
    BY DEF NodeMatchesAttempt, Parked
  <1>3. /\ Len(attempts'[n]) \in Nat /\ Len(attempts[n]) \in Nat
        /\ Latest(n) = IF Len(attempts[n]) = 0 THEN "NONE" ELSE attempts[n][Len(attempts[n])]
        /\ Latest(n)' = IF Len(attempts'[n]) = 0 THEN "NONE" ELSE attempts'[n][Len(attempts'[n])]
    BY Attempts, AttemptsNext
  <1>4. CASE Waits(n) \/ Follows(n) \/ Decides(n)
    <2>1. Latest(n)' = Latest(n) /\ attempts'[n] = attempts[n] /\ selected'[n] = selected[n]
      BY <1>3, <1>4 DEF Waits, Follows, Decides
    <2>2. CASE Waits(n)
      BY <1>2, <2>1, <2>2 DEF Waits
    <2>3. CASE Follows(n) \/ Decides(n)
      BY <1>2, <2>1, <2>3 DEF Follows, Decides, Live
    <2> QED
      BY <1>4, <2>2, <2>3
  <1>5. ASSUME NEW status, Sets(n, status)
        PROVE  Latest(n)' = status /\ Len(attempts'[n]) = Len(attempts[n])
    BY <1>3, <1>5 DEF Sets
  <1>6. CASE Resolves(n) /\ node'[n] = "PASSED"
    <2>1. Latest(n)' = Latest(n) /\ Latest(n) = "NONE" /\ Kind[n] = "source"
      BY <1>2, <1>3, <1>6 DEF Resolves
    <2> QED
      BY <1>6, <2>1 DEF Live
  <1>7. CASE Fetches(n)
    <2>1. Latest(n)' = "FETCHING" /\ node'[n] = node[n] /\ Latest(n) \in Live
      BY <1>5, <1>7 DEF Fetches
    <2> QED
      BY <1>2, <2>1 DEF Live
  <1>8. CASE Ends(n)
    <2>1. /\ Latest(n)' = "FAILED"
          /\ node'[n] \in {"WAITING_REVIEW", "FAILED", "RETRY_PENDING", "FALLBACK_PENDING"}
      BY <1>5, <1>8 DEF Ends
    <2> QED
      BY <2>1 DEF Live
  <1>9. CASE Gates(n)
    <2>1. Latest(n)' = "SUCCEEDED" /\ node'[n] = "FAILED"
      BY <1>5, <1>9 DEF Gates
    <2> QED
      BY <2>1 DEF Live
  <1>10. CASE Lands(n) /\ node'[n] = "PASSED"
    <2>1. /\ Latest(n)' = "SUCCEEDED" /\ Len(attempts'[n]) = Len(attempts[n])
          /\ selected'[n] = Len(attempts[n])
      BY <1>5, <1>10 DEF Lands
    <2> QED
      BY <1>10, <2>1 DEF Live
  <1>11. CASE Begins(n)
    <2>1. Latest(n)' = "SUBMITTING" /\ node'[n] = "RUNNING"
      BY <1>3, <1>11 DEF Begins
    <2> QED
      BY <2>1 DEF Live
  <1> QED
    BY <1>1, <1>4, <1>6, <1>7, <1>8, <1>9, <1>10, <1>11 DEF NodeStep

\* What the kinds of change do to the status of the node.
LEMMA StatusStep ==
    ASSUME NEW n \in Nodes, NodeStep(n)
    PROVE  /\ node[n] \in {"PASSED", "REUSED", "FAILED"} =>
                node'[n] = node[n] /\ selected'[n] = selected[n]
           /\ \/ selected'[n] = selected[n] \/ node'[n] \in {"PASSED", "FAILED"}
           /\ node'[n] # node[n] => <<node[n], node'[n]>> \in NodeMoves
  <1>1. CASE node'[n] = node[n] /\ selected'[n] = selected[n]
    BY <1>1
  <1>2. CASE Follows(n)
    BY <1>2 DEF Follows, NodeMoves
  <1>3. CASE Begins(n)
    BY <1>3 DEF Begins, NodeMoves, Parked
  <1>4. CASE Ends(n)
    BY <1>4 DEF Ends, NodeMoves
  <1>5. CASE Gates(n)
    BY <1>5 DEF Gates, NodeMoves
  <1>6. CASE Decides(n)
    BY <1>6 DEF Decides, NodeMoves
  <1>7. CASE Lands(n) /\ node'[n] = "PASSED"
    BY <1>7 DEF Lands, NodeMoves
  <1>8. CASE Resolves(n) /\ node'[n] = "PASSED"
    BY <1>8 DEF Resolves, NodeMoves
  <1> QED
    BY <1>1, <1>2, <1>3, <1>4, <1>5, <1>6, <1>7, <1>8 DEF NodeStep, Waits, Fetches

\* What is selected stays with a node that is through.
LEMMA ChosenStep ==
    ASSUME TypeOK, Chosen, RowStep
    PROVE  Chosen'
  <1> SUFFICES ASSUME NEW n \in Nodes, selected'[n] # 0
               PROVE  node'[n] \in {"PASSED", "FAILED"}
    BY DEF Chosen
  <1>1. NodeStep(n)
    BY EveryNodeStep
  <1> QED
    BY <1>1, StatusStep DEF Chosen

\* What nodes wait for is not taken back.
LEMMA OrderedStep ==
    ASSUME TypeOK, Ordered, RowStep
    PROVE  Ordered'
  <1> SUFFICES ASSUME NEW n \in Nodes, node'[n] # "PENDING", NEW m \in Preds(n)
               PROVE  node'[m] \in Satisfying
    BY DEF Ordered, Preds
  <1>1. m \in Nodes /\ NodeStep(n) /\ NodeStep(m)
    BY EveryNodeStep, GraphAssumption DEF Preds
  <1>2. CASE node[n] # "PENDING"
    BY <1>1, <1>2, StatusStep DEF Ordered, Satisfying
  <1>3. CASE node[n] = "PENDING"
    <2>1. Follows(n)
      BY <1>1, <1>3 DEF NodeStep, Waits, Begins, Fetches, Ends, Gates, Decides, Lands, Resolves,
                        Parked, Follows, Live
    <2> QED
      BY <2>1 DEF Follows
  <1> QED
    BY <1>2, <1>3

-----------------------------------------------------------------------------
(* The moves of the build, and the data flow it implements *)

\* A source is not the last node of its build to be done: another one reads it.
LEMMA SourceIsNotLast ==
    ASSUME TypeOK, Ordered, NEW n \in Nodes, Resolves(n)
    PROVE  ~ Complete(Queued(Passing(n)))
  <1>1. PICK m \in Nodes : <<n, m>> \in Edges
    BY SourceAssumption DEF Resolves
  <1>2. n \in Preds(m)
    BY <1>1 DEF Preds
  <1>3. node[m] = "PENDING" /\ m # n
    BY <1>1, <1>2 DEF Ordered, Resolves, Satisfying
  <1>4. Passing(n)[m] = "PENDING"
    BY <1>3, Queueing
  <1>5. Queued(Passing(n))[m] \in {"PENDING", "QUEUED"}
    BY <1>4 DEF Queued
  <1> QED
    BY <1>5 DEF Complete, Satisfying

\* The build moves along its table.
LEMMA BuildMovesStep ==
    ASSUME TypeOK, Ordered, RowStep, build' # build
    PROVE  <<build, build'>> \in BuildMoves
  <1>1. ASSUME NEW n \in Nodes, Begins(n) PROVE <<build, build'>> \in BuildMoves
    BY <1>1 DEF Begins, BuildMoves
  <1>2. ASSUME NEW n \in Nodes, Ends(n) PROVE <<build, build'>> \in BuildMoves
    BY <1>2 DEF Ends, BuildMoves
  <1>3. ASSUME NEW n \in Nodes, Gates(n) \/ Decides(n) PROVE <<build, build'>> \in BuildMoves
    BY <1>3 DEF Gates, Decides, BuildMoves
  <1>4. ASSUME NEW n \in Nodes, Lands(n) PROVE <<build, build'>> \in BuildMoves
    <2>1. /\ Complete(Queued(Passing(n))) => build = "RUNNING"
          /\ build' = IF Complete(Queued(Passing(n))) THEN "SUCCEEDED" ELSE build
      BY <1>4 DEF Lands, Schedulable, Schedule
    <2>2. build = "RUNNING" /\ build' = "SUCCEEDED"
      BY <2>1
    <2> QED
      BY <2>2 DEF BuildMoves
  <1>5. ASSUME NEW n \in Nodes, Resolves(n) PROVE <<build, build'>> \in BuildMoves
    <2>1. ~ Complete(Queued(Passing(n)))
      BY <1>5, SourceIsNotLast
    <2>2. build \in {"QUEUED", "RUNNING"} /\ build' = "RUNNING"
      BY <1>5, <2>1 DEF Resolves, Schedule
    <2> QED
      BY <2>2 DEF BuildMoves
  <1> QED
    BY <1>1, <1>2, <1>3, <1>4, <1>5 DEF RowStep, Changes, Fetches, rows

\* Attempts are added and move along their table.
LEMMA AttemptMovesStep ==
    ASSUME TypeOK, OnlyLatestLives, RowsTyped', NEW n \in Nodes, NodeStep(n)
    PROVE  /\ Len(attempts'[n]) >= Len(attempts[n])
           /\ \A a \in 1..Len(attempts[n]) :
                attempts'[n][a] # attempts[n][a] =>
                  <<attempts[n][a], attempts'[n][a]>> \in AttemptMoves
  <1>1. Len(attempts[n]) \in Nat /\ Len(attempts'[n]) \in Nat
    BY Attempts, AttemptsNext
  <1>2. CASE attempts'[n] = attempts[n]
    BY <1>1, <1>2
  <1>3. CASE Begins(n)
    BY <1>1, <1>3 DEF Begins
  <1>4. ASSUME NEW status, Sets(n, status), <<Latest(n), status>> \in AttemptMoves \/ Latest(n) = status
        PROVE  /\ Len(attempts'[n]) >= Len(attempts[n])
               /\ \A a \in 1..Len(attempts[n]) :
                    attempts'[n][a] # attempts[n][a] =>
                      <<attempts[n][a], attempts'[n][a]>> \in AttemptMoves
    <2>1. Len(attempts'[n]) = Len(attempts[n]) /\ Latest(n) = attempts[n][Len(attempts[n])]
      BY <1>1, <1>4, Attempts DEF Sets
    <2>2. ASSUME NEW a \in 1..Len(attempts[n]), attempts'[n][a] # attempts[n][a]
          PROVE  <<attempts[n][a], attempts'[n][a]>> \in AttemptMoves
      <3>1. a = Len(attempts[n]) /\ attempts'[n][a] = status
        BY <1>4, <2>2 DEF Sets
      <3> QED
        BY <1>4, <2>1, <2>2, <3>1
    <2> QED
      BY <1>1, <2>1, <2>2
  <1>5. CASE Fetches(n)
    <2>1. Sets(n, "FETCHING") /\ (Latest(n) = "SUBMITTING" \/ Latest(n) = "FETCHING")
      BY <1>5 DEF Fetches, Live
    <2> QED
      BY <1>4, <2>1 DEF AttemptMoves
  <1>6. CASE Ends(n)
    <2>1. Sets(n, "FAILED") /\ Latest(n) \in Live
      BY <1>6 DEF Ends
    <2> QED
      BY <1>4, <2>1 DEF AttemptMoves
  <1>7. CASE Gates(n) \/ Lands(n)
    <2>1. Sets(n, "SUCCEEDED") /\ Latest(n) = "FETCHING"
      BY <1>7 DEF Gates, Lands
    <2> QED
      BY <1>4, <2>1 DEF AttemptMoves
  <1> QED
    BY <1>2, <1>3, <1>5, <1>6, <1>7 DEF NodeStep, Waits, Follows, Decides, Resolves

\* Each kind of change is legal.
LEMMA LegalStep ==
    ASSUME TypeOK, OnlyLatestLives, Chosen, Ordered, RowsTyped', RowStep
    PROVE  LegalMove
  <1>1. build' # build => <<build, build'>> \in BuildMoves
    BY BuildMovesStep
  <1>2. ASSUME NEW n \in Nodes
        PROVE  /\ node'[n] # node[n] => <<node[n], node'[n]>> \in NodeMoves
               /\ Len(attempts'[n]) >= Len(attempts[n])
               /\ \A a \in 1..Len(attempts[n]) :
                    attempts'[n][a] # attempts[n][a] =>
                      <<attempts[n][a], attempts'[n][a]>> \in AttemptMoves
               /\ selected[n] # 0 => selected'[n] = selected[n]
    <2>1. NodeStep(n)
      BY EveryNodeStep
    <2>2. node'[n] # node[n] => <<node[n], node'[n]>> \in NodeMoves
      BY <2>1, StatusStep
    <2>3. selected[n] # 0 => selected'[n] = selected[n]
      BY <2>1, StatusStep DEF Chosen
    <2> QED
      BY <2>1, <2>2, <2>3, AttemptMovesStep
  <1> QED
    BY <1>1, <1>2 DEF LegalMove

\* The stations of a node, in the data flow.
LEMMA StationIs ==
    ASSUME NEW status \in NodeStatuses
    PROVE  /\ StateOf(status) = "done" <=> status \in Satisfying
           /\ StateOf(status) = "waiting" <=> status = "PENDING"
           /\ StateOf(status) = "failed" <=> status = "FAILED"
           /\ StateOf(status) \in {"waiting", "done", "failed", "working"}
  <1>1. CASE status \in Satisfying
    BY <1>1 DEF StateOf, Satisfying
  <1>2. CASE status = "PENDING"
    BY <1>2 DEF StateOf, Satisfying
  <1>3. CASE status = "FAILED"
    BY <1>3 DEF StateOf, Satisfying
  <1>4. CASE status \notin Satisfying /\ status # "PENDING" /\ status # "FAILED"
    BY <1>4 DEF StateOf, Satisfying
  <1> QED
    BY <1>1, <1>2, <1>3, <1>4

Stations == [n \in Nodes |-> StateOf(node[n])]

Outcome ==
    CASE build = "SUCCEEDED" -> "succeeded"
      [] build = "FAILED" -> "failed"
      [] OTHER -> "open"

\* The outcome of the build, in the data flow.
LEMMA OutcomeIs ==
    /\ build = "SUCCEEDED" => Outcome = "succeeded"
    /\ build = "FAILED" => Outcome = "failed"
    /\ build \notin {"SUCCEEDED", "FAILED"} => Outcome = "open"
  <1>1. build = "SUCCEEDED" => Outcome = "succeeded"
    BY DEF Outcome
  <1>2. build = "FAILED" => Outcome = "failed"
    BY DEF Outcome
  <1>3. build \notin {"SUCCEEDED", "FAILED"} => Outcome = "open"
    BY DEF Outcome
  <1> QED
    BY <1>1, <1>2, <1>3

\* How the data flow sees the next status of the build.
LEMMA OutcomeNext ==
    /\ build' = "SUCCEEDED" => Outcome' = "succeeded"
    /\ build' = "FAILED" => Outcome' = "failed"
    /\ build' \notin {"SUCCEEDED", "FAILED"} => Outcome' = "open"
  <1>1. build' = "SUCCEEDED" => Outcome' = "succeeded"
    BY DEF Outcome
  <1>2. build' = "FAILED" => Outcome' = "failed"
    BY DEF Outcome
  <1>3. build' \notin {"SUCCEEDED", "FAILED"} => Outcome' = "open"
    BY DEF Outcome
  <1> QED
    BY <1>1, <1>2, <1>3

\* To queue what is ready is to release what waits.
LEMMA QueuedIsReleased ==
    ASSUME NEW st \in [Nodes -> NodeStatuses]
    PROVE  [m \in Nodes |-> StateOf(Queued(st)[m])]
             = Flow!Released([m \in Nodes |-> StateOf(st[m])])
  <1> DEFINE f == [m \in Nodes |-> StateOf(st[m])]
  <1>1. ASSUME NEW m \in Nodes
        PROVE  StateOf(Queued(st)[m]) =
                 IF f[m] = "waiting" /\ \A e \in Edges : e[2] = m => f[e[1]] = "done"
                   THEN "working" ELSE f[m]
    <2>1. f[m] = StateOf(st[m]) /\ (f[m] = "waiting" <=> st[m] = "PENDING")
      BY StationIs
    <2>2. ASSUME NEW p \in Nodes PROVE f[p] = "done" <=> st[p] \in Satisfying
      BY StationIs
    <2>3. (\A p \in Preds(m) : st[p] \in Satisfying)
            <=> \A e \in Edges : e[2] = m => f[e[1]] = "done"
      <3>1. \A e \in Edges : e[1] \in Nodes /\ (e[2] = m => e[1] \in Preds(m))
        BY GraphAssumption DEF Preds
      <3>2. \A p \in Preds(m) : \E e \in Edges : e[2] = m /\ e[1] = p
        BY DEF Preds
      <3> HIDE DEF f
      <3> QED
        BY <2>2, <3>1, <3>2
    <2>4. m \in Unblocked(st)
            <=> f[m] = "waiting" /\ \A e \in Edges : e[2] = m => f[e[1]] = "done"
      BY <2>1, <2>3 DEF Unblocked
    <2>5. StateOf("QUEUED") = "working"
      BY DEF StateOf, Satisfying
    <2>6. Queued(st)[m] = IF m \in Unblocked(st) THEN "QUEUED" ELSE st[m]
      BY DEF Queued
    <2> HIDE DEF f
    <2> QED
      BY <2>1, <2>4, <2>5, <2>6
  <1>2. Flow!Released(f) =
          [m \in Nodes |->
             IF f[m] = "waiting" /\ \A e \in Edges : e[2] = m => f[e[1]] = "done"
               THEN "working" ELSE f[m]]
    BY DEF Flow!Released
  <1> HIDE DEF f
  <1>3. [m \in Nodes |-> StateOf(Queued(st)[m])] = Flow!Released(f)
    BY <1>1, <1>2
  <1> QED
    BY <1>3 DEF f

\* A node that passes finishes its work in the data flow.
LEMMA PassIsFinish ==
    ASSUME TypeOK, NEW n \in Nodes, node[n] \in {"QUEUED", "RUNNING"},
           node' = Queued(Passing(n)),
           build' = "SUCCEEDED" /\ Complete(node') => build \notin {"SUCCEEDED", "FAILED"},
           Complete(node') => build' = "SUCCEEDED",
           ~Complete(node') => Outcome' = Outcome
    PROVE  Flow!Finish(n)
  <1>1. Passing(n) \in [Nodes -> NodeStatuses]
    BY Queueing
  <1>2. node \in [Nodes -> NodeStatuses] /\ node' \in [Nodes -> NodeStatuses]
    BY Queueing DEF TypeOK
  <1>3. Stations[n] = "working"
    BY DEF Stations, StateOf, Satisfying
  <1>4. [m \in Nodes |-> StateOf(Passing(n)[m])] = [Stations EXCEPT ![n] = "done"]
    <2>1. StateOf("PASSED") = "done"
      BY DEF StateOf, Satisfying
    <2> QED
      BY <1>2, <2>1 DEF Stations, Passing
  <1>5. Stations' = Flow!Released([Stations EXCEPT ![n] = "done"])
    BY <1>1, <1>4, QueuedIsReleased DEF Stations
  <1>6. Complete(node') <=> \A m \in Nodes : Stations'[m] = "done"
    <2>1. \A m \in Nodes : Stations'[m] = "done" <=> node'[m] \in Satisfying
      BY <1>2, StationIs DEF Stations
    <2> QED
      BY <2>1 DEF Complete
  <1>7. IF \A m \in Nodes : Stations'[m] = "done"
          THEN Outcome = "open" /\ Outcome' = "succeeded"
          ELSE Outcome' = Outcome
    BY <1>6, OutcomeIs, OutcomeNext
  <1> QED
    BY <1>3, <1>5, <1>7 DEF Flow!Finish, Stations, Outcome

\* A node that fails fails in the data flow.
LEMMA FailIsFail ==
    ASSUME TypeOK, NEW n \in Nodes, Alone(n), node' \in [Nodes -> NodeStatuses],
           node[n] \in {"RUNNING", "WAITING_REVIEW"}, node'[n] = "FAILED",
           Outcome' = Outcome \/ (Outcome = "open" /\ Outcome' = "failed")
    PROVE  Flow!Fail(n)
  <1>1. Stations[n] = "working"
    BY DEF Stations, StateOf, Satisfying
  <1>2. StateOf("FAILED") = "failed"
    BY DEF StateOf, Satisfying
  <1>3. Stations' = [Stations EXCEPT ![n] = "failed"]
    BY <1>2 DEF Stations, Alone, TypeOK
  <1> QED
    BY <1>1, <1>3 DEF Flow!Fail, Stations, Outcome

\* A node that goes on working is not seen in the data flow.
LEMMA WorkIsStutter ==
    ASSUME TypeOK, NEW n \in Nodes, Alone(n), node' \in [Nodes -> NodeStatuses],
           \/ node'[n] = node[n]
           \/ {node[n], node'[n]} \cap (Satisfying \cup {"PENDING", "FAILED"}) = {},
           Outcome' = Outcome
    PROVE  UNCHANGED Flow!flowVars
  <1>1. StateOf(node'[n]) = StateOf(node[n])
    BY DEF StateOf
  <1>2. Stations' = Stations
    BY <1>1 DEF Stations, Alone, TypeOK
  <1> QED
    BY <1>2 DEF Flow!flowVars, Stations, Outcome

\* Every step of the build is one of the data flow, or none.
LEMMA FlowStep ==
    ASSUME TypeOK, Ordered, RowsTyped', RowStep
    PROVE  [Flow!FlowNext]_Flow!flowVars
  <1>0. node' \in [Nodes -> NodeStatuses]
    BY DEF RowsTyped
  <1>1. ASSUME UNCHANGED rows PROVE UNCHANGED Flow!flowVars
    BY <1>1 DEF rows, Flow!flowVars
  <1>2. ASSUME NEW n \in Nodes, Begins(n) PROVE UNCHANGED Flow!flowVars
    <2>1. Outcome' = Outcome
      BY <1>2, OutcomeIs, OutcomeNext DEF Begins
    <2>2. {node[n], node'[n]} \cap (Satisfying \cup {"PENDING", "FAILED"}) = {}
      BY <1>2 DEF Begins, Parked, Satisfying
    <2> QED
      BY <1>0, <1>2, <2>1, <2>2, WorkIsStutter DEF Begins
  <1>3. ASSUME NEW n \in Nodes, Fetches(n) PROVE UNCHANGED Flow!flowVars
    <2>1. Outcome' = Outcome
      BY <1>3 DEF Fetches, Outcome
    <2> QED
      BY <1>0, <1>3, <2>1, WorkIsStutter DEF Fetches
  <1>4. ASSUME NEW n \in Nodes, Ends(n) PROVE [Flow!FlowNext]_Flow!flowVars
    <2>1. CASE node'[n] = "FAILED"
      <3>1. Outcome' = Outcome \/ (Outcome = "open" /\ Outcome' = "failed")
        <4>1. CASE build' = build
          BY <4>1 DEF Outcome
        <4>2. CASE build' # build
          BY <1>4, <4>2, OutcomeIs, OutcomeNext DEF Ends
        <4> QED
          BY <4>1, <4>2
      <3>2. Flow!Fail(n)
        BY <1>0, <1>4, <2>1, <3>1, FailIsFail DEF Ends
      <3> QED
        BY <3>2 DEF Flow!FlowNext
    <2>2. CASE node'[n] # "FAILED"
      <3>1. Outcome' = Outcome
        <4>1. CASE build' = build
          BY <4>1 DEF Outcome
        <4>2. CASE build' # build
          BY <1>4, <2>2, <4>2, OutcomeIs, OutcomeNext DEF Ends
        <4> QED
          BY <4>1, <4>2
      <3>2. {node[n], node'[n]} \cap (Satisfying \cup {"PENDING", "FAILED"}) = {}
        BY <1>4, <2>2 DEF Ends, Satisfying
      <3> QED
        BY <1>0, <1>4, <3>1, <3>2, WorkIsStutter DEF Ends
    <2> QED
      BY <2>1, <2>2
  <1>5. ASSUME NEW n \in Nodes, Gates(n) PROVE Flow!Fail(n)
    <2>1. Outcome = "open" /\ Outcome' = "failed"
      BY <1>5, OutcomeIs, OutcomeNext DEF Gates
    <2> QED
      BY <1>0, <1>5, <2>1, FailIsFail DEF Gates
  <1>6. ASSUME NEW n \in Nodes, Decides(n) PROVE [Flow!FlowNext]_Flow!flowVars
    <2>1. Outcome' = Outcome
      <3>1. CASE build' = build
        BY <3>1 DEF Outcome
      <3>2. CASE build' # build
        BY <1>6, <3>2, OutcomeIs, OutcomeNext DEF Decides
      <3> QED
        BY <3>1, <3>2
    <2>2. CASE node'[n] = "FAILED"
      <3>1. Flow!Fail(n)
        BY <1>0, <1>6, <2>1, <2>2, FailIsFail DEF Decides
      <3> QED
        BY <3>1 DEF Flow!FlowNext
    <2>3. CASE node'[n] # "FAILED"
      <3>1. {node[n], node'[n]} \cap (Satisfying \cup {"PENDING", "FAILED"}) = {}
        BY <1>6, <2>3 DEF Decides, Satisfying
      <3> QED
        BY <1>0, <1>6, <2>1, <3>1, WorkIsStutter DEF Decides
    <2> QED
      BY <2>2, <2>3
  <1>7. ASSUME NEW n \in Nodes, Lands(n) PROVE Flow!Finish(n)
    <2>1. /\ node' = Queued(Passing(n)) /\ node[n] = "RUNNING"
          /\ Complete(node') => build = "RUNNING"
          /\ build' = IF Complete(node') THEN "SUCCEEDED" ELSE build
      BY <1>7 DEF Lands, Schedulable, Schedule
    <2>2. ~Complete(node') => Outcome' = Outcome
      BY <2>1 DEF Outcome
    <2> QED
      BY <2>1, <2>2, PassIsFinish
  <1>8. ASSUME NEW n \in Nodes, Resolves(n) PROVE Flow!Finish(n)
    <2>1. /\ node' = Queued(Passing(n)) /\ node[n] = "QUEUED"
          /\ build \in {"QUEUED", "RUNNING"}
          /\ build' = IF Complete(node') THEN "SUCCEEDED" ELSE "RUNNING"
      BY <1>8 DEF Resolves, Schedule
    <2>2. ~Complete(node') => Outcome' = Outcome
      BY <2>1, OutcomeIs, OutcomeNext
    <2> QED
      BY <2>1, <2>2, PassIsFinish
  <1> QED
    BY <1>1, <1>2, <1>3, <1>4, <1>5, <1>6, <1>7, <1>8 DEF RowStep, Changes, Flow!FlowNext

-----------------------------------------------------------------------------
(* Work items and executions *)

QueueTyped == open \subseteq JobIds /\ faults \in 0..MaxFaults

\* An execution ends, goes on with its attempt, or has entered.
SlotStep(r) ==
    \/ ex'[r] = Idle
    \/ /\ ex[r] # Idle /\ ex'[r] \in Executing
       /\ ex'[r].job = ex[r].job /\ ex'[r].att = ex[r].att
       /\ \/ ex'[r].pc = ex[r].pc
          \/ /\ ex'[r].pc = "storing"
             /\ IsComposed(NodeOf(r)) => attempts'[NodeOf(r)][ex[r].att] # "SUBMITTING"
    \/ ex'[r] \in Executing /\ Referring(r)'

ExStep == ex' \in [Slots -> Executing \cup {Idle}] /\ \A r \in Slots : SlotStep(r)

\* A fault is one of MaxFaults.
LEMMA Faulting ==
    ASSUME TypeOK, NEW kind, Fault(kind)
    PROVE  faults' \in 0..MaxFaults
  BY BoundAssumption DEF TypeOK, Fault

\* A work item is settled, and others are posted.
LEMMA Settling ==
    ASSUME TypeOK, NEW j, NEW held, NEW posts, posts \subseteq JobIds, Settle(j, held, posts)
    PROVE  QueueTyped'
  <1>1. open' \subseteq open \cup posts
    BY DEF Settle
  <1>2. faults' \in 0..MaxFaults
    BY Faulting DEF Settle, TypeOK
  <1> QED
    BY <1>1, <1>2 DEF QueueTyped, TypeOK

\* What did not move goes on.
LEMMA Staying ==
    ASSUME TypeOK, NEW r \in Slots, ex'[r] = ex[r]
    PROVE  SlotStep(r)
  <1>1. ex[r] \in Executing \cup {Idle}
    BY DEF TypeOK
  <1> QED
    BY <1>1 DEF SlotStep

\* No execution changes.
LEMMA AllStay ==
    ASSUME TypeOK, ex' = ex
    PROVE  ExStep
  BY Staying DEF ExStep, TypeOK

\* An execution ends.
LEMMA Ending ==
    ASSUME TypeOK, NEW s \in Slots, ex' = [ex EXCEPT ![s] = Idle]
    PROVE  ExStep
  <1>1. ex' \in [Slots -> Executing \cup {Idle}]
    BY DEF TypeOK
  <1>2. ASSUME NEW r \in Slots PROVE SlotStep(r)
    <2>1. CASE r = s
      BY <2>1 DEF TypeOK, SlotStep
    <2>2. CASE r # s
      BY <2>2, Staying DEF TypeOK
    <2> QED
      BY <2>1, <2>2
  <1> QED
    BY <1>1, <1>2 DEF ExStep

\* An execution ends, with its item settled and others posted.
LEMMA Leaving ==
    ASSUME TypeOK, NEW s \in Slots, NEW posts, posts \subseteq JobIds, Leave(s, posts)
    PROVE  ExStep /\ QueueTyped'
  <1>1. ExStep
    BY Ending DEF Leave
  <1>2. QueueTyped'
    BY Settling DEF Leave
  <1> QED
    BY <1>1, <1>2

\* An execution enters, referring to an attempt of its node.
LEMMA Entering ==
    ASSUME TypeOK, NEW s \in Slots, NEW j \in open, NEW pc \in {"calling", "skipping", "storing"},
           NEW a \in Nat \ {0}, Enter(s, j, pc, a),
           a \in 1..Len(attempts'[j[1]]),
           pc = "skipping" => Kind[j[1]] = "end_card",
           pc \in {"skipping", "storing"} /\ IsComposed(j[1]) => attempts'[j[1]][a] # "SUBMITTING"
    PROVE  ExStep /\ QueueTyped'
  <1> DEFINE e == [pc |-> pc, job |-> j, att |-> a, held |-> TRUE]
  <1>1. e \in Executing
    BY DEF Executing, TypeOK
  <1>2. ex' = [ex EXCEPT ![s] = e] /\ open' = open /\ faults' = faults
    BY DEF Enter
  <1>3. e.pc = pc /\ e.job = j /\ e.att = a
    OBVIOUS
  <1> HIDE DEF e
  <1>4. ex' \in [Slots -> Executing \cup {Idle}] /\ ex'[s] = e
    BY <1>1, <1>2 DEF TypeOK
  <1>5. NodeOf(s)' = j[1] /\ Row(s)' = attempts'[j[1]][a]
    BY <1>3, <1>4 DEF NodeOf, Row
  <1>6. Referring(s)'
    BY <1>3, <1>4, <1>5 DEF Referring
  <1>7. ASSUME NEW r \in Slots PROVE SlotStep(r)
    <2>1. CASE r = s
      BY <1>1, <1>4, <1>6, <2>1 DEF SlotStep
    <2>2. CASE r # s
      BY <1>2, <2>2, Staying DEF TypeOK
    <2> QED
      BY <2>1, <2>2
  <1> QED
    BY <1>2, <1>4, <1>7 DEF ExStep, QueueTyped, TypeOK

\* An execution goes on to its next transaction.
LEMMA Storing ==
    ASSUME TypeOK, NEW s \in Slots, ex[s] # Idle, ex' = [ex EXCEPT ![s].pc = "storing"],
           UNCHANGED <<open, faults>>,
           IsComposed(NodeOf(s)) => attempts'[NodeOf(s)][ex[s].att] # "SUBMITTING"
    PROVE  ExStep /\ QueueTyped'
  <1> DEFINE e == [ex[s] EXCEPT !.pc = "storing"]
  <1>1. ex[s] \in Executing
    BY ExecutionIs
  <1>2. e \in Executing
    BY <1>1 DEF Executing
  <1>3. e.pc = "storing" /\ e.job = ex[s].job /\ e.att = ex[s].att
    BY <1>1 DEF Executing
  <1>4. ex' = [ex EXCEPT ![s] = e]
    BY DEF TypeOK
  <1> HIDE DEF e
  <1>5. ex' \in [Slots -> Executing \cup {Idle}] /\ ex'[s] = e
    BY <1>2, <1>4 DEF TypeOK
  <1>6. ASSUME NEW r \in Slots PROVE SlotStep(r)
    <2>1. CASE r = s
      BY <1>2, <1>3, <1>5, <2>1 DEF SlotStep
    <2>2. CASE r # s
      BY <1>4, <2>2, Staying DEF TypeOK
    <2> QED
      BY <2>1, <2>2
  <1> QED
    BY <1>5, <1>6 DEF ExStep, QueueTyped, TypeOK

\* The queue takes a lease away.
LEMMA Lapsing ==
    ASSUME TypeOK, NEW s \in Slots, Lapse(s)
    PROVE  ExStep /\ QueueTyped'
  <1> DEFINE e == [ex[s] EXCEPT !.held = FALSE]
  <1>1. ex[s] # Idle /\ ex' = [ex EXCEPT ![s].held = FALSE] /\ open' = open /\ Fault("lapse")
    BY DEF Lapse, Idle
  <1>2. ex[s] \in Executing
    BY <1>1, ExecutionIs
  <1>3. e \in Executing /\ e.pc = ex[s].pc /\ e.job = ex[s].job /\ e.att = ex[s].att
    BY <1>2 DEF Executing
  <1>4. ex' = [ex EXCEPT ![s] = e]
    BY <1>1 DEF TypeOK
  <1> HIDE DEF e
  <1>5. ex' \in [Slots -> Executing \cup {Idle}] /\ ex'[s] = e
    BY <1>3, <1>4 DEF TypeOK
  <1>6. ASSUME NEW r \in Slots PROVE SlotStep(r)
    <2>1. CASE r = s
      BY <1>1, <1>3, <1>5, <2>1 DEF SlotStep
    <2>2. CASE r # s
      BY <1>4, <2>2, Staying DEF TypeOK
    <2> QED
      BY <2>1, <2>2
  <1>7. faults' \in 0..MaxFaults
    BY <1>1, Faulting
  <1> QED
    BY <1>1, <1>5, <1>6, <1>7 DEF ExStep, QueueTyped, TypeOK

\* A worker dies.
LEMMA Crashing ==
    ASSUME TypeOK, NEW S \in SUBSET Slots, Crash(S)
    PROVE  ExStep /\ QueueTyped'
  <1>1. /\ ex' = [s \in Slots |-> IF s \in S THEN Idle ELSE ex[s]]
        /\ open' = open /\ Fault("crash")
    BY DEF Crash
  <1>2. ex' \in [Slots -> Executing \cup {Idle}]
    BY <1>1 DEF TypeOK
  <1>3. ASSUME NEW r \in Slots PROVE SlotStep(r)
    <2>1. CASE r \in S
      BY <1>1, <2>1 DEF SlotStep
    <2>2. CASE r \notin S
      BY <1>1, <2>2, Staying
    <2> QED
      BY <2>1, <2>2
  <1>4. faults' \in 0..MaxFaults
    BY <1>1, Faulting
  <1> QED
    BY <1>1, <1>2, <1>3, <1>4 DEF ExStep, QueueTyped, TypeOK

\* Work items that are posted.
LEMMA Posting ==
    /\ \A n \in Nodes, k \in Nat :
         Ready(n) \in JobIds /\ Retake(n, k) \in JobIds /\ Recover(n, k) \in JobIds
    /\ \A st : Posts(st) \subseteq JobIds
  <1>1. \A n \in Nodes, k \in Nat :
          Ready(n) \in JobIds /\ Retake(n, k) \in JobIds /\ Recover(n, k) \in JobIds
    BY DEF Ready, Retake, Recover, JobIds
  <1>2. ASSUME NEW st PROVE Posts(st) \subseteq JobIds
    <2>1. Unblocked(st) \subseteq Nodes
      BY DEF Unblocked
    <2> QED
      BY <1>1, <2>1 DEF Posts
  <1> QED
    BY <1>1, <1>2

\* Every step keeps the work items and the executions in order.
LEMMA EveryExStep ==
    ASSUME TypeOK, Refers, [Next]_vars
    PROVE  ExStep /\ QueueTyped'
  <1>0. {} \subseteq JobIds
    OBVIOUS
  <1>1. ASSUME NEW s \in Slots, NEW j \in open,
               SyncSubmit(s, j) \/ LocalStarts(s, j) \/ GmiSubmit(s, j)
        PROVE  ExStep /\ QueueTyped'
    <2> DEFINE n == j[1]
    <2>1. n \in Nodes
      BY DEF TypeOK, JobIds
    <2>2. /\ Enter(s, j, "calling", Len(attempts[n]) + 1)
          /\ attempts' = [attempts EXCEPT ![n] = Append(@, "SUBMITTING")]
      BY <1>1 DEF SyncSubmit, LocalStarts, GmiSubmit, AttemptNo
    <2>3. Len(attempts'[n]) = Len(attempts[n]) + 1 /\ Len(attempts[n]) \in Nat
      BY <2>1, <2>2, Appending, Attempts
    <2>4. Len(attempts[n]) + 1 \in Nat \ {0} /\ Len(attempts[n]) + 1 \in 1..Len(attempts'[n])
      BY <2>3
    <2> QED
      BY <2>2, <2>4, Entering
  <1>2. ASSUME NEW s \in Slots, NEW j \in open, SyncResume(s, j) \/ LocalResumes(s, j)
        PROVE  ExStep /\ QueueTyped'
    <2> DEFINE n == j[1]
               pc == IF SyncResume(s, j) THEN "storing"
                     ELSE IF Kind[n] = "end_card" /\ Latest(n) = "FETCHING" THEN "skipping"
                     ELSE "calling"
    <2>1. n \in Nodes
      BY DEF TypeOK, JobIds
    <2>2. /\ Enter(s, j, pc, Len(attempts[n])) /\ attempts' = attempts /\ Latest(n) \in Live
          /\ SyncResume(s, j) => IsSync(n)
      BY <1>2 DEF SyncResume, LocalResumes, Resumable, Live, rows
    <2>3. /\ Len(attempts[n]) \in Nat \ {0} /\ Len(attempts[n]) \in 1..Len(attempts'[n])
          /\ attempts'[n][Len(attempts[n])] = Latest(n)
      BY <2>1, <2>2, Attempts DEF Live
    <2>4. /\ pc \in {"calling", "skipping", "storing"}
          /\ pc = "skipping" => Kind[n] = "end_card" /\ Latest(n) = "FETCHING"
          /\ pc = "storing" => ~ IsComposed(n)
      BY <2>2 DEF IsSync, SyncKinds, IsComposed
    <2> HIDE DEF pc
    <2> QED
      BY <2>2, <2>3, <2>4, Entering
  <1>3. ASSUME NEW j \in open, SyncPark(j) \/ SourceResolves(j) \/ Dismiss(j)
        PROVE  ExStep /\ QueueTyped'
    <2>1. ex' = ex
      BY <1>3 DEF SyncPark, SourceResolves, Dismiss
    <2>2. \E posts : posts \subseteq JobIds /\ Settle(j, TRUE, posts)
      BY <1>0, <1>3, Posting DEF SyncPark, SourceResolves, Dismiss
    <2> QED
      BY <2>1, <2>2, AllStay, Settling
  <1>4. ASSUME NEW j \in open, Abandon(j) PROVE ExStep /\ QueueTyped'
    <2>1. ex' = ex /\ open' \subseteq open /\ (Fault("storage") \/ Fault("database"))
      BY <1>4 DEF Abandon
    <2>2. faults' \in 0..MaxFaults
      BY <2>1, Faulting
    <2> QED
      BY <2>1, <2>2, AllStay DEF QueueTyped, TypeOK
  <1>5. ASSUME NEW s \in Slots, Leave(s, {}) PROVE ExStep /\ QueueTyped'
    BY <1>0, <1>5, Leaving
  <1>6. ASSUME NEW s \in Slots, Land(s) PROVE ExStep /\ QueueTyped'
    BY <1>6, Leaving, Posting DEF Land
  <1>7. ASSUME NEW s \in Slots, ex[s] # Idle, ex' = [ex EXCEPT ![s].pc = "storing"],
               UNCHANGED <<open, faults>>, Mark(NodeOf(s), ex[s].att, "FETCHING")
        PROVE  ExStep /\ QueueTyped'
    <2>1. NodeOf(s) \in Nodes /\ ex[s].att \in 1..Len(attempts[NodeOf(s)])
      BY <1>7, RowIs
    <2>2. attempts'[NodeOf(s)][ex[s].att] = "FETCHING"
      BY <1>7, <2>1, Marking DEF AttemptStatuses
    <2> QED
      BY <1>7, <2>2, Storing
  <1>8. ASSUME NEW s \in Slots, ProviderAnswers(s)
        PROVE  ExStep /\ QueueTyped'
    <2>1. ex[s] # Idle
      BY <1>8 DEF ProviderAnswers, Idle
    <2> QED
      BY <1>5, <1>7, <1>8, <2>1 DEF ProviderAnswers, RollBack
  <1>9. ASSUME NEW s \in Slots, LocalPersists(s)
        PROVE  ExStep /\ QueueTyped'
    <2>1. ex[s] # Idle
      BY <1>9 DEF LocalPersists, Idle
    <2>2. CASE Persisted(s) /\ attempts' = attempts /\ ex' = [ex EXCEPT ![s].pc = "storing"]
               /\ UNCHANGED <<open, faults>>
      <3>1. attempts'[NodeOf(s)][ex[s].att] # "SUBMITTING" \/ ~ IsComposed(NodeOf(s))
        BY <2>1, <2>2 DEF Persisted, Refers, Referring, Row
      <3> QED
        BY <2>1, <2>2, <3>1, Storing
    <2> QED
      BY <1>5, <1>7, <1>9, <2>1, <2>2 DEF LocalPersists, RollBack
  <1>10. ASSUME NEW s \in Slots, GmiStores(s)
         PROVE  ExStep /\ QueueTyped'
    <2>1. /\ ex[s] # Idle /\ ~ IsComposed(NodeOf(s)) /\ ex' = [ex EXCEPT ![s].pc = "storing"]
          /\ UNCHANGED <<open, faults>>
      BY <1>10 DEF GmiStores, Idle, Gmi, IsComposed
    <2> QED
      BY <2>1, Storing
  <1>11. ASSUME NEW s \in Slots,
                ProviderAmbiguous(s) \/ SyncFails(s) \/ GateFails(s) \/ LocalFails(s)
         PROVE  ExStep /\ QueueTyped'
    BY <1>5, <1>11 DEF ProviderAmbiguous, SyncFails, GateFails, LocalFails, LocalFail, RollBack
  <1>12. ASSUME NEW s \in Slots, SyncFinalizes(s) \/ LocalFinalizes(s) \/ GmiFinalizes(s)
         PROVE  ExStep /\ QueueTyped'
    BY <1>5, <1>6, <1>12 DEF SyncFinalizes, LocalFinalizes, GmiFinalizes, LocalFail, RollBack
  <1>13. ASSUME NEW s \in Slots, NEW error \in Errors, GmiFails(s, error)
         PROVE  ExStep /\ QueueTyped'
    <2> DEFINE d == Recovery(NodeOf(s), error)
    <2>1. ex[s] # Idle
      BY <1>13 DEF GmiFails, Rests, Idle
    <2>2. {Recover(NodeOf(s), ex[s].att)} \subseteq JobIds
      BY <2>1, ExecutionIs, Posting
    <2>3. \E posts : posts \subseteq JobIds /\ Leave(s, posts)
      BY <1>0, <1>13, <2>2 DEF GmiFails, Rests, RollBack
    <2> QED
      BY <2>3, Leaving
  <1>14. ASSUME NEW s \in Slots, GmiRaises(s) \/ Raises(s)
         PROVE  ExStep /\ QueueTyped'
    <2>1. ex' = [ex EXCEPT ![s] = Idle] /\ open' \subseteq open
      BY <1>14 DEF GmiRaises, Raises
    <2>2. faults' = faults \/ Fault("storage") \/ Fault("database")
      BY <1>14 DEF GmiRaises, Raises
    <2>3. faults' \in 0..MaxFaults
      BY <2>2, Faulting DEF TypeOK
    <2> QED
      BY <2>1, <2>3, Ending DEF QueueTyped, TypeOK
  <1>15. ASSUME NEW s \in Slots, Lapse(s) PROVE ExStep /\ QueueTyped'
    BY <1>15, Lapsing
  <1>16. ASSUME NEW S \in SUBSET Slots, Crash(S) PROVE ExStep /\ QueueTyped'
    BY <1>16, Crashing
  <1>17. ASSUME NEW n \in Nodes, RunsLate(n) PROVE ExStep /\ QueueTyped'
    <2>1. ex' = ex /\ open' = open /\ Fault("late")
      BY <1>17 DEF RunsLate
    <2> QED
      BY <2>1, AllStay, Faulting DEF QueueTyped, TypeOK
  <1>18. ASSUME NEW n \in Nodes, NEW decision \in Decisions, Decide(n, decision)
         PROVE  ExStep /\ QueueTyped'
    <2>1. ex' = ex /\ faults' = faults
      BY <1>18 DEF Decide
    <2>2. retakes[n] + 1 \in Nat
      BY BoundAssumption DEF TypeOK
    <2>3. open' = open \/ open' = open \cup {Retake(n, retakes[n] + 1)}
      BY <1>18 DEF Decide
    <2>4. open' \subseteq JobIds
      BY <2>2, <2>3, Posting DEF TypeOK
    <2> QED
      BY <2>1, <2>4, AllStay DEF QueueTyped, TypeOK
  <1>19. ASSUME UNCHANGED vars PROVE ExStep /\ QueueTyped'
    BY <1>19, AllStay DEF vars, QueueTyped, TypeOK
  <1> QED
    BY <1>1, <1>2, <1>3, <1>4, <1>8, <1>9, <1>10, <1>11, <1>12, <1>13, <1>14, <1>15, <1>16,
       <1>17, <1>18, <1>19
       DEF Next

\* Executions go on referring to attempts their nodes have.
LEMMA RefersStep ==
    ASSUME TypeOK, Refers, LegalMove, ExStep
    PROVE  Refers'
  <1> SUFFICES ASSUME NEW r \in Slots, ex'[r] # Idle
               PROVE  Referring(r)'
    BY DEF Refers
  <1>1. SlotStep(r)
    BY DEF ExStep
  <1>2. ASSUME ex[r] # Idle, ex'[r].job = ex[r].job, ex'[r].att = ex[r].att,
               \/ ex'[r].pc = ex[r].pc
               \/ /\ ex'[r].pc = "storing"
                  /\ IsComposed(NodeOf(r)) => attempts'[NodeOf(r)][ex[r].att] # "SUBMITTING"
        PROVE  Referring(r)'
    <2> DEFINE n == NodeOf(r)
               a == ex[r].att
    <2>1. /\ n \in Nodes /\ a \in Nat \ {0} /\ a \in 1..Len(attempts[n])
          /\ ex[r].pc = "skipping" => Kind[n] = "end_card"
          /\ ex[r].pc \in {"skipping", "storing"} /\ IsComposed(n) => attempts[n][a] # "SUBMITTING"
      BY <1>2, ExecutionIs DEF Refers, Referring, Row
    <2>2. /\ Len(attempts'[n]) >= Len(attempts[n])
          /\ attempts'[n][a] # attempts[n][a] => <<attempts[n][a], attempts'[n][a]>> \in AttemptMoves
      BY <2>1 DEF LegalMove
    <2>3. attempts'[n][a] # attempts[n][a] => attempts'[n][a] # "SUBMITTING"
      BY <2>2 DEF AttemptMoves
    <2>4. a \in 1..Len(attempts'[n])
      <3>1. Len(attempts[n]) \in Nat
        BY <2>1, Attempts
      <3> QED
        BY <2>1, <2>2, <3>1
    <2>5. NodeOf(r)' = n /\ ex'[r].att = a
      BY <1>2 DEF NodeOf
    <2>6. Row(r)' = attempts'[n][a]
      BY <2>5 DEF Row
    <2> HIDE DEF n, a
    <2>7. ex'[r].pc = "skipping" => Kind[n] = "end_card"
      BY <1>2, <2>1
    <2>8. ex'[r].pc \in {"skipping", "storing"} /\ IsComposed(n) => attempts'[n][a] # "SUBMITTING"
      BY <1>2, <2>1, <2>3 DEF n, a
    <2> QED
      BY <2>4, <2>5, <2>6, <2>7, <2>8 DEF Referring
  <1> QED
    BY <1>1, <1>2 DEF SlotStep

-----------------------------------------------------------------------------
(* What is paid *)

\* A request is made when an attempt starts, and a retake ordered by a human.
LEMMA RequestsStep ==
    ASSUME TypeOK, [Next]_vars
    PROVE  /\ calls' \in [Nodes -> Nat] /\ retakes' \in [Nodes -> 0..MaxRetakes]
           /\ \A n \in Nodes :
                /\ retakes'[n] >= retakes[n]
                /\ \/ calls'[n] = calls[n]
                   \/ /\ calls'[n] = calls[n] + 1 /\ (Fresh(n) \/ Retaken(n))
                      /\ attempts' = [attempts EXCEPT ![n] = Append(@, "SUBMITTING")]
                      /\ node'[n] = "RUNNING"
  <1> DEFINE Goal ==
        /\ calls' \in [Nodes -> Nat] /\ retakes' \in [Nodes -> 0..MaxRetakes]
        /\ \A n \in Nodes :
             /\ retakes'[n] >= retakes[n]
             /\ \/ calls'[n] = calls[n]
                \/ /\ calls'[n] = calls[n] + 1 /\ (Fresh(n) \/ Retaken(n))
                   /\ attempts' = [attempts EXCEPT ![n] = Append(@, "SUBMITTING")]
                   /\ node'[n] = "RUNNING"
  <1>0. /\ calls \in [Nodes -> Nat] /\ retakes \in [Nodes -> 0..MaxRetakes]
        /\ node \in [Nodes -> NodeStatuses] /\ \A n \in Nodes : retakes[n] \in Nat
    BY BoundAssumption DEF TypeOK
  <1>1. ASSUME UNCHANGED <<retakes, calls>> PROVE Goal
    BY <1>0, <1>1
  <1>2. ASSUME NEW s \in Slots, NEW j \in open, SyncSubmit(s, j) PROVE Goal
    <2>1. j[1] \in Nodes
      BY DEF TypeOK, JobIds
    <2>2. /\ calls' = [calls EXCEPT ![j[1]] = @ + 1] /\ retakes' = retakes
          /\ Fresh(j[1]) \/ Retaken(j[1])
          /\ attempts' = [attempts EXCEPT ![j[1]] = Append(@, "SUBMITTING")]
          /\ node' = [node EXCEPT ![j[1]] = "RUNNING"]
      BY <1>2 DEF SyncSubmit
    <2>3. calls'[j[1]] = calls[j[1]] + 1 /\ node'[j[1]] = "RUNNING"
      BY <1>0, <2>1, <2>2
    <2>4. calls' \in [Nodes -> Nat] /\ \A n \in Nodes \ {j[1]} : calls'[n] = calls[n]
      BY <1>0, <2>1, <2>2
    <2>5. ASSUME NEW n \in Nodes
          PROVE  \/ calls'[n] = calls[n]
                 \/ /\ calls'[n] = calls[n] + 1 /\ (Fresh(n) \/ Retaken(n))
                    /\ attempts' = [attempts EXCEPT ![n] = Append(@, "SUBMITTING")]
                    /\ node'[n] = "RUNNING"
      <3>1. CASE n = j[1]
        BY <2>2, <2>3, <3>1
      <3>2. CASE n # j[1]
        BY <2>4, <3>2
      <3> QED
        BY <3>1, <3>2
    <2>6. retakes' \in [Nodes -> 0..MaxRetakes] /\ \A n \in Nodes : retakes'[n] >= retakes[n]
      BY <1>0, <2>2
    <2> QED
      BY <2>4, <2>5, <2>6
  <1>3. ASSUME NEW n \in Nodes, NEW decision \in Decisions, Decide(n, decision) PROVE Goal
    <2>1. calls' = calls
      BY <1>3 DEF Decide
    <2>2. CASE retakes' = retakes
      BY <1>1, <2>1, <2>2
    <2>3. CASE retakes[n] < MaxRetakes /\ retakes' = [retakes EXCEPT ![n] = @ + 1]
      <3>1. retakes' \in [Nodes -> 0..MaxRetakes] /\ \A m \in Nodes : retakes'[m] >= retakes[m]
        BY <1>0, <2>3, BoundAssumption
      <3> QED
        BY <1>0, <2>1, <3>1
    <2> QED
      BY <1>3, <2>2, <2>3 DEF Decide
  <1>4. ASSUME NEW s \in Slots, NEW j \in open,
               SyncResume(s, j) \/ LocalStarts(s, j) \/ LocalResumes(s, j) \/ GmiSubmit(s, j)
        PROVE  UNCHANGED <<retakes, calls>>
    BY <1>4 DEF SyncResume, LocalStarts, LocalResumes, GmiSubmit
  <1>5. ASSUME NEW j \in open, SyncPark(j) \/ SourceResolves(j) \/ Dismiss(j) \/ Abandon(j)
        PROVE  UNCHANGED <<retakes, calls>>
    BY <1>5 DEF SyncPark, SourceResolves, Dismiss, Abandon
  <1>6. ASSUME NEW s \in Slots,
               \/ ProviderAnswers(s) \/ ProviderAmbiguous(s) \/ SyncFails(s)
               \/ SyncFinalizes(s) \/ GateFails(s)
               \/ LocalPersists(s) \/ LocalFinalizes(s) \/ LocalFails(s)
               \/ GmiStores(s) \/ GmiFinalizes(s) \/ GmiRaises(s)
               \/ Lapse(s) \/ Raises(s)
        PROVE  UNCHANGED <<retakes, calls>>
    BY <1>6 DEF ProviderAnswers, ProviderAmbiguous, SyncFails, SyncFinalizes, GateFails,
                LocalPersists, LocalFinalizes, LocalFails, GmiStores, GmiFinalizes, GmiRaises,
                Lapse, Raises
  <1>7. ASSUME NEW s \in Slots, NEW error \in Errors, GmiFails(s, error)
        PROVE  UNCHANGED <<retakes, calls>>
    BY <1>7 DEF GmiFails
  <1>8. ASSUME NEW S \in SUBSET Slots, Crash(S) PROVE UNCHANGED <<retakes, calls>>
    BY <1>8 DEF Crash
  <1>9. ASSUME NEW n \in Nodes, RunsLate(n) PROVE UNCHANGED <<retakes, calls>>
    BY <1>9 DEF RunsLate
  <1>10. UNCHANGED vars => UNCHANGED <<retakes, calls>>
    BY DEF vars
  <1> HIDE DEF Goal
  <1>11. Goal
    BY <1>1, <1>2, <1>3, <1>4, <1>5, <1>6, <1>7, <1>8, <1>9, <1>10 DEF Next
  <1> QED
    BY <1>11 DEF Goal

\* No request is made that no decision covers.
LEMMA PaidStep ==
    ASSUME TypeOK, OnlyLatestLives, Chosen, Ordered, Paid, RowsTyped', RowStep, [Next]_vars
    PROVE  Paid'
  <1> SUFFICES ASSUME NEW n \in Nodes
               PROVE  /\ calls'[n] <= 1 + retakes'[n]
                      /\ node'[n] = "RETAKE_PENDING" => calls'[n] <= retakes'[n]
                      /\ attempts'[n] = <<>> => calls'[n] = 0
    BY DEF Paid
  <1> DEFINE c == calls[n]
             k == retakes[n]
             d == calls'[n]
             l == retakes'[n]
  <1>1. /\ c \in Nat /\ k \in Nat /\ d \in Nat /\ l \in Nat /\ l >= k
        /\ \/ d = c
           \/ /\ d = c + 1 /\ (Fresh(n) \/ Retaken(n))
              /\ attempts' = [attempts EXCEPT ![n] = Append(@, "SUBMITTING")]
              /\ node'[n] = "RUNNING"
    BY RequestsStep, BoundAssumption DEF TypeOK
  <1>2. /\ c <= 1 + k
        /\ node[n] = "RETAKE_PENDING" => c <= k
        /\ attempts[n] = <<>> => c = 0
    BY DEF Paid
  <1>3. node'[n] = "RETAKE_PENDING" => node[n] = "RETAKE_PENDING" \/ l = k + 1
    <2>1. NodeStep(n)
      BY EveryNodeStep
    <2> QED
      BY <2>1 DEF NodeStep, Waits, Follows, Begins, Fetches, Ends, Gates, Decides
  <1>4. attempts'[n] = <<>> => attempts[n] = <<>>
    <2>1. Len(attempts'[n]) >= Len(attempts[n])
      BY LegalStep DEF LegalMove
    <2>2. attempts[n] \in Seq(AttemptStatuses) /\ attempts'[n] \in Seq(AttemptStatuses)
      BY DEF TypeOK, RowsTyped
    <2>3. Len(attempts[n]) \in Nat
      BY Attempts
    <2>4. /\ attempts[n] = <<>> <=> Len(attempts[n]) = 0
          /\ attempts'[n] = <<>> <=> Len(attempts'[n]) = 0
      BY <2>2, EmptyLength
    <2> QED
      BY <2>1, <2>3, <2>4
  <1>5. d = c + 1 /\ d # c => attempts'[n] # <<>> /\ (c = 0 \/ c <= k) /\ node'[n] = "RUNNING"
    <2>1. Fresh(n) \/ Retaken(n) => c = 0 \/ c <= k
      BY <1>2 DEF Fresh, Retaken
    <2>2. ASSUME attempts' = [attempts EXCEPT ![n] = Append(@, "SUBMITTING")]
          PROVE  attempts'[n] # <<>>
      <3>1. Len(attempts'[n]) = Len(attempts[n]) + 1 /\ Len(attempts[n]) \in Nat
        BY <2>2, Appending, Attempts
      <3>2. attempts'[n] \in Seq(AttemptStatuses)
        BY DEF RowsTyped
      <3>3. attempts'[n] = <<>> <=> Len(attempts'[n]) = 0
        BY <3>2, EmptyLength
      <3> QED
        BY <3>1, <3>3
    <2> QED
      BY <1>1, <2>1, <2>2
  <1> HIDE DEF c, k, d, l
  <1>6. d = c \/ (d = c + 1 /\ d # c)
    BY <1>1
  <1>7. CASE d = c
    <2>1. d <= 1 + l /\ (node'[n] = "RETAKE_PENDING" => d <= l)
      BY <1>1, <1>2, <1>3, <1>7
    <2> QED
      BY <1>2, <1>4, <1>7, <2>1 DEF d, l
  <1>8. CASE d = c + 1 /\ d # c
    <2>1. d <= 1 + l
      BY <1>1, <1>5, <1>8
    <2> QED
      BY <1>5, <1>8, <2>1 DEF d, l
  <1> QED
    BY <1>6, <1>7, <1>8

-----------------------------------------------------------------------------
(* The recovery ladder *)

\* Retries are counted one by one.
LEMMA RetriesType ==
    ASSUME NEW steps \in Seq(Steps(Models))
    PROVE  /\ IsFiniteSet({a \in DOMAIN steps : steps[a].mechanism = "SAME_PROVIDER_RETRY"})
           /\ RetriesOf(steps) \in Nat
  <1> DEFINE R == {a \in DOMAIN steps : steps[a].mechanism = "SAME_PROVIDER_RETRY"}
  <1>1. DOMAIN steps = 1..Len(steps) /\ Len(steps) \in Nat
    BY LenProperties
  <1>2. IsFiniteSet(1..Len(steps)) /\ R \subseteq 1..Len(steps)
    BY <1>1, FS_Interval
  <1>3. IsFiniteSet(R)
    BY <1>2, FS_Subset
  <1>4. Cardinality(R) \in Nat
    BY <1>3, FS_CardinalityType
  <1> QED
    BY <1>3, <1>4 DEF RetriesOf

\* One step more of the ladder is one retry more, or none.
LEMMA RetriesAppend ==
    ASSUME NEW steps \in Seq(Steps(Models)), NEW step \in Steps(Models)
    PROVE  RetriesOf(Append(steps, step)) =
             IF step.mechanism = "SAME_PROVIDER_RETRY" THEN RetriesOf(steps) + 1
             ELSE RetriesOf(steps)
  <1> DEFINE more == Append(steps, step)
             k == Len(steps)
             R == {a \in DOMAIN steps : steps[a].mechanism = "SAME_PROVIDER_RETRY"}
             Q == {a \in DOMAIN more : more[a].mechanism = "SAME_PROVIDER_RETRY"}
  <1>1. /\ DOMAIN steps = 1..k /\ k \in Nat /\ more \in Seq(Steps(Models)) /\ Len(more) = k + 1
        /\ \A a \in 1..k : more[a] = steps[a]
        /\ more[k + 1] = step
    BY LenProperties, AppendProperties
  <1>2. DOMAIN more = 1..(k + 1)
    BY <1>1, LenProperties
  <1>3. IsFiniteSet(R) /\ Cardinality(R) = RetriesOf(steps) /\ Cardinality(Q) = RetriesOf(more)
    BY RetriesType DEF RetriesOf
  <1> HIDE DEF more, k
  <1>4. CASE step.mechanism = "SAME_PROVIDER_RETRY"
    <2>1. Q = R \cup {k + 1} /\ k + 1 \notin R
      BY <1>1, <1>2, <1>4
    <2>2. Cardinality(R \cup {k + 1}) = Cardinality(R) + 1
      BY <1>3, <2>1, FS_AddElement
    <2> QED
      BY <1>3, <1>4, <2>1, <2>2 DEF more
  <1>5. CASE step.mechanism # "SAME_PROVIDER_RETRY"
    <2>1. Q = R
      BY <1>1, <1>2, <1>5
    <2> QED
      BY <1>3, <1>5, <2>1 DEF more
  <1> QED
    BY <1>4, <1>5

\* How an attempt failed is written on the last step, and changes nothing else.
Fallen(steps, error) == [steps EXCEPT ![Len(steps)] = Failed(@, error)]

Falls(steps, after, error) ==
    /\ Len(after) = Len(steps) /\ RetriesOf(after) = RetriesOf(steps)
    /\ \A a \in 1..Len(steps) :
         /\ after[a].mechanism = steps[a].mechanism /\ after[a].model = steps[a].model
         /\ after[a].error = IF a = Len(steps) THEN error ELSE steps[a].error

\* The last step of a ladder, rewritten with the class of its error.
LEMMA FailedSteps ==
    ASSUME NEW steps \in Seq(Steps(Models)), Len(steps) > 0, NEW error \in ErrorClasses
    PROVE  Fallen(steps, error) \in Seq(Steps(Models)) /\ Falls(steps, Fallen(steps, error), error)
  <1> DEFINE k == Len(steps)
             x == Failed(steps[k], error)
             after == Fallen(steps, error)
  <1>1. k \in 1..Len(steps) /\ k \in Nat /\ DOMAIN steps = 1..k /\ k = Len(steps)
    BY LenProperties
  <1>2. steps[k] \in Steps(Models)
    BY <1>1, ElementOfSeq
  <1>3. x \in Steps(Models)
    BY <1>2 DEF Steps, Failed
  <1>4. x.mechanism = steps[k].mechanism /\ x.model = steps[k].model /\ x.error = error
    BY <1>2 DEF Steps, Failed
  <1>5. after = [steps EXCEPT ![k] = x]
    BY DEF Fallen
  <1> HIDE DEF x, after, k
  <1>6. /\ after \in Seq(Steps(Models)) /\ Len(after) = Len(steps)
        /\ \A a \in 1..Len(steps) : after[a] = IF a = k THEN x ELSE steps[a]
    BY <1>1, <1>3, <1>5, ExceptSeq
  <1>7. after[k] = x /\ \A a \in 1..Len(steps) : a # k => after[a] = steps[a]
    BY <1>1, <1>6
  <1>8. \A a \in 1..Len(steps) :
          /\ after[a].mechanism = steps[a].mechanism /\ after[a].model = steps[a].model
          /\ after[a].error = IF a = k THEN error ELSE steps[a].error
    <2> SUFFICES ASSUME NEW a \in 1..Len(steps)
                 PROVE  /\ after[a].mechanism = steps[a].mechanism
                        /\ after[a].model = steps[a].model
                        /\ after[a].error = IF a = k THEN error ELSE steps[a].error
      OBVIOUS
    <2>1. CASE a = k
      BY <1>4, <1>7, <2>1
    <2>2. CASE a # k
      <3>1. after[a] = steps[a]
        BY <1>7, <2>2
      <3> QED
        BY <2>2, <3>1
    <2> QED
      BY <2>1, <2>2
  <1>9. after \in Seq(Steps(Models)) /\ Len(after) = k
    BY <1>1, <1>6
  <1>10. DOMAIN after = 1..k
    BY <1>9, LenProperties
  <1>11. \A a \in 1..k : after[a].mechanism = steps[a].mechanism
    BY <1>1, <1>8
  <1>12. {a \in DOMAIN after : after[a].mechanism = "SAME_PROVIDER_RETRY"}
           = {a \in DOMAIN steps : steps[a].mechanism = "SAME_PROVIDER_RETRY"}
    BY <1>1, <1>10, <1>11
  <1>13. RetriesOf(after) = RetriesOf(steps)
    BY <1>12 DEF RetriesOf
  <1>14. Falls(steps, after, error)
    BY <1>1, <1>8, <1>9, <1>13 DEF Falls
  <1> QED
    BY <1>9, <1>14 DEF after

\* The first fallback model that is not the current one is one of the policy's.
LEMMA CandidateIs ==
    ASSUME NEW p \in Policies(Models), NEW current, Others(p, current) # {}
    PROVE  Candidate(p, current) \in Models \ {current} /\ Candidate(p, current) \in Alternatives(p)
  <1> DEFINE S == Others(p, current)
             i == CHOOSE i \in S : \A k \in S : i <= k
  <1>1. p.fallbacks \in Seq(Models)
    BY DEF Policies
  <1>2. DOMAIN p.fallbacks = 1..Len(p.fallbacks) /\ Len(p.fallbacks) \in Nat
    BY <1>1, LenProperties
  <1>3. S \subseteq 1..Len(p.fallbacks) /\ S \subseteq Nat
    BY <1>2 DEF Others
  <1>4. \E x \in S : \A k \in S : x <= k
    BY <1>3, Least
  <1>5. i \in S
    BY <1>4
  <1>6. /\ p.fallbacks[i] \in Models /\ p.fallbacks[i] # current
        /\ p.fallbacks[i] \in Alternatives(p)
    <2> HIDE DEF i
    <2>1. i \in 1..Len(p.fallbacks) /\ p.fallbacks[i] # current
      BY <1>3, <1>5 DEF Others
    <2> QED
      BY <1>1, <1>2, <2>1, ElementOfSeq DEF Alternatives
  <1>7. Candidate(p, current) = p.fallbacks[i]
    BY DEF Candidate
  <1> QED
    BY <1>6, <1>7

\* What goes on is another model, another provider, or a retry within the budget.
LEMMA NextMoveIs ==
    ASSUME NEW n \in Gmi, NEW steps, NEW late, NEW error, NEW current \in Models,
           NextMove(Policy[n], steps, late, error, current).parked
    PROVE  LET p == Policy[n]
               d == NextMove(p, steps, late, error, current)
           IN  /\ ~Exhausted(p, steps, late) /\ error \notin Deterministic
               /\ d.status \in {"RETRY_PENDING", "FALLBACK_PENDING"}
               /\ d.step \in Steps(Models) /\ d.step.error = "NONE"
               /\ d.step.mechanism # "PRIMARY"
               /\ d.step.mechanism = "SAME_PROVIDER_RETRY" => RetriesOf(steps) < p.retries
               /\ error \in {"MODEL", "QUOTA"} => d.step.model # current
  <1> DEFINE p == Policy[n]
             d == NextMove(p, steps, late, error, current)
  <1>1. p \in Policies(Models)
    BY PolicyAssumption
  <1>2. p.providers \in Seq(Models)
    BY <1>1 DEF Policies
  <1>3. ~Exhausted(p, steps, late) /\ error \notin Deterministic
    <2>1. ASSUME Exhausted(p, steps, late) \/ error \in Deterministic
          PROVE  d = Declined
      <3>1. CASE Exhausted(p, steps, late)
        BY <3>1 DEF NextMove
      <3>2. CASE error \in Deterministic
        <4>1. error \notin Retryable
          BY <3>2 DEF Deterministic, Retryable
        <4> QED
          BY <3>2, <4>1 DEF NextMove
      <3> QED
        BY <2>1, <3>1, <3>2
    <2>2. ~ Declined.parked
      BY DEF Declined
    <2> QED
      BY <2>1, <2>2
  <1>4. CASE error \in Retryable /\ RetriesOf(steps) < p.retries
    <2>1. d = Parking("RETRY_PENDING", "SAME_PROVIDER_RETRY", current)
      BY <1>3, <1>4 DEF NextMove
    <2>2. /\ d.status = "RETRY_PENDING" /\ d.step.error = "NONE"
          /\ d.step.mechanism = "SAME_PROVIDER_RETRY" /\ d.step \in Steps(Models)
      BY <2>1 DEF Parking, Steps, Mechanisms
    <2>3. error \notin {"MODEL", "QUOTA"}
      BY <1>4 DEF Retryable
    <2> QED
      BY <1>3, <1>4, <2>2, <2>3
  <1>5. CASE ~ (error \in Retryable /\ RetriesOf(steps) < p.retries)
    <2>1. d = IF Others(p, current) # {}
                THEN Parking("FALLBACK_PENDING", "SAME_PROVIDER_MODEL_FALLBACK",
                             Candidate(p, current))
              ELSE IF p.providers # <<>>
                THEN Parking("FALLBACK_PENDING", "CROSS_PROVIDER_FALLBACK", Head(p.providers))
              ELSE Declined
      BY <1>3, <1>5 DEF NextMove
    <2>2. CASE Others(p, current) # {}
      <3>1. d = Parking("FALLBACK_PENDING", "SAME_PROVIDER_MODEL_FALLBACK", Candidate(p, current))
        BY <2>1, <2>2
      <3>2. Candidate(p, current) \in Models \ {current}
        BY <1>1, <2>2, CandidateIs
      <3>3. /\ d.status = "FALLBACK_PENDING" /\ d.step.error = "NONE"
            /\ d.step.mechanism = "SAME_PROVIDER_MODEL_FALLBACK" /\ d.step \in Steps(Models)
            /\ d.step.model # current
        BY <3>1, <3>2 DEF Parking, Steps, Mechanisms
      <3> QED
        BY <1>3, <3>3
    <2>3. CASE Others(p, current) = {}
      <3>1. p.providers # <<>>
        BY <2>1, <2>3 DEF Declined
      <3>2. d = Parking("FALLBACK_PENDING", "CROSS_PROVIDER_FALLBACK", Head(p.providers))
        BY <2>1, <2>3, <3>1
      <3>3. Head(p.providers) \in Models
        BY <1>2, <3>1, HeadTailProperties
      <3>4. Head(p.providers) # current
        BY <2>3, <3>1, PolicyAssumption
      <3>5. /\ d.status = "FALLBACK_PENDING" /\ d.step.error = "NONE"
            /\ d.step.mechanism = "CROSS_PROVIDER_FALLBACK" /\ d.step \in Steps(Models)
            /\ d.step.model # current
        BY <3>2, <3>3, <3>4 DEF Parking, Steps, Mechanisms
      <3> QED
        BY <1>3, <3>5
    <2> QED
      BY <2>2, <2>3
  <1> QED
    BY <1>4, <1>5

\* Only a retry goes on with the model that failed; the others are named by the policy.
LEMMA NextModelIs ==
    ASSUME NEW p \in Policies(Models), NEW steps, NEW late, NEW error, NEW current, NEW d,
           d = NextMove(p, steps, late, error, current), d.parked
    PROVE  d.step.model \in Alternatives(p) \cup {current}
  <1>1. ~ Declined.parked
    BY DEF Declined
  <1>2. \/ d = Parking("RETRY_PENDING", "SAME_PROVIDER_RETRY", current)
        \/ /\ Others(p, current) # {}
           /\ d = Parking("FALLBACK_PENDING", "SAME_PROVIDER_MODEL_FALLBACK", Candidate(p, current))
        \/ /\ p.providers # <<>>
           /\ d = Parking("FALLBACK_PENDING", "CROSS_PROVIDER_FALLBACK", Head(p.providers))
    BY <1>1 DEF NextMove
  <1>3. CASE d = Parking("RETRY_PENDING", "SAME_PROVIDER_RETRY", current)
    BY <1>3 DEF Parking
  <1>4. CASE /\ Others(p, current) # {}
             /\ d = Parking("FALLBACK_PENDING", "SAME_PROVIDER_MODEL_FALLBACK", Candidate(p, current))
    <2>1. Candidate(p, current) \in Alternatives(p)
      BY <1>4, CandidateIs
    <2> QED
      BY <1>4, <2>1 DEF Parking
  <1>5. CASE /\ p.providers # <<>>
             /\ d = Parking("FALLBACK_PENDING", "CROSS_PROVIDER_FALLBACK", Head(p.providers))
    <2>1. p.providers \in Seq(Models)
      BY DEF Policies
    <2>2. Head(p.providers) = p.providers[1] /\ 1 \in DOMAIN p.providers
      BY <1>5, <2>1
    <2>3. Head(p.providers) \in Alternatives(p)
      BY <2>2 DEF Alternatives
    <2> QED
      BY <1>5, <2>3 DEF Parking
  <1> QED
    BY <1>2, <1>3, <1>4, <1>5

\* How a step moves the ladder of a node of GMI Cloud: not, unless a RUNNING node
\* falls off it or a node that was queued or parked takes the next rung.
Keeps(n) ==
    /\ ladder'[n].steps = ladder[n].steps /\ (ladder'[n].late = ladder[n].late \/ ladder'[n].late)
    /\ node'[n] \in {"RUNNING", "RETRY_PENDING", "FALLBACK_PENDING"} => node'[n] = node[n]

NextStep(n) == IF Parked(n) THEN Resumption(n).step ELSE Primary(Policy[n])

Climbs(n) ==
    /\ Fresh(n) \/ Recoverable(n)
    /\ ladder'[n] = [steps |-> Append(ladder[n].steps, NextStep(n)), late |-> FALSE]
    /\ node'[n] = "RUNNING" /\ Len(attempts'[n]) = Len(attempts[n]) + 1

Slips(n, error) ==
    /\ Latest(n) \in Live /\ node[n] = "RUNNING" /\ error \in ErrorClasses
    /\ ladder'[n] = [steps |-> Fallen(ladder[n].steps, error), late |-> ladder[n].late]
    /\ node'[n] = IF Recovery(n, error).parked THEN Recovery(n, error).status ELSE "FAILED"
    /\ Len(attempts'[n]) = Len(attempts[n])

LadderStep(n) == Keeps(n) \/ Climbs(n) \/ \E error \in Errors : Slips(n, error)

Ladders == [Nodes -> [steps : Seq(Steps(Models)), late : BOOLEAN]]

\* A node of GMI Cloud has one step of the ladder per attempt.
LEMMA StepsAre ==
    ASSUME TypeOK, LadderWithinBudget, NEW n \in Gmi
    PROVE  /\ n \in Nodes /\ Policy[n] \in Policies(Models)
           /\ ladder[n].steps \in Seq(Steps(Models)) /\ Len(ladder[n].steps) \in Nat
           /\ ladder[n].late \in BOOLEAN
           /\ Len(ladder[n].steps) = Len(attempts[n])
           /\ Len(ladder[n].steps) > 0 =>
                LastStep(n) \in Steps(Models) /\ CurrentModel(n) \in Models
  <1>1. n \in Nodes /\ Policy[n] \in Policies(Models)
    BY PolicyAssumption DEF Gmi
  <1>2. ladder[n].steps \in Seq(Steps(Models)) /\ ladder[n].late \in BOOLEAN
    BY <1>1 DEF TypeOK
  <1>3. Len(ladder[n].steps) \in Nat
    BY <1>2, LenProperties
  <1>4. Len(ladder[n].steps) = Len(attempts[n])
    BY DEF LadderWithinBudget
  <1>5. ASSUME Len(ladder[n].steps) > 0
        PROVE  LastStep(n) \in Steps(Models) /\ CurrentModel(n) \in Models
    <2>1. Len(ladder[n].steps) \in 1..Len(ladder[n].steps)
      BY <1>3, <1>5
    <2>2. LastStep(n) \in Steps(Models)
      BY <1>2, <2>1, ElementOfSeq DEF LastStep
    <2> QED
      BY <2>2 DEF CurrentModel, Steps
  <1> QED
    BY <1>1, <1>2, <1>3, <1>4, <1>5

\* A step that starts no node of GMI Cloud and parks none keeps every ladder.
LEMMA KeepingAll ==
    ASSUME TypeOK, ladder' = ladder,
           \A n \in Gmi : node'[n] \in {"RUNNING", "RETRY_PENDING", "FALLBACK_PENDING"}
                            => node'[n] = node[n]
    PROVE  ladder' \in Ladders /\ \A n \in Gmi : LadderStep(n)
  BY DEF TypeOK, Ladders, LadderStep, Keeps

\* Another node moves, or this one to where no handler of GMI Cloud leaves it.
LEMMA KeepingOne ==
    ASSUME TypeOK, NEW x \in Nodes, NEW status, node' = [node EXCEPT ![x] = status],
           x \notin Gmi \/ status \notin {"RUNNING", "RETRY_PENDING", "FALLBACK_PENDING"}
    PROVE  \A n \in Gmi : node'[n] \in {"RUNNING", "RETRY_PENDING", "FALLBACK_PENDING"}
                            => node'[n] = node[n]
  BY DEF TypeOK, Gmi

\* What passes and what is queued leaves the ladders alone.
LEMMA KeepingPassed ==
    ASSUME TypeOK, NEW x \in Nodes, node' = Queued(Passing(x))
    PROVE  \A n \in Gmi : node'[n] \in {"RUNNING", "RETRY_PENDING", "FALLBACK_PENDING"}
                            => node'[n] = node[n]
  <1> SUFFICES ASSUME NEW n \in Nodes
               PROVE  node'[n] \in {"RUNNING", "RETRY_PENDING", "FALLBACK_PENDING"}
                        => node'[n] = node[n]
    BY DEF Gmi
  <1>1. CASE n = x
    BY <1>1, Queueing
  <1>2. CASE n # x
    BY <1>2, Released
  <1> QED
    BY <1>1, <1>2

\* The step that starts an attempt of a node of GMI Cloud.
LEMMA Climbing ==
    ASSUME TypeOK, LadderWithinBudget, NEW s \in Slots, NEW j \in open, GmiSubmit(s, j)
    PROVE  ladder' \in Ladders /\ \A n \in Gmi : LadderStep(n)
  <1> DEFINE x == j[1]
             after == [steps |-> Append(ladder[x].steps, NextStep(x)), late |-> FALSE]
  <1>1. /\ x \in Gmi /\ (Fresh(x) \/ Recoverable(x))
        /\ attempts' = [attempts EXCEPT ![x] = Append(@, "SUBMITTING")]
        /\ ladder' = [ladder EXCEPT ![x] = after]
        /\ node' = [node EXCEPT ![x] = "RUNNING"]
    BY DEF GmiSubmit, NextStep
  <1>2. /\ x \in Nodes /\ Policy[x] \in Policies(Models)
        /\ ladder[x].steps \in Seq(Steps(Models))
    BY <1>1, StepsAre
  <1>3. NextStep(x) \in Steps(Models)
    <2>1. CASE ~ Parked(x)
      <3>1. NextStep(x) = Primary(Policy[x]) /\ Policy[x].model \in Models
        BY <1>2, <2>1 DEF NextStep, Policies
      <3> QED
        BY <3>1 DEF Primary, Steps, Mechanisms
    <2>2. CASE Parked(x)
      <3>1. Recoverable(x)
        BY <1>1, <2>2 DEF Fresh, Parked
      <3>2. Resumption(x).parked /\ Latest(x) = "FAILED"
        BY <3>1 DEF Recoverable
      <3>3. CurrentModel(x) \in Models
        <4>1. Len(attempts[x]) > 0 /\ Len(attempts[x]) = Len(ladder[x].steps)
          BY <1>1, <1>2, <3>2, Attempts, StepsAre
        <4> QED
          BY <1>1, <4>1, StepsAre
      <3>4. Resumption(x).step \in Steps(Models)
        BY <1>1, <3>2, <3>3, NextMoveIs DEF Resumption
      <3> QED
        BY <2>2, <3>4 DEF NextStep
    <2> QED
      BY <2>1, <2>2
  <1>4. Append(ladder[x].steps, NextStep(x)) \in Seq(Steps(Models))
    BY <1>2, <1>3, AppendProperties
  <1>5. after \in [steps : Seq(Steps(Models)), late : BOOLEAN]
    BY <1>4
  <1> HIDE DEF after
  <1>6. ladder' \in Ladders /\ ladder'[x] = after
    BY <1>1, <1>2, <1>5 DEF TypeOK, Ladders
  <1>7. Climbs(x)
    <2>1. Len(attempts'[x]) = Len(attempts[x]) + 1
      BY <1>1, <1>2, Appending
    <2>2. node'[x] = "RUNNING"
      BY <1>1, <1>2 DEF TypeOK
    <2> QED
      BY <1>1, <1>6, <2>1, <2>2 DEF Climbs, after
  <1>8. ASSUME NEW n \in Gmi, n # x PROVE Keeps(n)
    <2>1. n \in Nodes /\ ladder'[n] = ladder[n] /\ node'[n] = node[n]
      BY <1>1, <1>8 DEF Gmi, TypeOK
    <2> QED
      BY <2>1 DEF Keeps
  <1> QED
    BY <1>6, <1>7, <1>8 DEF LadderStep

\* The step that ends an attempt of a node of GMI Cloud.
LEMMA Slipping ==
    ASSUME TypeOK, Refers, OnlyLatestLives, LadderWithinBudget,
           NEW s \in Slots, NEW error \in Errors, GmiFails(s, error)
    PROVE  ladder' \in Ladders /\ \A n \in Gmi : LadderStep(n)
  <1> DEFINE x == NodeOf(s)
             a == ex[s].att
             list == [ladder[x].steps EXCEPT ![a] = Failed(@, error)]
             after == [steps |-> list, late |-> ladder[x].late]
  <1>0. error \in ErrorClasses
    BY ErrorAssumption
  <1>1. CASE ~ (Row(s) \in Live /\ node[x] = "RUNNING")
    <2>1. ladder' = ladder /\ node' = node
      BY <1>1 DEF GmiFails, RollBack, rows
    <2> QED
      BY <2>1, KeepingAll
  <1>2. CASE Row(s) \in Live /\ node[x] = "RUNNING"
    <2>1. /\ x \in Gmi /\ Mark(x, a, "FAILED") /\ ex[s] # Idle
          /\ ladder' = [ladder EXCEPT ![x].steps[a] = Failed(@, error)]
          /\ node' = [node EXCEPT ![x] = IF Recovery(x, error).parked THEN Recovery(x, error).status
                                         ELSE "FAILED"]
      BY <1>2 DEF GmiFails, Rests, Idle
    <2>2. /\ x \in Nodes /\ a \in 1..Len(attempts[x]) /\ Row(s) = attempts[x][a]
      BY <2>1, RowIs
    <2>3. /\ a = Len(attempts[x]) /\ Latest(x) \in Live
          /\ Len(attempts'[x]) = Len(attempts[x])
      <3>1. attempts[x][a] # "FAILED" /\ "FAILED" \in AttemptStatuses
        BY <1>2, <2>2 DEF Live, AttemptStatuses
      <3>2. a = Len(attempts[x]) /\ Latest(x) = attempts[x][a] /\ Sets(x, "FAILED")
        BY <2>1, <2>2, <3>1, MarkingLatest
      <3> QED
        BY <1>2, <2>2, <3>2 DEF Sets
    <2>4. /\ ladder[x].steps \in Seq(Steps(Models)) /\ ladder[x].late \in BOOLEAN
          /\ a = Len(ladder[x].steps) /\ Len(ladder[x].steps) > 0
          /\ ladder[x] \in [steps : Seq(Steps(Models)), late : BOOLEAN]
      <3>1. Len(ladder[x].steps) = Len(attempts[x]) /\ Len(ladder[x].steps) \in Nat
        BY <2>1, StepsAre
      <3> QED
        BY <2>2, <2>3, <3>1 DEF TypeOK
    <2>5. list \in Seq(Steps(Models))
      BY <1>0, <2>4, FailedSteps DEF Fallen
    <2>6. ladder' = [ladder EXCEPT ![x] = after]
      <3>1. [ladder[x] EXCEPT !.steps = list] = after
        BY <2>4
      <3>2. ladder' = [ladder EXCEPT ![x] = [ladder[x] EXCEPT !.steps = list]]
        BY <2>1, <2>2 DEF TypeOK
      <3> QED
        BY <3>1, <3>2
    <2>7. after \in [steps : Seq(Steps(Models)), late : BOOLEAN]
      BY <2>4, <2>5
    <2>8. after = [steps |-> Fallen(ladder[x].steps, error), late |-> ladder[x].late]
      BY <2>4 DEF Fallen
    <2> HIDE DEF after, list
    <2>9. ladder' \in Ladders /\ ladder'[x] = after
      BY <2>2, <2>6, <2>7 DEF TypeOK, Ladders
    <2>10. node'[x] = IF Recovery(x, error).parked THEN Recovery(x, error).status ELSE "FAILED"
      BY <2>1, <2>2 DEF TypeOK
    <2>11. Slips(x, error)
      BY <1>0, <1>2, <2>3, <2>8, <2>9, <2>10 DEF Slips
    <2>12. ASSUME NEW n \in Gmi, n # x PROVE Keeps(n)
      <3>1. n \in Nodes /\ ladder'[n] = ladder[n] /\ node'[n] = node[n]
        BY <2>1, <2>6, <2>12 DEF Gmi, TypeOK
      <3> QED
        BY <3>1 DEF Keeps
    <2> QED
      BY <2>9, <2>11, <2>12 DEF LadderStep
  <1> QED
    BY <1>1, <1>2

\* The time of an attempt runs out.
LEMMA RunningLate ==
    ASSUME TypeOK, NEW x \in Nodes, RunsLate(x)
    PROVE  ladder' \in Ladders /\ \A n \in Gmi : LadderStep(n)
  <1> DEFINE after == [ladder[x] EXCEPT !.late = TRUE]
  <1>1. x \in Gmi /\ ladder' = [ladder EXCEPT ![x] = after] /\ node' = node
    BY DEF RunsLate, TypeOK, rows
  <1>2. ladder[x] \in [steps : Seq(Steps(Models)), late : BOOLEAN]
    BY DEF TypeOK
  <1>3. /\ after \in [steps : Seq(Steps(Models)), late : BOOLEAN]
        /\ after.steps = ladder[x].steps /\ after.late
    BY <1>2
  <1> HIDE DEF after
  <1>4. /\ ladder' \in Ladders /\ ladder'[x] = after
        /\ \A n \in Nodes \ {x} : ladder'[n] = ladder[n]
    BY <1>1, <1>3 DEF TypeOK, Ladders
  <1>5. ASSUME NEW n \in Gmi PROVE Keeps(n)
    BY <1>1, <1>3, <1>4 DEF Keeps, Gmi
  <1> QED
    BY <1>4, <1>5 DEF LadderStep

\* Every step moves every ladder in one of the three ways.
LEMMA EveryLadderStep ==
    ASSUME TypeOK, Refers, OnlyLatestLives, LadderWithinBudget, [Next]_vars
    PROVE  ladder' \in Ladders /\ \A n \in Gmi : LadderStep(n)
  <1> DEFINE Goal == ladder' \in Ladders /\ \A n \in Gmi : LadderStep(n)
  <1>1. ASSUME ladder' = ladder, node' = node PROVE Goal
    BY <1>1, KeepingAll
  <1>2. ASSUME NEW x \in Nodes, ladder' = ladder, NEW status, node' = [node EXCEPT ![x] = status],
               x \notin Gmi \/ status \notin {"RUNNING", "RETRY_PENDING", "FALLBACK_PENDING"}
        PROVE  Goal
    BY <1>2, KeepingOne, KeepingAll
  <1>3. ASSUME NEW x \in Nodes, ladder' = ladder, node' = Queued(Passing(x)) PROVE Goal
    BY <1>3, KeepingPassed, KeepingAll
  <1>4. ASSUME NEW s \in Slots, ladder' = ladder, RollBack(s) \/ (ex[s] # Idle /\ Land(s))
        PROVE  Goal
    <2>1. CASE RollBack(s)
      BY <1>1, <1>4, <2>1 DEF RollBack, rows
    <2>2. CASE ex[s] # Idle /\ Land(s)
      <3>1. NodeOf(s) \in Nodes /\ node' = Queued(Passing(NodeOf(s)))
        BY <2>2, ExecutionIs DEF Land, Schedule, PassedBy, Passing
      <3> QED
        BY <1>3, <1>4, <3>1
    <2> QED
      BY <1>4, <2>1, <2>2
  <1>5. ASSUME NEW s \in Slots, ladder' = ladder, ex[s] # Idle,
               node' = [node EXCEPT ![NodeOf(s)] = "FAILED"]
               \/ node' = [node EXCEPT ![NodeOf(s)] = "WAITING_REVIEW"]
        PROVE  Goal
    <2>1. NodeOf(s) \in Nodes
      BY <1>5, ExecutionIs
    <2> QED
      BY <1>2, <1>5, <2>1
  <1> HIDE DEF Goal
  <1>6. ASSUME NEW s \in Slots, NEW j \in open, SyncSubmit(s, j) \/ LocalStarts(s, j) PROVE Goal
    <2>1. j[1] \in Nodes
      BY DEF TypeOK, JobIds
    <2>2. /\ ladder' = ladder /\ node' = [node EXCEPT ![j[1]] = "RUNNING"]
          /\ j[1] \notin Gmi
      BY <1>6 DEF SyncSubmit, LocalStarts, IsSync, SyncKinds, IsComposed, Gmi
    <2> QED
      BY <1>2, <2>1, <2>2
  <1>7. ASSUME NEW s \in Slots, NEW j \in open, SyncResume(s, j) \/ LocalResumes(s, j) PROVE Goal
    BY <1>1, <1>7 DEF SyncResume, LocalResumes, rows
  <1>8. ASSUME NEW s \in Slots, NEW j \in open, GmiSubmit(s, j) PROVE Goal
    BY <1>8, Climbing DEF Goal
  <1>9. ASSUME NEW j \in open, SyncPark(j) PROVE Goal
    <2>1. /\ ladder' = ladder /\ j[1] \in Nodes
          /\ node' = [node EXCEPT ![j[1]] = "WAITING_REVIEW"]
      BY <1>9 DEF SyncPark, MarkAmbiguous, TypeOK, JobIds
    <2> QED
      BY <1>2, <2>1
  <1>10. ASSUME NEW j \in open, SourceResolves(j) PROVE Goal
    <2>1. ladder' = ladder /\ j[1] \in Nodes /\ node' = Queued(Passing(j[1]))
      BY <1>10 DEF SourceResolves, Schedule, Passing, TypeOK, JobIds
    <2> QED
      BY <1>3, <2>1
  <1>11. ASSUME NEW j \in open, Dismiss(j) \/ Abandon(j) PROVE Goal
    BY <1>1, <1>11 DEF Dismiss, Abandon, rows
  <1>12. ASSUME NEW s \in Slots,
                ProviderAmbiguous(s) \/ SyncFails(s) \/ GateFails(s) \/ LocalFails(s)
         PROVE  Goal
    <2>1. ladder' = ladder /\ ex[s] # Idle
      BY <1>12 DEF ProviderAmbiguous, SyncFails, GateFails, LocalFails, Idle
    <2>2. \/ RollBack(s)
          \/ node' = [node EXCEPT ![NodeOf(s)] = "FAILED"]
          \/ node' = [node EXCEPT ![NodeOf(s)] = "WAITING_REVIEW"]
      BY <1>12 DEF ProviderAmbiguous, SyncFails, GateFails, LocalFails, LocalFail, MarkAmbiguous
    <2> QED
      BY <1>4, <1>5, <2>1, <2>2
  <1>13. ASSUME NEW s \in Slots, SyncFinalizes(s) \/ LocalFinalizes(s) \/ GmiFinalizes(s) PROVE Goal
    <2>1. ladder' = ladder /\ ex[s] # Idle
      BY <1>13 DEF SyncFinalizes, LocalFinalizes, GmiFinalizes, Idle
    <2>2. RollBack(s) \/ Land(s) \/ node' = [node EXCEPT ![NodeOf(s)] = "FAILED"]
      BY <1>13 DEF SyncFinalizes, LocalFinalizes, GmiFinalizes, LocalFail
    <2> QED
      BY <1>4, <1>5, <2>1, <2>2
  <1>14. ASSUME NEW s \in Slots, ProviderAnswers(s) \/ LocalPersists(s) \/ GmiStores(s) PROVE Goal
    BY <1>1, <1>14 DEF ProviderAnswers, LocalPersists, GmiStores, RollBack, rows
  <1>15. ASSUME NEW s \in Slots, GmiRaises(s) \/ Lapse(s) \/ Raises(s) PROVE Goal
    BY <1>1, <1>15 DEF GmiRaises, Lapse, Raises, rows
  <1>16. ASSUME NEW s \in Slots, NEW error \in Errors, GmiFails(s, error) PROVE Goal
    BY <1>16, Slipping DEF Goal
  <1>17. ASSUME NEW S \in SUBSET Slots, Crash(S) PROVE Goal
    BY <1>1, <1>17 DEF Crash, rows
  <1>18. ASSUME NEW n \in Nodes, RunsLate(n) PROVE Goal
    BY <1>18, RunningLate DEF Goal
  <1>19. ASSUME NEW n \in Nodes, NEW decision \in Decisions, Decide(n, decision) PROVE Goal
    <2>1. ladder' = ladder /\ node' = [node EXCEPT ![n] = Target(decision)]
      BY <1>19 DEF Decide
    <2>2. Target(decision) \in {"PASSED", "FAILED", "RETAKE_PENDING"}
      BY DEF Target, Decisions
    <2> HIDE DEF Target
    <2> QED
      BY <1>2, <2>1, <2>2
  <1>20. ASSUME UNCHANGED vars PROVE Goal
    BY <1>1, <1>20 DEF vars
  <1>21. Goal
    BY <1>6, <1>7, <1>8, <1>9, <1>10, <1>11, <1>12, <1>13, <1>14, <1>15, <1>16, <1>17, <1>18,
       <1>19, <1>20
       DEF Next
  <1> QED
    BY <1>21 DEF Goal

\* A ladder that keeps its steps keeps the number of attempts.
LEMMA KeepingLength ==
    ASSUME TypeOK, LadderWithinBudget, RowsTyped', NEW n \in Gmi, NodeStep(n), Keeps(n)
    PROVE  Len(attempts'[n]) = Len(attempts[n])
  <1>1. ~ Begins(n)
    BY DEF Begins, Keeps, Parked
  <1> QED
    BY <1>1 DEF NodeStep, Waits, Follows, Fetches, Ends, Gates, Decides, Lands, Resolves, Sets

\* The steps of a ladder that is climbed.
LEMMA ClimbIs ==
    ASSUME TypeOK, LadderWithinBudget, Diagnosed, NEW n \in Gmi, Climbs(n)
    PROVE  LET steps == ladder[n].steps
               after == ladder'[n].steps
               step  == NextStep(n)
               p     == Policy[n]
           IN  /\ Len(after) = Len(steps) + 1 /\ after[Len(steps) + 1] = step
               /\ \A a \in 1..Len(steps) : after[a] = steps[a]
               /\ RetriesOf(after) =
                    IF step.mechanism = "SAME_PROVIDER_RETRY" THEN RetriesOf(steps) + 1
                    ELSE RetriesOf(steps)
               /\ step.mechanism = "PRIMARY" <=> Len(steps) = 0
               /\ step.mechanism = "SAME_PROVIDER_RETRY" => RetriesOf(steps) < p.retries
               /\ Len(steps) < p.total
               /\ Len(steps) > 0 =>
                    /\ steps[Len(steps)].error \notin Deterministic \cup {"NONE"}
                    /\ steps[Len(steps)].error \in {"MODEL", "QUOTA"} =>
                         step.model # steps[Len(steps)].model
                    /\ step.model \in Alternatives(p) \/ step.model = steps[Len(steps)].model
  <1> DEFINE steps == ladder[n].steps
             after == ladder'[n].steps
             step  == NextStep(n)
             p     == Policy[n]
             k     == Len(steps)
             last  == steps[k]
             r     == RetriesOf(steps)
  <1>1. /\ n \in Nodes /\ p \in Policies(Models)
        /\ steps \in Seq(Steps(Models)) /\ k \in Nat /\ k = Len(attempts[n])
        /\ k > 0 => CurrentModel(n) \in Models
    BY StepsAre
  <1>2. p.total \in Nat \ {0} /\ p.retries \in Nat /\ p.model \in Models
    BY <1>1 DEF Policies
  <1>3. Fresh(n) \/ Recoverable(n)
    BY DEF Climbs
  <1>4. ASSUME Fresh(n)
        PROVE  k = 0 /\ step \in Steps(Models) /\ step.mechanism = "PRIMARY"
    <2>1. attempts[n] = <<>> /\ ~ Parked(n)
      BY <1>4 DEF Fresh, Parked
    <2>2. k = 0
      BY <1>1, <2>1, Attempts
    <2>3. step = Primary(p)
      BY <2>1 DEF NextStep
    <2> QED
      BY <1>2, <2>2, <2>3 DEF Primary, Steps, Mechanisms
  <1>5. ASSUME Recoverable(n)
        PROVE  /\ k > 0 /\ k < p.total
               /\ step \in Steps(Models) /\ step.mechanism # "PRIMARY"
               /\ step.mechanism = "SAME_PROVIDER_RETRY" => r < p.retries
               /\ last.error \notin Deterministic \cup {"NONE"}
               /\ last.error \in {"MODEL", "QUOTA"} => step.model # last.model
               /\ step.model \in Alternatives(p) \/ step.model = last.model
    <2>1. /\ Parked(n) /\ Latest(n) = "FAILED" /\ Resumption(n).parked
          /\ step = Resumption(n).step
      BY <1>5 DEF Recoverable, NextStep
    <2>2. k > 0
      BY <1>1, <2>1, Attempts
    <2>3. /\ last = LastStep(n) /\ last.model = CurrentModel(n) /\ CurrentModel(n) \in Models
          /\ Resumption(n) = NextMove(p, steps, ladder[n].late, last.error, last.model)
      BY <1>1, <2>2 DEF LastStep, CurrentModel, Resumption
    <2>4. last.error \in ErrorClasses
      BY <1>1, <2>1, <2>3 DEF Diagnosed
    <2> HIDE DEF step, k, last, r
    <2>5. /\ ~ Exhausted(p, steps, ladder[n].late) /\ last.error \notin Deterministic
          /\ step \in Steps(Models) /\ step.mechanism # "PRIMARY"
          /\ step.mechanism = "SAME_PROVIDER_RETRY" => RetriesOf(steps) < p.retries
          /\ last.error \in {"MODEL", "QUOTA"} => step.model # last.model
      BY <2>1, <2>3, NextMoveIs
    <2>8. step.model \in Alternatives(p) \/ step.model = last.model
      <3>1. PICK d : d = Resumption(n)
        OBVIOUS
      <3>2. PICK current : current = last.model
        OBVIOUS
      <3>3. PICK error : error = last.error
        OBVIOUS
      <3>4. d.parked /\ step = d.step /\ d = NextMove(p, steps, ladder[n].late, error, current)
        BY <2>1, <2>3, <3>1, <3>2, <3>3
      <3>5. d.step.model \in Alternatives(p) \cup {current}
        BY <1>1, <3>4, NextModelIs
      <3> QED
        BY <3>2, <3>4, <3>5
    <2>6. k < p.total
      BY <1>1, <1>2, <2>5 DEF Exhausted, k
    <2>7. last.error \notin Deterministic \cup {"NONE"}
      BY <2>4, <2>5 DEF ErrorClasses, Deterministic, Retryable
    <2> QED
      BY <2>2, <2>5, <2>6, <2>7, <2>8 DEF r
  <1>6. step \in Steps(Models)
    BY <1>3, <1>4, <1>5
  <1>7. after = Append(steps, step)
    BY DEF Climbs
  <1> HIDE DEF after, step
  <1>8. /\ Len(after) = k + 1 /\ after[k + 1] = step
        /\ \A a \in 1..k : after[a] = steps[a]
    BY <1>1, <1>6, <1>7, AppendProperties
  <1>9. RetriesOf(after) = IF step.mechanism = "SAME_PROVIDER_RETRY" THEN r + 1 ELSE r
    BY <1>1, <1>6, <1>7, RetriesAppend
  <1> HIDE DEF steps, p, k, last, r
  <1>10. /\ step.mechanism = "PRIMARY" <=> k = 0
         /\ step.mechanism = "SAME_PROVIDER_RETRY" => r < p.retries
         /\ k < p.total
         /\ k > 0 => /\ last.error \notin Deterministic \cup {"NONE"}
                     /\ last.error \in {"MODEL", "QUOTA"} => step.model # last.model
                     /\ step.model \in Alternatives(p) \/ step.model = last.model
    BY <1>1, <1>2, <1>3, <1>4, <1>5
  <1> QED
    BY <1>8, <1>9, <1>10 DEF after, step, steps, p, k, last, r

\* The steps of a ladder that is slipped from.
LEMMA SlipIs ==
    ASSUME TypeOK, LadderWithinBudget, NEW n \in Gmi, NEW error, Slips(n, error)
    PROVE  /\ Len(ladder[n].steps) > 0 /\ error \in ErrorClasses
           /\ Falls(ladder[n].steps, ladder'[n].steps, error)
  <1> DEFINE steps == ladder[n].steps
             after == ladder'[n].steps
  <1>1. /\ n \in Nodes /\ steps \in Seq(Steps(Models))
        /\ Len(steps) \in Nat /\ Len(steps) = Len(attempts[n])
    BY StepsAre
  <1>2. Len(steps) > 0
    BY <1>1, Attempts DEF Slips, Live
  <1>3. after = Fallen(steps, error) /\ error \in ErrorClasses
    BY DEF Slips
  <1> HIDE DEF steps, after
  <1>4. Falls(steps, after, error)
    BY <1>1, <1>2, <1>3, FailedSteps
  <1> QED
    BY <1>2, <1>3, <1>4 DEF steps, after

\* The budget of attempts and retries is kept.
LEMMA BudgetStep ==
    ASSUME TypeOK, LadderWithinBudget, Diagnosed, RowsTyped', RowStep,
           \A n \in Gmi : LadderStep(n)
    PROVE  LadderWithinBudget'
  <1> SUFFICES ASSUME NEW n \in Gmi
               PROVE  /\ Len(ladder'[n].steps) = Len(attempts'[n])
                      /\ Len(ladder'[n].steps) <= Policy[n].total
                      /\ RetriesOf(ladder'[n].steps) <= Policy[n].retries
                      /\ \A a \in 1..Len(ladder'[n].steps) :
                           ladder'[n].steps[a].mechanism = "PRIMARY" <=> a = 1
    BY DEF LadderWithinBudget
  <1> DEFINE steps == ladder[n].steps
             after == ladder'[n].steps
             k == Len(steps)
             l == Len(after)
             r == RetriesOf(steps)
             t == RetriesOf(after)
             p == Policy[n]
  <1>1. /\ n \in Nodes /\ steps \in Seq(Steps(Models)) /\ k \in Nat /\ k = Len(attempts[n])
        /\ p.total \in Nat /\ p.retries \in Nat
    BY StepsAre DEF Policies
  <1>2. r \in Nat
    BY <1>1, RetriesType
  <1>3. k <= p.total /\ r <= p.retries /\ \A a \in 1..k : steps[a].mechanism = "PRIMARY" <=> a = 1
    BY DEF LadderWithinBudget
  <1>4. NodeStep(n) /\ LadderStep(n)
    BY <1>1, EveryNodeStep
  <1>5. CASE Keeps(n)
    <2>1. after = steps /\ Len(attempts'[n]) = Len(attempts[n])
      BY <1>4, <1>5, KeepingLength DEF Keeps
    <2> QED
      BY <1>1, <1>3, <2>1
  <1>6. CASE Climbs(n)
    <2>1. /\ l = k + 1 /\ after[k + 1] = NextStep(n)
          /\ \A a \in 1..k : after[a] = steps[a]
          /\ t = IF NextStep(n).mechanism = "SAME_PROVIDER_RETRY" THEN r + 1 ELSE r
          /\ NextStep(n).mechanism = "PRIMARY" <=> k = 0
          /\ NextStep(n).mechanism = "SAME_PROVIDER_RETRY" => r < p.retries
          /\ k < p.total
      BY <1>6, ClimbIs
    <2>2. Len(attempts'[n]) = Len(attempts[n]) + 1
      BY <1>6 DEF Climbs
    <2> HIDE DEF steps, after, k, l, r, t, p
    <2>3. l = Len(attempts'[n]) /\ l <= p.total /\ t <= p.retries
      BY <1>1, <1>2, <1>3, <2>1, <2>2
    <2>4. ASSUME NEW a \in 1..l PROVE after[a].mechanism = "PRIMARY" <=> a = 1
      <3>1. CASE a = k + 1
        BY <1>1, <2>1, <3>1
      <3>2. CASE a \in 1..k
        BY <1>3, <2>1, <3>2
      <3> QED
        BY <1>1, <2>1, <3>1, <3>2
    <2> QED
      BY <2>3, <2>4 DEF l, t, p, after
  <1>7. ASSUME NEW error \in Errors, Slips(n, error)
        PROVE  /\ l = Len(attempts'[n]) /\ l <= p.total /\ t <= p.retries
               /\ \A a \in 1..l : after[a].mechanism = "PRIMARY" <=> a = 1
    <2>1. l = k /\ t = r /\ \A a \in 1..k : after[a].mechanism = steps[a].mechanism
      BY <1>7, SlipIs DEF Falls
    <2>2. Len(attempts'[n]) = Len(attempts[n])
      BY <1>7 DEF Slips
    <2> HIDE DEF steps, after, k, l, r, t, p
    <2> QED
      BY <1>1, <1>3, <2>1, <2>2
  <1> QED
    BY <1>4, <1>5, <1>6, <1>7 DEF LadderStep

\* What just failed is not repeated.
LEMMA RepeatStep ==
    ASSUME TypeOK, LadderWithinBudget, NextIsAnother, Diagnosed, RowsTyped', RowStep,
           \A n \in Gmi : LadderStep(n)
    PROVE  NextIsAnother'
  <1> SUFFICES ASSUME NEW n \in Gmi, NEW a \in 1..Len(ladder'[n].steps),
                      a < Len(ladder'[n].steps)
               PROVE  /\ ladder'[n].steps[a].error \notin Deterministic \cup {"NONE"}
                      /\ ladder'[n].steps[a].error \in {"MODEL", "QUOTA"} =>
                           ladder'[n].steps[a + 1].model # ladder'[n].steps[a].model
    BY DEF NextIsAnother
  <1> DEFINE steps == ladder[n].steps
             after == ladder'[n].steps
             k == Len(steps)
             l == Len(after)
             Sound(q, i) == /\ q[i].error \notin Deterministic \cup {"NONE"}
                            /\ q[i].error \in {"MODEL", "QUOTA"} => q[i + 1].model # q[i].model
  <1>1. n \in Nodes /\ steps \in Seq(Steps(Models)) /\ k \in Nat
    BY StepsAre
  <1>2. \A i \in 1..k : i < k => Sound(steps, i)
    BY DEF NextIsAnother
  <1>3. LadderStep(n)
    OBVIOUS
  <1>4. CASE Keeps(n)
    <2>1. after = steps
      BY <1>4 DEF Keeps
    <2> QED
      BY <1>2, <2>1
  <1>5. CASE Climbs(n)
    <2>1. /\ l = k + 1 /\ after[k + 1] = NextStep(n) /\ \A i \in 1..k : after[i] = steps[i]
          /\ k > 0 =>
               /\ steps[k].error \notin Deterministic \cup {"NONE"}
               /\ steps[k].error \in {"MODEL", "QUOTA"} => NextStep(n).model # steps[k].model
      BY <1>5, ClimbIs
    <2>2. a \in 1..l /\ a < l
      OBVIOUS
    <2> HIDE DEF steps, after, k, l
    <2>3. CASE a = k
      <3>1. after[a + 1] = NextStep(n) /\ after[a] = steps[k] /\ k > 0
        BY <1>1, <2>1, <2>2, <2>3
      <3> QED
        BY <2>1, <2>3, <3>1 DEF after
    <2>4. CASE a # k
      <3>1. a \in 1..k /\ a < k /\ a + 1 \in 1..k
        BY <1>1, <2>1, <2>2, <2>4
      <3>2. after[a] = steps[a] /\ after[a + 1] = steps[a + 1] /\ Sound(steps, a)
        BY <1>2, <2>1, <3>1
      <3> QED
        BY <3>2 DEF after
    <2> QED
      BY <2>3, <2>4
  <1>6. ASSUME NEW error \in Errors, Slips(n, error) PROVE Sound(after, a)
    <2>1. /\ l = k
          /\ \A i \in 1..k :
               /\ after[i].model = steps[i].model
               /\ after[i].error = IF i = k THEN error ELSE steps[i].error
      BY <1>6, SlipIs DEF Falls
    <2>2. a \in 1..l /\ a < l
      OBVIOUS
    <2> HIDE DEF steps, after, k, l
    <2>3. a \in 1..k /\ a < k /\ a + 1 \in 1..k /\ a # k
      BY <1>1, <2>1, <2>2
    <2>4. /\ Sound(steps, a)
          /\ after[a].error = steps[a].error /\ after[a].model = steps[a].model
          /\ after[a + 1].model = steps[a + 1].model
      BY <1>2, <2>1, <2>3
    <2> QED
      BY <2>4
  <1> QED
    BY <1>3, <1>4, <1>5, <1>6 DEF LadderStep

\* The own model of a policy is left for good.
LEMMA LeftStep ==
    ASSUME TypeOK, LadderWithinBudget, OwnModelIsLeft, Diagnosed, RowsTyped', RowStep,
           \A n \in Gmi : LadderStep(n)
    PROVE  OwnModelIsLeft'
  <1> SUFFICES ASSUME NEW n \in Gmi, Policy[n].model \notin Alternatives(Policy[n]),
                      NEW a \in 1..Len(ladder'[n].steps), NEW b \in 1..Len(ladder'[n].steps),
                      a < b, ladder'[n].steps[b].model = Policy[n].model
               PROVE  ladder'[n].steps[a].model = Policy[n].model
    BY DEF OwnModelIsLeft
  <1> DEFINE steps == ladder[n].steps
             after == ladder'[n].steps
             own == Policy[n].model
             k == Len(steps)
             l == Len(after)
  <1>1. steps \in Seq(Steps(Models)) /\ k \in Nat
    BY StepsAre
  <1>2. \A i, j \in 1..k : i < j /\ steps[j].model = own => steps[i].model = own
    BY DEF OwnModelIsLeft
  <1>3. LadderStep(n) /\ a \in 1..l /\ b \in 1..l /\ after[b].model = own
    OBVIOUS
  <1>4. CASE Keeps(n)
    <2>1. after = steps
      BY <1>4 DEF Keeps
    <2> QED
      BY <1>2, <2>1
  <1>5. CASE Climbs(n)
    <2>1. /\ l = k + 1 /\ after[k + 1] = NextStep(n) /\ \A i \in 1..k : after[i] = steps[i]
          /\ k > 0 => NextStep(n).model \in Alternatives(Policy[n]) \/ NextStep(n).model = steps[k].model
      BY <1>5, ClimbIs
    <2> HIDE DEF steps, after, k, l, own
    <2>2. a \in 1..k /\ k \in 1..k /\ k > 0 /\ after[a] = steps[a]
      BY <1>1, <1>3, <2>1
    <2>3. CASE b = k + 1
      <3>1. steps[k].model = own
        BY <1>3, <2>1, <2>2, <2>3 DEF own
      <3>2. a = k \/ a < k
        BY <1>1, <2>2
      <3> QED
        BY <1>2, <2>2, <3>1, <3>2 DEF after, own
    <2>4. CASE b # k + 1
      <3>1. b \in 1..k /\ after[b] = steps[b]
        BY <1>1, <1>3, <2>1, <2>4
      <3> QED
        BY <1>2, <1>3, <2>2, <3>1 DEF after, own
    <2> QED
      BY <2>3, <2>4
  <1>6. ASSUME NEW error \in Errors, Slips(n, error) PROVE after[a].model = own
    <2>1. l = k /\ \A i \in 1..k : after[i].model = steps[i].model
      BY <1>6, SlipIs DEF Falls
    <2> QED
      BY <1>2, <1>3, <2>1
  <1> QED
    BY <1>3, <1>4, <1>5, <1>6 DEF LadderStep

\* A node is parked with the reason of its last failure.
LEMMA DiagnosedStep ==
    ASSUME TypeOK, LadderWithinBudget, Diagnosed, RowsTyped', RowStep,
           \A n \in Gmi : LadderStep(n)
    PROVE  Diagnosed'
  <1> SUFFICES ASSUME NEW n \in Nodes, node'[n] \in {"RETRY_PENDING", "FALLBACK_PENDING"}
               PROVE  n \in Gmi /\ LastStep(n)'.error \in ErrorClasses
    BY DEF Diagnosed, Parked
  <1>1. NodeStep(n)
    BY EveryNodeStep
  <1>2. n \in Gmi
    <2>1. CASE node'[n] = node[n]
      BY <2>1 DEF Diagnosed, Parked
    <2>2. CASE node'[n] # node[n]
      <3>1. Kind[n] = "gmi"
        BY <1>1, <2>2 DEF NodeStep, Waits, Follows, Begins, Fetches, Ends, Gates, Decides
      <3> QED
        BY <3>1 DEF Gmi
    <2> QED
      BY <2>1, <2>2
  <1>3. CASE Keeps(n)
    <2>1. Parked(n) /\ ladder'[n].steps = ladder[n].steps
      BY <1>3 DEF Keeps, Parked
    <2>2. LastStep(n)' = LastStep(n)
      BY <2>1 DEF LastStep
    <2> QED
      BY <1>2, <2>1, <2>2 DEF Diagnosed
  <1>4. ~ Climbs(n)
    BY DEF Climbs
  <1>5. ASSUME NEW error \in Errors, Slips(n, error) PROVE LastStep(n)'.error \in ErrorClasses
    <2>1. /\ Len(ladder'[n].steps) = Len(ladder[n].steps) /\ Len(ladder[n].steps) > 0
          /\ error \in ErrorClasses
          /\ \A a \in 1..Len(ladder[n].steps) :
               ladder'[n].steps[a].error =
                 IF a = Len(ladder[n].steps) THEN error ELSE ladder[n].steps[a].error
      BY <1>2, <1>5, SlipIs DEF Falls
    <2>2. Len(ladder[n].steps) \in 1..Len(ladder[n].steps)
      BY <1>2, <2>1, StepsAre
    <2> QED
      BY <2>1, <2>2 DEF LastStep
  <1> QED
    BY <1>2, <1>3, <1>4, <1>5 DEF LadderStep

\* A decision depends on how many attempts and retries there were, and on how and
\* with which model the last one failed.
LEMMA SameMove ==
    ASSUME NEW p, NEW steps, NEW after, NEW late, NEW error, NEW current,
           Len(after) = Len(steps), RetriesOf(after) = RetriesOf(steps)
    PROVE  NextMove(p, after, late, error, current) = NextMove(p, steps, late, error, current)
  <1>1. Exhausted(p, after, late) = Exhausted(p, steps, late)
    BY DEF Exhausted
  <1> HIDE DEF Exhausted
  <1> QED
    BY <1>1 DEF NextMove

\* The decision that parked a node is the one its next attempt takes.
LEMMA DecisionStep ==
    ASSUME TypeOK, LadderWithinBudget, DecisionStands, \A n \in Gmi : LadderStep(n)
    PROVE  DecisionStands'
  <1> SUFFICES ASSUME NEW n \in Gmi, Parked(n)', ~ ladder'[n].late
               PROVE  Resumption(n)'.parked /\ Resumption(n)'.status = node'[n]
    BY DEF DecisionStands
  <1>1. node'[n] \in {"RETRY_PENDING", "FALLBACK_PENDING"}
    BY DEF Parked
  <1>2. CASE Keeps(n)
    <2>1. node'[n] = node[n] /\ ladder'[n].steps = ladder[n].steps
          /\ ladder'[n].late = ladder[n].late
      BY <1>1, <1>2 DEF Keeps
    <2>2. Resumption(n)' = Resumption(n)
      BY <2>1 DEF Resumption, LastStep, CurrentModel
    <2>3. Parked(n) /\ ~ ladder[n].late
      BY <1>1, <2>1 DEF Parked
    <2> QED
      BY <2>1, <2>2, <2>3 DEF DecisionStands
  <1>3. ~ Climbs(n)
    BY <1>1 DEF Climbs
  <1>4. ASSUME NEW error \in Errors, Slips(n, error)
        PROVE  Resumption(n)'.parked /\ Resumption(n)'.status = node'[n]
    <2> DEFINE steps == ladder[n].steps
               after == ladder'[n].steps
               k == Len(steps)
    <2>1. /\ k > 0 /\ Len(after) = k /\ RetriesOf(after) = RetriesOf(steps)
          /\ \A a \in 1..k : /\ after[a].model = steps[a].model
                             /\ after[a].error = IF a = k THEN error ELSE steps[a].error
      BY <1>4, SlipIs DEF Falls
    <2>2. k \in 1..k
      BY <2>1, StepsAre
    <2>3. LastStep(n)' = after[k] /\ LastStep(n) = steps[k]
      BY <2>1 DEF LastStep
    <2>4. LastStep(n)'.error = error /\ CurrentModel(n)' = CurrentModel(n)
      BY <2>1, <2>2, <2>3 DEF CurrentModel
    <2>5. /\ ladder'[n].late = ladder[n].late
          /\ node'[n] = IF Recovery(n, error).parked THEN Recovery(n, error).status ELSE "FAILED"
      BY <1>4 DEF Slips
    <2>6. Resumption(n)' = NextMove(Policy[n], after, ladder[n].late, error, CurrentModel(n))
      BY <2>4, <2>5 DEF Resumption
    <2>7. Resumption(n)' = Recovery(n, error)
      BY <2>1, <2>6, SameMove DEF Recovery
    <2>8. Recovery(n, error).parked
      BY <1>1, <2>5
    <2> QED
      BY <2>5, <2>7, <2>8
  <1> QED
    BY <1>2, <1>3, <1>4 DEF LadderStep

-----------------------------------------------------------------------------
(* The invariant, from the first state on *)

\* What a commit makes of the nodes.
LEMMA CommittedIs ==
    ASSUME NEW R \in Reuses
    PROVE  /\ Committed(R) \in [Nodes -> NodeStatuses]
           /\ \A n \in Nodes :
                /\ n \in R => Committed(R)[n] = "REUSED"
                /\ n \notin R /\ Preds(n) \subseteq R => Committed(R)[n] = "QUEUED"
                /\ ~ (n \in R \/ Preds(n) \subseteq R) => Committed(R)[n] = "PENDING"
  <1>1. ASSUME NEW n \in Nodes
        PROVE  /\ n \in R => Committed(R)[n] = "REUSED"
               /\ n \notin R /\ Preds(n) \subseteq R => Committed(R)[n] = "QUEUED"
               /\ ~ (n \in R \/ Preds(n) \subseteq R) => Committed(R)[n] = "PENDING"
    <2>1. CASE n \in R
      BY <2>1 DEF Committed
    <2>2. CASE n \notin R /\ Preds(n) \subseteq R
      BY <2>2 DEF Committed
    <2>3. CASE ~ (n \in R \/ Preds(n) \subseteq R)
      BY <2>3 DEF Committed
    <2> QED
      BY <2>1, <2>2, <2>3
  <1>2. ASSUME NEW n \in Nodes PROVE Committed(R)[n] \in NodeStatuses
    BY <1>1 DEF NodeStatuses
  <1>3. Committed(R) \in [Nodes -> NodeStatuses]
    <2>1. Committed(R) = [n \in Nodes |-> Committed(R)[n]]
      BY DEF Committed
    <2> HIDE DEF Committed
    <2> QED
      BY <1>2, <2>1
  <1> QED
    BY <1>1, <1>3

\* A ladder nobody has climbed.
LEMMA NoRetries == RetriesOf(<<>>) = 0
  <1>1. {a \in DOMAIN <<>> : <<>>[a].mechanism = "SAME_PROVIDER_RETRY"} = {}
    OBVIOUS
  <1>2. Cardinality({}) = 0
    BY FS_EmptySet
  <1> QED
    BY <1>1, <1>2 DEF RetriesOf

\* A build starts with nothing attempted, of what is not reused.
LEMMA Starts == Init => IInv
  <1> SUFFICES ASSUME Init PROVE IInv
    OBVIOUS
  <1>1. PICK R \in Reuses :
          /\ node = Committed(R)
          /\ open = {Ready(n) : n \in {m \in Nodes : Committed(R)[m] = "QUEUED"}}
    BY DEF Init
  <1>2. /\ build = "QUEUED" /\ attempts = [n \in Nodes |-> <<>>] /\ selected = [n \in Nodes |-> 0]
        /\ ex = [s \in Slots |-> Idle] /\ retakes = [n \in Nodes |-> 0]
        /\ ladder = [n \in Nodes |-> [steps |-> <<>>, late |-> FALSE]]
        /\ calls = [n \in Nodes |-> 0] /\ faults = 0
    BY DEF Init
  <1>3. \A n \in Nodes : attempts[n] = <<>> /\ Len(attempts[n]) = 0 /\ Latest(n) = "NONE"
    BY <1>2 DEF Latest
  <1>4. /\ node \in [Nodes -> NodeStatuses]
        /\ \A n \in Nodes : node[n] \in {"REUSED", "QUEUED", "PENDING"}
        /\ \A n \in Nodes : node[n] # "PENDING" => n \in R \/ Preds(n) \subseteq R
        /\ \A n \in R \cap Nodes : node[n] = "REUSED"
    BY <1>1, CommittedIs
  <1>5. TypeOK
    <2>1. open \subseteq JobIds
      BY <1>1, Posting
    <2>2. attempts \in [Nodes -> Seq(AttemptStatuses)]
      BY <1>2
    <2>3. ladder \in [Nodes -> [steps : Seq(Steps(Models)), late : BOOLEAN]]
      <3>1. [steps |-> <<>>, late |-> FALSE] \in [steps : Seq(Steps(Models)), late : BOOLEAN]
        OBVIOUS
      <3> QED
        BY <1>2, <3>1
    <2>4. ex \in [Slots -> Executing \cup {Idle}]
      BY <1>2
    <2>5. retakes \in [Nodes -> 0..MaxRetakes] /\ faults \in 0..MaxFaults
      BY <1>2, BoundAssumption
    <2>6. selected \in [Nodes -> Nat] /\ calls \in [Nodes -> Nat] /\ build \in BuildStatuses
      BY <1>2 DEF BuildStatuses
    <2> QED
      BY <1>4, <2>1, <2>2, <2>3, <2>4, <2>5, <2>6 DEF TypeOK
  <1>6. Refers
    BY <1>2 DEF Refers
  <1>7. Single /\ OnlyLatestLives
    BY <1>3 DEF Single, OnlyLatestLives
  <1>8. NodeMatchesAttempt
    BY <1>3, <1>4 DEF NodeMatchesAttempt, Parked, Live
  <1>9. Chosen
    BY <1>2 DEF Chosen
  <1>10. Ordered
    <2> SUFFICES ASSUME NEW n \in Nodes, node[n] # "PENDING", NEW m \in Preds(n)
                 PROVE  node[m] \in Satisfying
      BY DEF Ordered
    <2>1. PICK e \in Edges : e[2] = n /\ e[1] = m
      BY DEF Preds
    <2>2. m \in Nodes
      BY <2>1, GraphAssumption
    <2>3. m \in R
      BY <1>4, <2>1, ReuseAssumption
    <2> QED
      BY <1>4, <2>2, <2>3 DEF Satisfying
  <1>11. Paid
    BY <1>2, <1>4 DEF Paid
  <1>12. Diagnosed
    BY <1>4 DEF Diagnosed, Parked
  <1>13. ASSUME NEW n \in Gmi
         PROVE  n \in Nodes /\ ladder[n].steps = <<>> /\ Len(ladder[n].steps) = 0
    BY <1>2 DEF Gmi
  <1>14. LadderWithinBudget
    <2> SUFFICES ASSUME NEW n \in Gmi
                 PROVE  /\ Len(ladder[n].steps) = Len(attempts[n])
                        /\ Len(ladder[n].steps) <= Policy[n].total
                        /\ RetriesOf(ladder[n].steps) <= Policy[n].retries
                        /\ \A a \in 1..Len(ladder[n].steps) :
                             ladder[n].steps[a].mechanism = "PRIMARY" <=> a = 1
      BY DEF LadderWithinBudget
    <2>1. Policy[n].total \in Nat \ {0} /\ Policy[n].retries \in Nat
      BY PolicyAssumption DEF Policies
    <2>2. RetriesOf(ladder[n].steps) = 0 /\ Len(attempts[n]) = 0
      BY <1>3, <1>13, NoRetries
    <2> QED
      BY <1>13, <2>1, <2>2
  <1>15. FailedModelNotRepeated
    BY <1>13 DEF FailedModelNotRepeated, NextIsAnother, OwnModelIsLeft
  <1>16. DecisionStands
    BY <1>4, <1>13 DEF DecisionStands, Parked
  <1> QED
    BY <1>5, <1>6, <1>7, <1>8, <1>9, <1>10, <1>11, <1>12, <1>14, <1>15, <1>16 DEF IInv

\* Every step keeps the types.
LEMMA TypeStep ==
    ASSUME RowsTyped', ExStep, QueueTyped', ladder' \in Ladders,
           calls' \in [Nodes -> Nat], retakes' \in [Nodes -> 0..MaxRetakes]
    PROVE  TypeOK'
  BY DEF TypeOK, RowsTyped, ExStep, QueueTyped, Ladders

\* What a step does, of what the invariants speak about.
LEMMA StepIs ==
    ASSUME IInv, [Next]_vars
    PROVE  /\ RowsTyped' /\ RowStep /\ LegalMove /\ ExStep
           /\ TypeOK' /\ \A n \in Gmi : LadderStep(n)
  <1>1. RowsTyped' /\ RowStep
    BY EveryRowStep DEF IInv
  <1>2. LegalMove
    BY <1>1, LegalStep DEF IInv
  <1>3. ExStep /\ QueueTyped'
    BY EveryExStep DEF IInv
  <1>4. ladder' \in Ladders /\ \A n \in Gmi : LadderStep(n)
    BY EveryLadderStep DEF IInv
  <1>5. calls' \in [Nodes -> Nat] /\ retakes' \in [Nodes -> 0..MaxRetakes]
    BY RequestsStep DEF IInv
  <1> QED
    BY <1>1, <1>2, <1>3, <1>4, <1>5, TypeStep

\* Every step keeps the invariant.
LEMMA Goes == IInv /\ [Next]_vars => IInv'
  <1> SUFFICES ASSUME IInv, [Next]_vars PROVE IInv'
    OBVIOUS
  <1>1. /\ RowsTyped' /\ RowStep /\ LegalMove /\ ExStep
        /\ TypeOK' /\ \A n \in Gmi : LadderStep(n)
    BY StepIs
  <1>2. Refers'
    BY <1>1, RefersStep DEF IInv
  <1>3. Single'
    BY <1>1, SingleStep DEF IInv
  <1>4. OnlyLatestLives'
    BY <1>1, LatestStep DEF IInv
  <1>5. NodeMatchesAttempt'
    BY <1>1, StoryStep DEF IInv
  <1>6. Chosen' /\ Ordered'
    BY <1>1, ChosenStep, OrderedStep DEF IInv
  <1>7. Paid'
    BY <1>1, PaidStep DEF IInv
  <1>8. Diagnosed'
    BY <1>1, DiagnosedStep DEF IInv
  <1>9. LadderWithinBudget'
    BY <1>1, BudgetStep DEF IInv
  <1>10. FailedModelNotRepeated'
    <2>1. NextIsAnother'
      BY <1>1, RepeatStep DEF IInv, FailedModelNotRepeated
    <2>2. OwnModelIsLeft'
      BY <1>1, LeftStep DEF IInv, FailedModelNotRepeated
    <2> QED
      BY <2>1, <2>2 DEF FailedModelNotRepeated
  <1>11. DecisionStands'
    BY <1>1, DecisionStep DEF IInv
  <1> QED
    BY <1>1, <1>2, <1>3, <1>4, <1>5, <1>6, <1>7, <1>8, <1>9, <1>10, <1>11 DEF IInv

\* A build starts as the data flow does: what is reused is done, and whatever
\* waited for nothing else is worked on.
LEMMA FlowStarts == Init => Flow!FlowInit
  <1> SUFFICES ASSUME Init PROVE Flow!FlowInit
    OBVIOUS
  <1>1. PICK R \in Reuses : node = Committed(R)
    BY DEF Init
  <1> DEFINE st == [n \in Nodes |-> IF n \in R THEN "REUSED" ELSE "PENDING"]
  <1>2. st \in [Nodes -> NodeStatuses]
    BY DEF NodeStatuses
  <1>3. ASSUME NEW n \in Nodes PROVE Committed(R)[n] = Queued(st)[n]
    <2>1. Preds(n) \subseteq Nodes
      BY GraphAssumption DEF Preds
    <2>2. (\A m \in Preds(n) : st[m] \in Satisfying) <=> Preds(n) \subseteq R
      BY <2>1 DEF Satisfying
    <2>3. n \in Unblocked(st) <=> n \notin R /\ Preds(n) \subseteq R
      BY <2>2 DEF Unblocked
    <2>4. Queued(st)[n] = IF n \in Unblocked(st) THEN "QUEUED" ELSE st[n]
      BY DEF Queued
    <2> QED
      BY <2>3, <2>4, CommittedIs
  <1>4. Committed(R) = [n \in Nodes |-> Committed(R)[n]]
    BY DEF Committed
  <1>5. ASSUME NEW n \in Nodes PROVE StateOf(st[n]) = IF n \in R THEN "done" ELSE "waiting"
    BY <1>2, StationIs DEF Satisfying
  <1>6. [n \in Nodes |-> StateOf(node[n])] = [n \in Nodes |-> StateOf(Queued(st)[n])]
    BY <1>1, <1>3
  <1>7. [n \in Nodes |-> StateOf(st[n])] = [n \in Nodes |-> IF n \in R THEN "done" ELSE "waiting"]
    BY <1>5
  <1> HIDE DEF st
  <1>8. [n \in Nodes |-> StateOf(node[n])]
          = Flow!Released([n \in Nodes |-> IF n \in R THEN "done" ELSE "waiting"])
    BY <1>2, <1>6, <1>7, QueuedIsReleased
  <1>9. Outcome = "open"
    BY OutcomeIs DEF Init
  <1> QED
    BY <1>8, <1>9 DEF Flow!FlowInit, Outcome

-----------------------------------------------------------------------------
(* Theorems *)

\* The inductive invariant holds in every state of a build.
THEOREM Invariance == Spec => []IInv
  BY Starts, Goes, PTL DEF Spec

\* The rows, the work items and the executions of a build keep their types, and
\* every execution refers to an attempt its node has.
THEOREM TypesHold == Spec => []TypeOK
  <1>1. IInv => TypeOK
    BY DEF IInv
  <1> QED
    BY <1>1, Invariance, PTL

\* Whatever overlaps, lapses or crashes, an attempt that was superseded has failed:
\* its late answer has nowhere to land.
THEOREM LatestLives == Spec => []OnlyLatestLives
  <1>1. IInv => OnlyLatestLives
    BY DEF IInv
  <1> QED
    BY <1>1, Invariance, PTL

\* The row of a node and the rows of its attempts, written by different transactions
\* of different executions, agree in every state.
THEOREM StoriesMatch == Spec => []NodeMatchesAttempt
  <1>1. IInv => NodeMatchesAttempt
    BY DEF IInv
  <1> QED
    BY <1>1, Invariance, PTL

\* A provider is paid for one request per node and retake, however often the work
\* item is executed and its executions are interrupted.
THEOREM PaidOnce == Spec => []PaidOncePerDecision
  <1>1. IInv => PaidOncePerDecision
    BY DEF IInv, Paid, PaidOncePerDecision
  <1> QED
    BY <1>1, Invariance, PTL

\* A node of GMI Cloud has one PRIMARY attempt and stays within the attempts and
\* the retries of its policy.
THEOREM BudgetHolds == Spec => []LadderWithinBudget
  <1>1. IInv => LadderWithinBudget
    BY DEF IInv
  <1> QED
    BY <1>1, Invariance, PTL

\* What failed for a deterministic reason is not tried again, the attempt after one that
\* failed for a reason of the model uses another model, and the own model of a policy
\* is not used again once it was left, for every policy whose providers have a model to
\* fall back to.  Which of the other models follow each other is left open.
THEOREM ModelNotRepeated == Spec => []FailedModelNotRepeated
  <1>1. IInv => FailedModelNotRepeated
    BY DEF IInv
  <1> QED
    BY <1>1, Invariance, PTL

\* The handler that resumes a parked node takes, from the rows alone, the decision
\* of the one that parked it.
THEOREM DecisionHolds == Spec => []DecisionStands
  <1>1. IInv => DecisionStands
    BY DEF IInv
  <1> QED
    BY <1>1, Invariance, PTL

\* The rows of a build, its nodes and its attempts move along the three tables of
\* state_machine.py, and an output is selected once.
THEOREM MovesAreLegal == Spec => LegalMoves
  <1>1. IInv /\ [Next]_vars => [LegalMove]_vars
    BY StepIs
  <1> QED
    BY <1>1, Invariance, PTL DEF Spec, LegalMoves

\* A build implements the data flow it was compiled from: every transaction of a
\* handler, of a human or of the queue is a step of DataFlow, or no step of it.
THEOREM ExecutionImplementsFlow == Spec => ImplementsDataFlow
  <1>1. IInv /\ [Next]_vars => [Flow!FlowNext]_Flow!flowVars
    BY StepIs, FlowStep DEF IInv
  <1> QED
    BY <1>1, FlowStarts, Invariance, PTL DEF Spec, ImplementsDataFlow, Flow!FlowSpec

=============================================================================
