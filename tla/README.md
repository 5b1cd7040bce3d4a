# TakeGraph: a TLA+ verification of the build pipeline

TakeGraph compiles a marketing brief into a graph of generation steps, executes
the graph with a worker that calls paid providers, and after a change re-runs
only the steps the change reaches. This directory models the parts of it whose
correctness depends on *order*: which transaction comes first, which worker is
still alive, which answer arrives late, which evidence is stale. Each module is written from the code,
`PROJECT.json` names the lines behind every definition, TLC checks the modules
on small instances and TLAPS proves the theorems for all.

## 1. Inventory

| Part | State | Operations | What is hard |
|---|---|---|---|
| Work queue (`services/api/takegraph_api/queue.py`) | `work_items`: status, owner, lease expiry, attempt count | enqueue, claim, heartbeat, complete, fail, release_expired_leases, cancel_for_build | leases expire under a live worker; settlement checks the owner and not the expiry |
| Worker runtime (`services/worker/.../runtime.py`) | the claimed batch, one heartbeat task per item | run_once, _process, _record_failure | the handler is not stopped when its lease is lost; the verdict is a transaction of its own and can be lost; `gather` orphans the batch when one settlement raises |
| Node handlers (`build_work`, `plan_work`, `narration_work`, `music_work`, `local_image_work`, `end_card_work`, `delivery_work`, `source_node_work`, `gmi_work`) | `builds.status`, `build_nodes.status`, `attempts.status`, `selected_attempt_id` | prepare, call, persist, store, finalize, fail, mark ambiguous | several transactions per execution with a paid call in between; any of them can be cut off and the item executed again, also in parallel |
| Scheduling (`schedule_ready_nodes`) | node statuses, new work items | queue every ready node, end the build | two siblings finishing together |
| Review (`review.py`) | node and build status, approvals, work items | PASS, FAIL, RETAKE | the decision races the executions that are still running |
| Recovery ladder (`recovery.py`, `recovery_work.py`) | node parked, next attempt enqueued | retry, model fallback, provider fallback | the decision is taken twice, once when parking and once when resuming |
| Graph compiler (`graph/compiler.py`, `graph/orbit.py`, `graph_persistence.py`) | the graph of a revision | compile, persist | one graph per revision, whatever the policies of the day |
| Changes (`changes.py`, `graph/impact.py`, `graph/fingerprint.py`) | change sets, impact plans, revisions, the new build | create, update, impact, commit | evidence goes stale between plan and commit; what is planned under a placeholder is accepted under what its inputs have become |
| Seed script (`scripts/seed_demo.py`) | a project's first build, or the one after a failure | ensure build | keeps what the failed build has made |
| Uploads and storage events (`uploads.py`, `b2_webhooks.py`, `b2_reconciliation.py`, `source_work.py`) | intents, object events, assets | initiate, complete, webhook, reconcile, validate | duplicated, lost and reordered notifications |
| Revisions (`projects.py`, `uploads.py`, `changes.py`) | revision numbers and hashes, the active revision | create, patch, upload, commit | three writers with two numbering rules, and unique constraints |
| Releases (`releases.py`) | release status, copied objects | create_candidate, approve, publish, verify | publication copies objects inside its transaction |
| Event stream (`builds.py`) | a reader's cursor | read after the cursor | an event committed late with a low number |
| Landing page (`demo_proof`) | – | the impact plan of the legal-line edit | only what it computes: section 2, OrbitChecks |
| Fault injection, provider gateways, media composition, auth, read models, web application | – | – | outside: see section 7 |

How they interact: a commit (or a review decision, a finished node, a recovery)
writes node rows and **enqueues a work item in the same transaction**. The
worker claims the item, picks the handler by the node's key and runs it; the
handler opens its own transactions on the build's rows, and only when it has
returned or raised does the runtime settle the item in another transaction.
Nothing but the rows is shared between processes, and the two object stores:
an upload and a publication write objects inside their transactions, and those
outlive a rollback.

## 2. Modules

```
JobBoard  <=====  WorkQueue  <----- MCWorkQueue          (<==== implements)
                     ^------------- WorkQueue_proofs     (<---- extends)

DataFlow  <=====  BuildExecution <- MCBuildExecution
                     | extends ^--- BuildExecution_proofs
          SyncNode, LocalNode, GmiNode, Review
                     | extend
                 BuildStore
                     | extends
                 RecoveryLadder

ChangeSets  <- MCChangeSets          Sources <- MCSources
   | extends        | instantiates      | extends
Revisions, Impact   Scheduling       Revisions

ChangeSets_proofs                    Sources_proofs
   | extends                            | extends
ChangeSets, Revisions_proofs,        Sources, Revisions_proofs
Impact_proofs

Release, OrbitChecks <- MCRelease    OrbitChecks
   | extends   ^--- Release_proofs      | extends, instantiates
EventLog                             Orbit;  Compiler, Impact
                                                ^--- Compiler_proofs
```

* **WorkQueue** models `queue.py` and the runtime of `runtime.py` together, one
  action per SQL statement or per step of `_process`. Time is discrete: `ttl` of
  a row counts down with `Tick`, which is held back while an awaited heartbeat
  that does not fail is due (`OwesBeat`): that is what `validate_lease_config`
  is for. Executions are indexed by worker and claim number; an *orphan* is an
  execution whose `gather` has been abandoned. Faults are a missed beat, a dead
  heartbeat, a settlement that raises, a crash; `MaxFaults` bounds them.
* **JobBoard** is what the rest of the program relies on: an item is open until
  it is closed once and for all, an open item can be executed again at any time,
  and an item is *done* only on the word of a handler that returned.
* **BuildStore** holds the rows of one build, the executions of its items, and
  the helpers that several handlers share (`schedule_ready_nodes` is `Queued`,
  `Posts`, `Schedulable` and `Schedule`). The queue is reduced to what JobBoard
  promises: `Claimable`, `Settle` and `Lapse` allow an item to be executed again
  after its lease lapsed (`held = FALSE`), its process crashed or its verdict was
  lost.
* **SyncNode** is the handlers of `copy.pack`, `plan.shots`, `audio.narration`
  and `audio.music`, which pay for one synchronous request; **LocalNode** the
  handlers of the sources, the cutout and the poster, the end card and the
  delivery package. The handlers of a module share their phases and differ in
  their guards, which are the definitions that look at `Kind`: `Runnable`,
  `Started`, `Retaken`, `Resumable`, `Persisted`, `FailsBuild`, `Finalizable`.
* **RecoveryLadder** is the decision procedure of `recovery.py` as operators:
  `NextMove` answers with the status a node is parked in and the mechanism and
  model of its next attempt, or declines.
* **GmiNode** is the handler of keyframes and clips, the only one that recovers by
  itself, with the worker side of recovery. It decides twice, as the code does:
  `Recovery` when an attempt has failed, `Resumption` when the item of the next
  attempt runs. `GmiRaises` is what the handler raises outside its `try`.
* **Review** is the decision endpoint.
* **BuildExecution** composes them, with the faults, and states the properties.
* **DataFlow** is the abstract specification of a build: nodes are released in
  the step that satisfies the last of their predecessors, finish or fail, and the
  build succeeds in the step that finishes its last node.
* **Revisions** is the revisions of one project: three writers with two numbering
  rules (`Adopt` for renames and commits, `Upload`), the unique constraints they
  meet (`Fits`), and the graph each revision is compiled to, once, by the policies
  of the day (`Compiles`). A revision *is* its specification, because the schema
  keeps canonical hashes unique within a project.
* **Impact** is `fingerprint.py` and `impact.py` as operators: `Fingerprint`, the
  reuse proof `Rejection`, and `ComputeImpact`. A hash is the value that is hashed,
  so that an equal hash is an equal value and a fingerprint tells what it was
  computed from; this is what lets `MadeFromSelected` be stated.
* **Scheduling** is the pure rules of `scheduling.py`. Nothing in the program calls
  them; they are the reference that ChangeSets compares the worker with.
* **ChangeSets** composes these with drafts, previews, commits, the seed script and
  builds that are reduced to what DataFlow promises, plus the fingerprints and
  outputs that DataFlow leaves out. Each request is one transaction and one action.
  Credentials, policies, images and names change in between.
* **Compiler** is the graph compiler, **Orbit** the eighteen nodes of the template,
  and **OrbitChecks** what TLC evaluates of both and of Impact: assumptions that
  name what the functions compute on every graph of three nodes and on ORBIT
  (`OrbitCompiles`, `CompilerIsDeterministic`, `AllOrNothing`,
  `LegalEditRebuildsFour`, `ChangeRebuildsDescendants`, `DamageRebuildsDescendants`,
  `OnlyCallsAreBlocked`). They are pure facts without states, and are evaluated when
  the `release` run starts, because MCRelease extends the module.
* **Sources** is the upload of the product reference: the client with its signed
  URL, the storage notifications of the quarantine key, the reconciler, and the work
  items of both, over Revisions. A work item is split where its handler lets go of
  the database: `Read` (claim, snapshot, HEAD) and `Record`. A pass of the reconciler is
  one action, over the `Limit` oldest intents that wait and that no lock or grace period
  holds back (`Batch`); those without an object stay in the next one.
* **EventLog** is the rows of `domain_events`, which get their sequence number when
  they are flushed and become visible when their transaction commits, and the
  streams that follow them.
* **Release** is candidates, approvals and publications as transactions of database
  sessions that hold locks, flush, commit or are lost, over the work store and the
  release store.

### Correspondence

| Model | Code |
|---|---|
| `build`, `node[n]`, `attempts[n]`, `selected[n]` | `builds.status`, `build_nodes.status`, `attempts.status` by `attempt_no`, `selected_attempt_id` as an attempt number |
| `open` | work items not settled, one per dedupe key; `Ready(n)` is keyed by the fingerprint, `Retake(n, k)` by the approval, `Recover(n, a)` by the failed attempt |
| `ex[s]` | a handler between its transactions: `calling` (prepared; the provider or the composer runs), `storing` (FETCHING is durable; verification and finalize follow), `skipping` (the end card's `already_fetching`) |
| `calls[n]` | history: requests the synchronous handlers sent for `n` |
| `ladder[n].steps` | mechanism, model and `error_class` of the attempts of a GMI node; `ladder[n].late`: `max_elapsed_seconds` has passed since `started_at`, which every attempt sets anew |
| one action | one transaction. Every transaction that changes a node locks its row and the row of the build before reading them, so transactions on one build are serial |

| `number`, `active`, `compiled` | `project_revisions.revision_no` by specification, `projects.active_revision_id`, the policy versions of the revision's graph |
| `drafts`, `plans`, `builds` | `change_sets`, `impact_plans`, `builds` with their nodes; `by` of a node is the build whose attempt made its output |
| `drafts[d].age` | what has passed since the draft was made: below 30 minutes (a plan of it can be committed), below 24 hours (it can be edited and previewed), more |
| `configured`, `policy` | the credentials in the environment of the API, the policies of the deployed code: with the draft, what a plan is bound to |
| `intent`, `rows`, `items` of Sources | `upload_intents.status`, `b2_object_events.status`, the one work item of a key and a family of events; event 0 of a key is the reconciler's discovery |
| `older[u]` | the intents that were initiated before `u`: the order of `created_at` |
| `log` of Sources, `stored` | what was done to the quarantine key, the canonical objects |
| `session`, `late` of Release | an open transaction with the locks it holds and the sequence it has taken; uploads that a lost request left under way |
| `release`, `activeRelease`, `work`, `store` | `releases.status`, `projects.active_release_id`, the two buckets |

What is merged: the claim of an item with the prepare transaction of its
handler (nothing but a crash happens between them, and that is a claim that is
repeated); the verdict on the item with the last transaction of the handler,
except that the fault `settle` loses it; the statuses SUBMITTED, POLLING and
STORED, and the node's STORING and VERIFYING, which are entered and left inside
one transaction. What is not modelled: attempts' idempotency keys and the
fingerprints (data), validation rows, domain events and audit rows; of recovery, the backoff (a
delayed item is an open item), the spend budget (no code ever writes an attempt's
estimated cost, so its sum is always zero), injected faults (they fail an attempt
as a provider would) and the provider request a resume build may pick up.

## 3. Runs

| Run | Instance | Checks |
|---|---|---|
| `queue_safety` | 2 workers, 2 items, 2 attempts, faults, maintenance | types; an owner exactly while leased; of the executions a worker awaits only the latest claim settles; a waiting item has attempts left; rows move along the table; attempts beyond the maximum come only from re-taken leases; **WorkQueue implements JobBoard** |
| `queue_liveness` | 2 workers, 2 items, no maintenance | every item that is queued is settled, under fairness |
| `build_plan` | brief, cutout, plan, music; 2 slots, 2 retakes, 2 faults of any kind | paid once per decision; only the latest attempt lives; node and attempt agree; legal moves, an output being selected once; **the build implements DataFlow** |
| `build_text` | brief, copy, narration, end card, delivery; 2 slots, 1 retake, 3 faults | node and attempt agree; legal moves; implements DataFlow |
| `build_live` | brief, cutout, copy, plan, narration; 2 slots, 2 faults | a running build ends or waits for a human |
| `build_gmi` | keyframe and clip under their ORBIT policies (4 attempts, 2 retries, a fallback model, another provider), music, a reused plan; 2 slots, 2 faults, failures that are transient, of the model, or of the input | the ladder's budget; a failure of a model is followed by another model and the node's own model is left for good; the second decision is the first; node and attempt agree; implements DataFlow |
| `build_parked`, `build_retake` | three nodes or fewer, no faults | *violated*: see section 6 |
| `changes` | brief, image, copy pack and end card; 2 drafts, 2 previews, 3 builds, 4 revisions, 2 events (clock steps, deployments, failures, renames, uploads) | whatever was reused, rebuilt or kept was made from what the build has selected; a plan rebuilds what a change reaches and nothing else; no edit is lost; the active revision has the newest image; revisions are numbered without gaps; the worker agrees with `scheduling.py`; a build that was started has a work item |
| `changes_undo` | the same graph, legal edits only | *violated*: see section 6 |
| `sources` | 2 uploads, 2 operations on the key that is watched, 2 attempts per item, 1 fault, 2 renames, 3 revisions; the reconciler looks at one intent a pass | an intent only moves forward; a confirmation has seen the object; a completed upload is one version and the last one is active; an object that was written is noticed although its notifications are lost, unless older intents fill the batch of the reconciler |
| `release` | one build with film and poster, 2 labels, 2 sessions, 1 event of the execution, 2 faults | a published release is whole; the log tells the status of each release once; a stream misses nothing of an execution; and OrbitChecks |

Bounds. Two slots let two executions of one item overlap, and executions of two
siblings; a third adds no kind of interference, since all of them meet on the
same locked rows. Two retakes give a node three attempts, enough for an attempt
that is neither first nor last. Two faults are what it takes to lose a lease and
then crash the execution that took over; `build_text` has a third, so that the
one that took over can fail in storage too. The graphs are sections of the ORBIT
template with each kind of handler in the position it has there: with siblings,
with a successor, and as the last node of the build. Three classes of errors stand
for the three ways the ladder treats one: try again, try elsewhere, give up.
`queue_safety` allows two attempts, which the reclaims after two faults exceed, and
leases of three ticks (the ratio `validate_lease_config` demands); `queue_liveness`
has one fault.

`changes` has a small graph in which every rule of reuse has a case: a node
that is bound to the edit and calls a provider (and may answer differently the next
time), one that only depends on it, and a source of either kind. Three builds are a
first build, one that fails or reuses, and one that reuses what was itself reused;
two drafts are two bases, of which one goes stale; four revisions leave room to come
back to an old one. `Few` counts a draft that edits the brief and a build that is
committed without being started as two events: both happen, but not beside a
deployment and a failure. `FirstAnswer` names the answer the first build gets from the
provider the first one: answers differ in nothing but that they differ, and runs that
differ in the names of the answers are the same run. Without `Few` and with one event in all, or with edits of
both fields and one name, the same properties hold (280 thousand and 1.7 million
states). `sources` follows the notifications and items of one upload and completes
the other beside it; two operations are a write and a deletion, or two writes, and
one fault with two attempts is enough to lose a lease and still decide `PutIsNoticed`,
which supposes that storage does not fail every attempt (`MaxFaults < MaxAttempts`).
A pass of the reconciler looks at `Limit` intents, 200 in the code (`b2_reconciliation.py:49`)
and 1 here: of two uploads one fills the batch and the other is the one that has to wait.
Two renames go and come back, which is what makes an upload's revision number collide; three
revisions are enough for that, and for two uploads.
In `release`, two labels are two releases of one build, two sessions race, and two
faults let a lost publication leave an upload under way and an object be damaged.

Fairness. `WorkQueue.FairSpec` assumes that a live worker goes on polling,
running, beating and settling (the loop of `__main__.py`) and that time passes;
it assumes nothing of crashes, faults or maintenance, which is why
`queue_liveness` runs without maintenance: nothing in the program calls
`release_expired_leases`. `BuildExecution.FairSpec` assumes that an open item is
executed again until it is closed, which is what `queue_liveness` shows, and that
an execution in flight goes on. Humans and faults are never forced. In Sources the
worker's items go on, and the reconciler makes pass after pass (both are loops of the worker
process, which is started again when it ends). Fairness is of the pass in which no lock and
no grace period holds an intent back, `Reconcile({})`, since clients and workers let go of
their rows and intents grow older; what the pass *does* is decided by `Batch`, the oldest
waiting intents, so that nothing is assumed for any single upload. The client, the storage and
its notifications never have to go on. ChangeSets and Release
state safety only.

`build_live` leaves three handlers out because the property fails for them and the
reason is the handler: the delivery package refuses the attempt its crashed
predecessor left (`delivery_work.py:126-140`), and so does the GMI handler
(`gmi_work.py:226-229`); the end card's second execution closes the item while the
first may still crash (`end_card_work.py:254-256`). It also runs with retakes at 0 (`build_retake` shows
where they get stuck), and without storage and database errors, which leave a
node RUNNING when they exhaust the item.

`CHECK_DEADLOCK FALSE` everywhere: a queue whose items are settled and a build
that has ended stop.

## 4. Proofs

`WorkQueue_proofs` proves, for every set of workers and items and every value of
the bounds, all the safety properties `queue_safety` checks (section
"theorems" of `PROJECT.json`): types, the four invariants and action properties,
and that WorkQueue implements JobBoard.

None of the invariants is inductive alone. `IInv` adds to them what an execution
knows about its row: claims are numbered, a row leased by a worker carries the
number of an execution of that worker or of a crashed one, an execution that has
not been abandoned and whose worker owns the row carries the row's claim number,
and a worker that is polling has no awaited execution left. The last is why
`run_once` must wait for its whole batch before it claims again: the owner name
does not distinguish two claims of one worker, only this does. Orphans it does not
cover: one that outlives its `gather` may settle a newer claim of its worker, and no
statement prevents it. What is left then is `ImplementsBoard`, that an item is done once
and on the word of a handler, and `LegalMoves`, which a settlement that forgot to compare
the owner would break. `IInv` was first
checked with TLC; its preservation is proved action by action. The action
properties follow from `IInv` and `RowMoves`, a lemma that lists what each action
may do to a row; the refinement from `BoardStep`.

`Release_proofs` proves all four invariants of the `release` run for every set of
builds, deliverables, labels and sessions, any number of events and any number of
faults: `TypesHold`, `PublishedStaysWhole`, `StatusIsLogged`, `ExecutionArrives`.
Its `IInv` is the conjunction of eight parts, each checked with TLC first and each
preserved by a lemma of its own (`TypesStep`, `LocksStep`, ... `FollowedStep`):

* `Exclusive`: no two transactions hold one lock. `Held` follows from it: what a
  transaction has read (the build still runs, the label is free, the release is
  READY_FOR_APPROVAL or APPROVED) is still so when it commits. It is here that
  the row lock of the build, the lock of the project and the unique label are
  needed; with `WaitsForNobody` for `Waits`, the lemma `LocksStep` is false.
* `Copied`: what a publication has ticked off, and everything that is published,
  is right in the release store. A late upload only ever writes the right bytes
  and `store_bytes` keeps a right object, so no step but `Damage` could spoil one.
* `Numbering`: a sequence number that is taken and not committed is nobody else's;
  that of an execution is above every row of its build, and that of a publication
  above every publication. `Telling`, `Leading` and `Followed` are the log against
  the rows, the active release and the streams; they follow commit by commit.

`ExecutionArrives` shows what `NothingIsMissed` (section 6) lacks: rows of
releases are numbered without the lock of the build, so `Numbering` says nothing
of their order. The proof assumes of `Damage` what the module says there: nobody
spoils the release store where a publication is at work or has been.

`BuildExecution_proofs` proves everything the four passing build runs check but
`BuildEnds`: seven invariants, `LegalMoves`, and that the build implements DataFlow, for
every graph and policy. None of `NodeMatchesAttempt`, `OnlyLatestLives` and
`PaidOncePerDecision` is inductive: an execution that returns from a call would be free
to write over anything. `IInv` adds what makes it harmless. `Refers`: an execution in
flight names an attempt its node really has. `Single`: only the plan and the GMI nodes
have a second attempt, so that for every other handler "an attempt" is "the attempt".
`Chosen`: a node with a selected output is PASSED, or FAILED by a reviewer, and is not
run again. `Ordered`: no node runs ahead of its predecessors. `Paid`: a retake that is
ordered and not taken up is a request not yet sent. `Diagnosed`: a parked node is one of
GMI, and the class of its last failure is known. The twenty-six actions are not argued one
by one against the twelve conjuncts: each is first shown to be one of a few kinds of change
(`RowStep`, `NodeStep`, `ExStep`, `LadderStep`), and each conjunct is shown to survive the
kinds. The refinement follows action by action: the step that satisfies the last
predecessor is the step that queues the successor, because `Schedule` is part of the
finalize transaction.

`Sources_proofs` proves all properties of `sources` but `PutIsNoticed`, which is
liveness. A confirmation comes long after the HEAD request it rests on, so
`ConfirmedWasThere` needs an invariant on the item between its two halves: `ItemsFine`
says that an item of the create family in state READ, or late, has seen the announced
object in the log, and that tries are bounded by the limit plus the faults so far.
`EventsWere` and `Untouched` tie event rows to the log.

`ChangeSets_proofs` proves all eight properties of `changes`. The statuses come first:
`IInv` holds for each build that it is FAILED exactly if a node is, complete when it
says so, and that once it was started no node that may start is left waiting
(`Closed`). `OpenIsAttended` and `CompletionAgrees` follow. Both are about builds without
parked nodes, the only ones of this module: there a QUEUED node has a work item, while
`build_parked` shows that it may have none once its build has waited for review.
`MadeFromSelected` has an
invariant of its own on top, `RowsFine`: the fingerprint of every row is that of what it
reads *in its own build*, and the output of every accepted row was made under that
fingerprint or under an equal one of an earlier build. The step that matters is the
commit. A plan decides with placeholders, and the commit copies rows of the base build;
`KeptReadsKept` of `Impact_proofs` (a node that is kept reads only nodes that are kept)
and `PlanIsDecided` (the recursive plan exists: an argument by a minimal undecided node)
carry what was true of the base over to the new build.

`PlansAreExact` is the converse of `MadeFromSelected`: what may be kept is kept. It rests on
`OnlyTheReachedIsRebuilt` of `Impact_proofs`, which says of `compute_impact`, for every
graph, that it keeps the largest set of unchanged nodes that read only each other: an
unchanged node outside it reads, perhaps at some distance, a node that is made again, and
then carries another fingerprint, because a placeholder is no output that was ever made. The
examples of `OrbitChecks` (a legal copy rebuilds its descendants, a damaged asset those that
read it) are cases of it. `RowsFine` supplies its hypothesis, that the candidates of the
baseline were made by the recipe of the baseline from outputs of the baseline; its part
`Attempted`, that `_owns_reused_attempt` turns down none of them, however many builds
have passed an output on.

Two hypotheses stand in `MadeHolds` and `PlansHold`. `NoneIsNoOutput` and
`NoneIsNoCandidate` say that the value for "none" is no output and no candidate. They
quantify over all values, so they are no ASSUME TLC could evaluate; the configurations
give `None` a model value, which differs from every other value.

`Compiler_proofs` is about operators, for every template whose keys the order of keys knows.
`TopologicalOrder` is a fold of `Extended`, and the prover has no induction on the number of
rounds: `LeastNumber` takes the first round at which a claim fails instead, `Iterates` says
what every round keeps, and `Climb` that a set that is not everything grows. From these,
an order lists each node once and after what it reads (`OrderRespectsEdges`); it stops
early exactly when the nodes left wait for each other, so that GRAPH_CYCLE is said of the
graphs with a cycle only (`RefusedForItsCycles`); the listing of the template decides
neither the error nor order and hash (`ListingDoesNotMatter`); and what is no orphan is
read (`NoOrphanIsRead`).

`Revisions_proofs` has the lemmas that the proofs about ChangeSets and Sources
share: `Adopt` and `Upload` keep revisions numbered without gaps and never revise one
that is known.

What the theorems assume are the named assumptions of the modules, which TLC evaluates
on every run, and the two hypotheses above. The ones that are not mere types and bounds, and
where the code ensures them:

* `ReuseAssumption` (BuildStore): a committed build reuses a node only with everything it
  was made from. It is what `KeptReadsKept` proves of plans.
* `SourceAssumption` (BuildStore): a source feeds some node, so that a source never is
  the node that ends a build. A template that `assert_reaches` lets pass has this property
  (`NoOrphanIsRead`).
* `PolicyAssumption` (BuildStore): where a policy names another provider there is a model
  for it that differs from the models of the node. Without one `decide_recovery` would
  repeat the model that failed (`recovery.py:160-190`), and `FailedModelNotRepeated` would
  be false; `gmi_gateway.py` (`from_env`) does not let a worker start that way.
* `AcyclicAssumption` (Impact): every non-empty set of nodes has one that reads nothing of
  the set. `CompiledIsAcyclic` proves it of every graph the compiler accepts
  (`compiler.py:188`).
* `PatchAssumption`, `GraphAssumption` (ChangeSets): a patch edits parameters only
  (`changes.py:982-989`); there are two sources and something else besides, as in the
  template.

What stays with TLC: liveness (`EverySettled`, `BuildEnds`, `PutIsNoticed`), since the
prover handles neither fairness nor ENABLED; the three runs that show a violation; and
the facts about ORBIT that OrbitChecks evaluates. Induction over data is out
of the prover's reach; where an existence proof needed it (`PlanExists`), finiteness of
the set of nodes and a minimal counterexample took its place, as did the first failing
round in `Compiler_proofs`.

## 5. Mutants

Each property of a passing run names a change of the code it would catch: a
definition that ends in a word such as `...Always`, `...Blind`, `...Unflushed`
and says "Variant of" is that change, placed before the definition it varies. It
is used nowhere else.

## 6. Disagreements between the code and what it says

Shown by a run:

* `build_parked`: while one node waits for review the build is WAITING_REVIEW,
  and the items of queued siblings die as "not runnable"; the decision returns
  the build to RUNNING but nobody queues those siblings again.
* `build_retake`: only `plan.shots` can be retaken; the item of a retake of any
  other node dies and the node stays RETAKE_PENDING.
* `changes_undo`: a commit whose plan reuses every node creates a QUEUED build
  without a work item, and nothing ever completes it (`changes.py:460`);
  `test_scheduling.py:159` says that a no-op build is a successful one. A build that
  is committed with `start_build` false stays PLANNED in the same way.

Stated in a module, and seen by naming the formula as the only INVARIANT of a
configuration of that module:

* `LoserStops` (WorkQueue; `queue_safety.cfg`): a worker that lost its lease does not
  stop (`queue.py:191` says it must; `runtime.py:126`).
* `WaitsForSomeNode` (BuildExecution; `build_plan.cfg`): FAIL does not stop the build
  (`review.py:124` offers it for that). The build stays WAITING_REVIEW, without a node that
  waits, and no later decision moves it (`review.py:202`).
* `LadderGoesDown` (BuildExecution; `build_gmi.cfg`): the ladder is not walked down
  (`README.md:79`). The model fallback is any fallback model but the current one
  (`recovery.py:160`), so that under the video policy failures of the model give: own
  model, fallback, other provider, fallback.
* `ParkedIsAttended` (BuildExecution; `build_gmi.cfg`): a node parked for recovery whose
  item runs after the elapsed-time budget is declined by the second decision
  (`gmi_work.py:204-214`, whose comment says that the answers are the same); its item is
  dead, and the node stays parked in a build that stays RUNNING.
* `MissedIsSweptUp` (Sources; `sources.cfg`, as a PROPERTY): an upload that was initiated
  and never made stays INITIATED for ever and is among the oldest of every pass of the
  reconciler (`b2_reconciliation.py:66-84`). Once there are 200 of them, an object whose
  notification was lost is not found, against `devpost-submission.md:252`.
* `NothingIsMissed` (Release; `release.cfg`): the rows that `create_candidate`,
  `approve` and `publish` write are numbered without the lock on the build, so a
  stream can pass over one that commits late; `stream_build_events` promises to
  resume "rather than replaying or skipping". `ExecutionIsNotMissed` is the part that
  holds.
* `IdenticalBytesOneKey` (Sources; `sources.cfg` with `FileOf <- OneImageTwice`):
  the extension of the file name is part of the key, so identical bytes can have two,
  against `keys.py:6`; `_upsert_asset` then refuses the second upload.

Found while reading, and part of the models without a formula of their own:

* `_asset_integrity` compares the brief of the baseline with the brief of the draft's
  base revision. After a failed build, undoing a change of the brief rebuilds
  everything, although the comment at `changes.py:658-668` says identity is by
  fingerprint and not by lineage.
* An upload numbers its revision after the active one and compares its hash with the
  parent only. After the project has returned to an older revision, or for bytes that
  were active before, the unique constraints refuse it (`Fits`), after the canonical
  object was stored.
* A plan expires 30 minutes after its *draft* was made, so that a preview of an older
  draft is born expired (`Current`).
* The source node resolves the newest version of the project's image and not that of
  the build's revision (`Made`).
* `compile_revision` refuses a revision that was compiled under other policies: after
  a deployment of new policies no commit can return to it (`Compiles`).
* The seed script builds from its own brief and image, whatever the active revision
  says (`SeedNode`).
* `store_bytes` takes an object of the same size for the right one. It is meant for
  content addresses, but release keys are paths: a leftover of equal size with other
  bytes makes the readback refuse the publication for ever (`Stored`, `ReadBack`).
* README.md says reuse reads the bytes again; `_asset_integrity` reads rows.

## 7. Not modelled

* **Provider gateways, media composition** appear as the outcomes a handler can meet.
  **Object storage** is what Sources and Release need of it.
* **Fault injection**: an injected fault fails the attempt it hits as a provider
  failure does, through `_fail`, and the ladder does not tell the two apart, so that
  GmiNode already has its effect on a build. The rules and their remaining uses are
  left out: they are counted in the prepare transaction without a lock of their own,
  and only two builds of one project that prepare the same node at the same moment
  could spend one use twice.
* **Sources**: events of keys that belong to no upload, signatures of webhooks, media
  probes. An event whose item has died stays RECEIVED, which makes the reconciler skip
  its key for ever; `PutIsNoticed` excludes it by its premise `MaxFaults < MaxAttempts`,
  and a batch filled by older intents by `~Crowded(u)`. A pass in which one HEAD fails keeps
  nothing (`ReconcileFails`); in the program the error also ends the worker process, since
  it is none of the database's (`__main__.py:110`), so that a key whose HEAD always fails
  would stop the reconciler altogether: `Fault` counts it among the bounded ones.
* **ChangeSets**: outputs that are revoked, approved by hand or marked as fixtures,
  which no code writes; cost estimates; authorization and audit rows.
* **Release**: refusals before the first write; REJECTED, PUBLISH_FAILED and SUPERSEDED,
  which no code writes; audit rows and authorization; object keys.
* **Compiler**: prompts and media parameters, wording of errors. Canonical JSON is the
  value it is the encoding of.
* **Authentication, read models, thumbnails, the web application** change none of
  the state above.

## 8. Plan

1. *(done)* Work queue and runtime, with proofs. 2. *(done)* Build execution of
all nine handlers and reviews. 3. *(done)* The recovery ladder. 4. *(done)* Changes,
impact and revisions. 5. *(done)* Uploads and storage events. 6. *(done)* Releases and
the event stream, with proofs. 7. *(done)* The compiler and the ORBIT graph. Then, in this order:

8. *(done)* Proofs about BuildExecution. 9. *(done)* Proofs about Revisions, Impact,
ChangeSets, Sources and Compiler.

Left: the refinements `ImplementsBoard` and `ImplementsDataFlow` could be joined into
one statement about handlers and queue (the two models meet on the items a worker may
execute again); fault rules, if they come to do more than fail an attempt; the resume
builds of GMI.
