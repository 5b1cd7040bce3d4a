------------------------------- MODULE Impact -------------------------------
(***************************************************************************)
(* Which nodes of a changed graph keep the output of an earlier build      *)
(* (fingerprint.py, impact.py).  A fingerprint is the value that is hashed *)
(* and a content hash is the content, so that equal hashes are equal       *)
(* values and a fingerprint tells what it was computed from.  The output   *)
(* a node will have is referred to by the output it keeps, or by a         *)
(* placeholder for the one it is going to make.                            *)
(***************************************************************************)
EXTENDS Naturals, Sequences, FiniteSets

CONSTANTS
    Nodes,           \* the nodes of the graph
    Sources,         \* those that carry uploaded content and have no inputs
    Inputs,          \* Inputs[n]: the nodes n reads, by input slot
    None             \* no candidate, no output

ASSUME InputAssumption ==
    /\ Sources \subseteq Nodes
    /\ Inputs \in [Nodes -> Seq(Nodes)]
    /\ \A n \in Sources : Inputs[n] = <<>>

Reads(n) == {Inputs[n][i] : i \in DOMAIN Inputs[n]}

\* The compiler refuses a graph with a cycle: of any nodes, there is one that reads
\* none of them.
ASSUME AcyclicAssumption ==
    /\ IsFiniteSet(Nodes)
    /\ \A T \in SUBSET Nodes : T # {} => \E n \in T : Reads(n) \cap T = {}

\* The slots keep their order: to swap two inputs is a change.
Fingerprint(operation, refs) == <<"made by", operation, refs>>
SourceFingerprint(n, operation, content) == <<"source", n, operation, content>>

\* Variant of Pending: the placeholder is the output the node had before.
PendingAsBefore(fp, candidate) == IF candidate = None THEN <<"pending", fp>> ELSE candidate.out

Pending(fp, candidate) == <<"pending", fp>>

IsPending(ref) == ref # None /\ ref[1] = "pending"

(***************************************************************************)
(* The reuse proof.  A candidate is what an earlier build has of the node: *)
(* its fingerprint, whether its status is accepted (or it was approved by  *)
(* hand), its selected output, and what the database says of the bytes     *)
(* (present, verified) and of the quality gates (current).                 *)
(***************************************************************************)
Rejection(fp, candidate, fixtures) ==
    IF candidate = None                       THEN "CACHE_MISS"
    ELSE IF candidate.fp # fp                 THEN "NODE_SPEC_CHANGED"
    ELSE IF candidate.revoked                 THEN "MANUAL_INVALIDATION"
    ELSE IF ~candidate.accepted               THEN "CACHE_MISS"
    ELSE IF candidate.out = None              THEN "CACHE_ASSET_MISSING"
    ELSE IF ~candidate.present                THEN "CACHE_ASSET_MISSING"
    ELSE IF ~candidate.verified               THEN "CACHE_ASSET_UNVERIFIED"
    ELSE IF ~candidate.current                THEN "CACHE_VALIDATION_STALE"
    ELSE IF candidate.fixture /\ ~fixtures    THEN "CACHE_MISS"
    ELSE "NONE"

\* What is told of a changed fingerprint: where the change came from.
Refined(n, why, refs) ==
    IF why # "NODE_SPEC_CHANGED"                        THEN why
    ELSE IF \E i \in DOMAIN refs : IsPending(refs[i])   THEN "UPSTREAM_FINGERPRINT_CHANGED"
    ELSE IF n \in Sources                               THEN "SOURCE_CONTENT_CHANGED"
    ELSE "NODE_SPEC_CHANGED"

Keep(why) == why = "NONE"

(***************************************************************************)
(* The impact plan.  operation[n] is the resolved operation of node n,     *)
(* content[n] the content of source n, base[n] the candidate, blocked the  *)
(* nodes that lack a credential.                                           *)
(***************************************************************************)

\* What is decided of node n, whose inputs are going to be refs.
Entry(n, refs, operation, content, base, blocked) ==
    LET fp   == IF n \in Sources
                  THEN SourceFingerprint(n, operation[n], content[n])
                  ELSE Fingerprint(operation[n], refs)
        why  == Rejection(fp, base[n], FALSE)
        old  == IF base[n] = None THEN None ELSE base[n].fp
        plan(decision, reason, ref) ==
          [decision |-> decision, reason |-> reason, fp |-> fp, old |-> old, ref |-> ref]
    IN CASE Keep(why) -> plan("REUSE", "EXACT_VALIDATED_REUSE", base[n].out)
         [] ~Keep(why) /\ n \in blocked -> plan("BLOCKED", "CONFIGURATION_BLOCKED", None)
         [] OTHER -> plan("REBUILD", Refined(n, why, refs), Pending(fp, base[n]))

\* In topological order: of a node, when its inputs have been decided.
ComputeImpact(operation, content, base, blocked) ==
    LET entry[n \in Nodes] ==
          Entry(n, [i \in DOMAIN Inputs[n] |-> entry[Inputs[n][i]].ref],
                operation, content, base, blocked)
    IN entry

\* _plan_hash: what identifies a plan; the outputs it keeps are not part of it.
PlanHash(plan) ==
    [n \in Nodes |-> <<plan[n].decision, plan[n].reason, plan[n].fp, plan[n].old>>]

Decided(plan, decision) == {n \in Nodes : plan[n].decision = decision}

=============================================================================
