--------------------------- MODULE RecoveryLadder ---------------------------
(***************************************************************************)
(* The decision after a failed attempt (recovery.py): the same model       *)
(* again, another model of the provider, another provider, or the end.     *)
(* A policy p is the part of a provider policy the decision reads, its     *)
(* placeholders resolved: p.model and p.fallbacks of the primary provider, *)
(* p.providers the models of the other providers whose credential is       *)
(* there, p.retries and p.total the limits on transient retries and on     *)
(* attempts.  The estimated spend of an attempt is never recorded, so the  *)
(* spend budget is left out; the elapsed time is the Boolean late.         *)
(***************************************************************************)
EXTENDS Naturals, Sequences, FiniteSets

Mechanisms == {"PRIMARY", "SAME_PROVIDER_RETRY", "SAME_PROVIDER_MODEL_FALLBACK",
               "CROSS_PROVIDER_FALLBACK"}

Deterministic == {"INPUT", "AUTH", "POLICY", "VALIDATION"}
Retryable     == {"TRANSIENT", "STORAGE", "INTERNAL"}
ErrorClasses  == Deterministic \cup Retryable \cup {"MODEL", "QUOTA"}

Policies(Models) ==
    [model : Models, fallbacks : Seq(Models), providers : Seq(Models),
     retries : Nat, total : Nat \ {0}]

\* An attempt as the ladder sees it.
Steps(Models) == [mechanism : Mechanisms, model : Models, error : ErrorClasses \cup {"NONE"}]

Primary(p) == [mechanism |-> "PRIMARY", model |-> p.model, error |-> "NONE"]

RetriesOf(steps) ==
    Cardinality({a \in DOMAIN steps : steps[a].mechanism = "SAME_PROVIDER_RETRY"})

\* Variant of Exhausted: the attempt that would be one too many is let through.
ExhaustedLate(p, steps, late) == Len(steps) > p.total \/ late

Exhausted(p, steps, late) == Len(steps) >= p.total \/ late

\* The models a policy names beside its own.
Alternatives(p) ==
    {p.fallbacks[i] : i \in DOMAIN p.fallbacks} \cup {p.providers[i] : i \in DOMAIN p.providers}

\* The first fallback model that is not the one that failed.
Others(p, current) == {i \in DOMAIN p.fallbacks : p.fallbacks[i] # current}
Candidate(p, current) ==
    p.fallbacks[CHOOSE i \in Others(p, current) : \A k \in Others(p, current) : i <= k]

(***************************************************************************)
(* The decision on the failure, of class error, of the last attempt: where *)
(* the node is parked and with which step it goes on.                      *)
(***************************************************************************)
Declined == [parked |-> FALSE]

Parking(status, mechanism, model) ==
    [parked |-> TRUE, status |-> status,
     step |-> [mechanism |-> mechanism, model |-> model, error |-> "NONE"]]

NextMove(p, steps, late, error, current) ==
    CASE Exhausted(p, steps, late) \/ error \in Deterministic -> Declined
      [] ~Exhausted(p, steps, late) /\ error \in Retryable /\ RetriesOf(steps) < p.retries ->
           Parking("RETRY_PENDING", "SAME_PROVIDER_RETRY", current)
      [] OTHER ->
           IF Others(p, current) # {}
             THEN Parking("FALLBACK_PENDING", "SAME_PROVIDER_MODEL_FALLBACK", Candidate(p, current))
           ELSE IF p.providers # <<>>
             THEN Parking("FALLBACK_PENDING", "CROSS_PROVIDER_FALLBACK", Head(p.providers))
           ELSE Declined

=============================================================================
