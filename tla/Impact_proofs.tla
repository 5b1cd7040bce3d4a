---------------------------- MODULE Impact_proofs ----------------------------
(***************************************************************************)
(* Lemmas about the impact plan, for every graph without a cycle: there is *)
(* exactly one decision for each node, made from those of its inputs; a    *)
(* node that is kept reads nothing that is made again; and what is made    *)
(* again is what a change reaches, and nothing else.                       *)
(***************************************************************************)
EXTENDS Impact, FiniteSetTheorems, WellFoundedInduction, TLAPS

\* What the inputs of n refer to, by the entries of a plan.
Refs(entry, n) == [i \in DOMAIN Inputs[n] |-> entry[Inputs[n][i]].ref]

\* A plan of the nodes X, each of which reads only nodes of X.
Plans(X, f, operation, content, base, blocked) ==
    /\ X \subseteq Nodes /\ \A n \in X : Reads(n) \subseteq X
    /\ f = [n \in X |-> Entry(n, Refs(f, n), operation, content, base, blocked)]

\* Only the entries of its inputs decide what a node refers to.
LEMMA RefsAgree ==
    ASSUME NEW n \in Nodes, NEW f, NEW g, \A m \in Reads(n) : f[m] = g[m]
    PROVE  Refs(f, n) = Refs(g, n)
  <1>1. \A i \in DOMAIN Inputs[n] : Inputs[n][i] \in Reads(n)
    BY DEF Reads
  <1> QED
    BY <1>1 DEF Refs

\* A plan of some of the nodes is extended by a node that reads only those.
LEMMA OneMore ==
    ASSUME NEW X, NEW f, NEW operation, NEW content, NEW base, NEW blocked,
           Plans(X, f, operation, content, base, blocked),
           NEW n \in Nodes \ X, Reads(n) \subseteq X
    PROVE  \E g : Plans(X \cup {n}, g, operation, content, base, blocked)
  <1> DEFINE E(m, refs) == Entry(m, refs, operation, content, base, blocked)
             g == [m \in X \cup {n} |-> E(m, Refs(f, m))]
  <1>1. /\ X \subseteq Nodes /\ \A m \in X : Reads(m) \subseteq X
        /\ f = [m \in X |-> E(m, Refs(f, m))]
    BY DEF Plans
  <1>2. \A m \in X : g[m] = f[m]
    <2> HIDE DEF E
    <2> QED
      BY <1>1
  <1>3. \A m \in X \cup {n} : Refs(g, m) = Refs(f, m)
    <2> HIDE DEF g
    <2> QED
      BY <1>1, <1>2, RefsAgree
  <1>4. g = [m \in X \cup {n} |-> E(m, Refs(g, m))]
    BY <1>3
  <1> HIDE DEF g
  <1>5. Plans(X \cup {n}, g, operation, content, base, blocked)
    BY <1>1, <1>4 DEF Plans
  <1> QED
    BY <1>5

\* Of finitely many nodes without a cycle there is a plan.
LEMMA PlanExists ==
    ASSUME NEW operation, NEW content, NEW base, NEW blocked
    PROVE  \E f : Plans(Nodes, f, operation, content, base, blocked)
  <1> DEFINE P(X) == \E f : Plans(X, f, operation, content, base, blocked)
             Left == {Y \in SUBSET Nodes : P(Nodes \ Y)}
             R == StrictSubsetOrdering(Nodes)
  <1>1. Left \subseteq FiniteSubsetsOf(Nodes)
    <2>1. \A Y \in SUBSET Nodes : IsFiniteSet(Y)
      BY AcyclicAssumption, FS_Subset
    <2> QED
      BY <2>1 DEF FiniteSubsetsOf
  <1>2. Nodes \in Left
    <2>1. Plans({}, [n \in {} |-> None], operation, content, base, blocked)
      BY DEF Plans
    <2>2. Nodes \ Nodes = {}
      OBVIOUS
    <2> QED
      BY <2>1, <2>2
  <1>3. PICK Y \in Left : \A Z \in Left : ~ (<<Z, Y>> \in R)
    <2>1. IsWellFoundedOn(R, FiniteSubsetsOf(Nodes))
      BY FS_StrictSubsetOrderingWellFounded
    <2> HIDE DEF R, Left
    <2> QED
      BY <1>1, <1>2, <2>1, WFMin
  <1>4. Y = {}
    <2> SUFFICES ASSUME Y # {} PROVE FALSE
      OBVIOUS
    <2>1. PICK n \in Y : Reads(n) \cap Y = {}
      BY <1>3, AcyclicAssumption
    <2>2. n \in Nodes /\ Reads(n) \subseteq Nodes \ Y
      BY <2>1, InputAssumption DEF Reads
    <2>3. P((Nodes \ Y) \cup {n})
      BY <1>3, <2>1, <2>2, OneMore
    <2>4. (Nodes \ Y) \cup {n} = Nodes \ (Y \ {n})
      BY <2>1, <2>2
    <2>5. Y \ {n} \in Left
      BY <2>3, <2>4
    <2>6. <<Y \ {n}, Y>> \in R
      BY <1>3, <2>1 DEF StrictSubsetOrdering
    <2> QED
      BY <1>3, <2>5, <2>6
  <1>5. P(Nodes \ Y)
    BY <1>3
  <1> QED
    BY <1>4, <1>5

\* compute_impact walks the nodes in topological order; whatever the graph, every
\* node gets the one entry that follows from the entries of its inputs.
THEOREM PlanIsDecided ==
    ASSUME NEW operation, NEW content, NEW base, NEW blocked,
           NEW plan, plan = ComputeImpact(operation, content, base, blocked)
    PROVE  /\ DOMAIN plan = Nodes
           /\ \A n \in Nodes :
                plan[n] = Entry(n, Refs(plan, n), operation, content, base, blocked)
  <1> DEFINE E(n, f) == Entry(n, Refs(f, n), operation, content, base, blocked)
  <1>1. PICK f : f = [n \in Nodes |-> E(n, f)]
    <2>1. PICK f : Plans(Nodes, f, operation, content, base, blocked)
      BY PlanExists
    <2> QED
      BY <2>1 DEF Plans
  <1>2. plan = CHOOSE g : g = [n \in Nodes |-> E(n, g)]
    BY DEF ComputeImpact, Refs
  <1>3. plan = [n \in Nodes |-> E(n, plan)]
    <2> HIDE DEF E
    <2> QED
      BY <1>1, <1>2
  <1> QED
    BY <1>3

\* What one entry says: a node is kept for the very fingerprint of its candidate,
\* and what is made again is referred to by a placeholder.
LEMMA EntryIs ==
    ASSUME NEW n, NEW refs, NEW operation, NEW content, NEW base, NEW blocked,
           NEW e, e = Entry(n, refs, operation, content, base, blocked)
    PROVE  /\ e.decision \in {"REUSE", "BLOCKED", "REBUILD"}
           /\ e.fp = IF n \in Sources THEN SourceFingerprint(n, operation[n], content[n])
                     ELSE Fingerprint(operation[n], refs)
           /\ e.decision = "REUSE" =>
                e.ref = base[n].out /\ base[n].fp = e.fp /\ base[n].accepted /\ base[n].out # None
           /\ e.decision = "REBUILD" => e.ref = <<"pending", e.fp>>
  <1> DEFINE fp == IF n \in Sources THEN SourceFingerprint(n, operation[n], content[n])
                   ELSE Fingerprint(operation[n], refs)
             why == Rejection(fp, base[n], FALSE)
             old == IF base[n] = None THEN None ELSE base[n].fp
  <1>1. Keep(why) => base[n].fp = fp /\ base[n].accepted /\ base[n].out # None
    <2> HIDE DEF fp
    <2> QED
      BY DEF Rejection, Keep
  <1>2. e = CASE Keep(why) ->
                   [decision |-> "REUSE", reason |-> "EXACT_VALIDATED_REUSE", fp |-> fp,
                    old |-> old, ref |-> base[n].out]
              [] ~Keep(why) /\ n \in blocked ->
                   [decision |-> "BLOCKED", reason |-> "CONFIGURATION_BLOCKED", fp |-> fp,
                    old |-> old, ref |-> None]
              [] OTHER ->
                   [decision |-> "REBUILD", reason |-> Refined(n, why, refs), fp |-> fp,
                    old |-> old, ref |-> Pending(fp, base[n])]
    BY DEF Entry
  <1> HIDE DEF fp, why, old
  <1>3. CASE Keep(why)
    <2>1. e = [decision |-> "REUSE", reason |-> "EXACT_VALIDATED_REUSE", fp |-> fp,
               old |-> old, ref |-> base[n].out]
      BY <1>2, <1>3
    <2> QED
      BY <1>1, <1>3, <2>1 DEF fp
  <1>4. CASE ~Keep(why) /\ n \in blocked
    <2>1. e = [decision |-> "BLOCKED", reason |-> "CONFIGURATION_BLOCKED", fp |-> fp,
               old |-> old, ref |-> None]
      BY <1>2, <1>4
    <2> QED
      BY <2>1 DEF fp
  <1>5. CASE ~Keep(why) /\ n \notin blocked
    <2>1. e = [decision |-> "REBUILD", reason |-> Refined(n, why, refs), fp |-> fp,
               old |-> old, ref |-> Pending(fp, base[n])]
      BY <1>2, <1>5
    <2> QED
      BY <2>1 DEF fp, Pending
  <1> QED
    BY <1>3, <1>4, <1>5

\* A fingerprint tells what it was computed from.
LEMMA FingerprintTells ==
    ASSUME NEW recipe, NEW used, NEW r, NEW u, Fingerprint(recipe, used) = Fingerprint(r, u)
    PROVE  recipe = r /\ used = u
  <1>1. Fingerprint(recipe, used)[2] = recipe /\ Fingerprint(recipe, used)[3] = used
    BY DEF Fingerprint
  <1>2. Fingerprint(r, u)[2] = r /\ Fingerprint(r, u)[3] = u
    BY DEF Fingerprint
  <1> QED
    BY <1>1, <1>2

\* The plan is sound (impact.py: "recipe, inputs, stored bytes and quality gates are
\* all unchanged").  When nothing is blocked and a node that is kept was once made
\* from outputs, not from placeholders, then its inputs are kept as well, and they
\* are the very outputs it was made from, by the very recipe.
THEOREM KeptReadsKept ==
    ASSUME NEW operation, NEW content, NEW base, NEW blocked,
           NEW plan, plan = ComputeImpact(operation, content, base, blocked),
           Decided(plan, "BLOCKED") = {},
           NEW n \in Nodes \ Sources, plan[n].decision = "REUSE",
           NEW recipe, NEW used, base[n].fp = Fingerprint(recipe, used),
           \A i \in DOMAIN Inputs[n] : used[i][1] # "pending"
    PROVE  /\ \A m \in Reads(n) : plan[m].decision = "REUSE"
           /\ operation[n] = recipe /\ Refs(plan, n) = used
  <1>1. \A m \in Nodes : plan[m] = Entry(m, Refs(plan, m), operation, content, base, blocked)
    BY PlanIsDecided
  <1>2. plan[n].fp = Fingerprint(operation[n], Refs(plan, n)) /\ base[n].fp = plan[n].fp
    BY <1>1, EntryIs
  <1>3. operation[n] = recipe /\ Refs(plan, n) = used
    <2>1. PICK o, r : o = operation[n] /\ r = Refs(plan, n)
      OBVIOUS
    <2>2. Fingerprint(o, r) = Fingerprint(recipe, used)
      BY <1>2, <2>1
    <2>3. o = recipe /\ r = used
      BY <2>2, FingerprintTells
    <2> QED
      BY <2>1, <2>3
  <1>4. ASSUME NEW i \in DOMAIN Inputs[n]
        PROVE  plan[Inputs[n][i]].decision = "REUSE"
    <2>1. PICK m : m = Inputs[n][i]
      OBVIOUS
    <2>2. m \in Nodes
      BY <2>1, InputAssumption
    <2>3. plan[m].ref = used[i]
      BY <1>3, <2>1 DEF Refs
    <2>4. plan[m].decision # "REBUILD"
      <3>1. SUFFICES ASSUME plan[m].decision = "REBUILD" PROVE FALSE
        OBVIOUS
      <3>2. plan[m].ref = <<"pending", plan[m].fp>>
        BY <1>1, <2>2, <3>1, EntryIs
      <3>3. used[i][1] = "pending"
        BY <2>3, <3>2
      <3> QED
        BY <3>3
    <2>5. plan[m].decision # "BLOCKED"
      BY <2>2 DEF Decided
    <2>6. plan[m].decision \in {"REUSE", "BLOCKED", "REBUILD"}
      BY <1>1, <2>2, EntryIs
    <2> QED
      BY <2>1, <2>4, <2>5, <2>6
  <1> QED
    BY <1>3, <1>4 DEF Reads

-----------------------------------------------------------------------------
(* The plan is exact *)

\* An output that was made, and a candidate whose output may be kept.
IsReal(ref) == ref # None /\ ref[1] # "pending"

IsSound(c) ==
    /\ c # None /\ c.out # None
    /\ c.accepted /\ c.present /\ c.verified /\ c.current /\ ~c.revoked /\ ~c.fixture

\* A node is kept exactly for a sound candidate of its very fingerprint, and what is
\* not kept is referred to by nothing that was made.
LEMMA EntryKeeps ==
    ASSUME NEW n, NEW refs, NEW operation, NEW content, NEW base, NEW blocked,
           NEW e, e = Entry(n, refs, operation, content, base, blocked)
    PROVE  /\ e.decision = "REUSE" <=> IsSound(base[n]) /\ base[n].fp = e.fp
           /\ e.decision = "REUSE" => e.ref = base[n].out
           /\ e.decision # "REUSE" => ~IsReal(e.ref)
  <1> DEFINE fp == IF n \in Sources THEN SourceFingerprint(n, operation[n], content[n])
                   ELSE Fingerprint(operation[n], refs)
             why == Rejection(fp, base[n], FALSE)
             old == IF base[n] = None THEN None ELSE base[n].fp
             kept == [decision |-> "REUSE", reason |-> "EXACT_VALIDATED_REUSE", fp |-> fp,
                      old |-> old, ref |-> base[n].out]
             stuck == [decision |-> "BLOCKED", reason |-> "CONFIGURATION_BLOCKED", fp |-> fp,
                       old |-> old, ref |-> None]
             made == [decision |-> "REBUILD", reason |-> Refined(n, why, refs), fp |-> fp,
                      old |-> old, ref |-> Pending(fp, base[n])]
  <1>1. Keep(why) <=> IsSound(base[n]) /\ base[n].fp = fp
    <2> HIDE DEF fp
    <2> QED
      BY DEF Rejection, Keep, IsSound
  <1>2. e = CASE Keep(why) -> kept [] ~Keep(why) /\ n \in blocked -> stuck [] OTHER -> made
    BY DEF Entry
  <1>3. /\ kept.decision = "REUSE" /\ kept.fp = fp /\ kept.ref = base[n].out
        /\ stuck.decision = "BLOCKED" /\ stuck.fp = fp /\ stuck.ref = None
        /\ made.decision = "REBUILD" /\ made.fp = fp /\ made.ref = <<"pending", fp>>
    BY DEF Pending
  <1> HIDE DEF fp, why, kept, stuck, made
  <1>4. CASE Keep(why)
    <2>1. e = kept
      BY <1>2, <1>4
    <2> QED
      BY <1>1, <1>3, <1>4, <2>1
  <1>5. CASE ~Keep(why) /\ n \in blocked
    <2>1. e = stuck
      BY <1>2, <1>5
    <2> QED
      BY <1>1, <1>3, <1>5, <2>1 DEF IsReal
  <1>6. CASE ~Keep(why) /\ n \notin blocked
    <2>1. e = made
      BY <1>2, <1>6
    <2> QED
      BY <1>1, <1>3, <1>6, <2>1 DEF IsReal
  <1> QED
    BY <1>4, <1>5, <1>6

WasUsed(base, n, outputs) ==
    /\ outputs = [i \in DOMAIN Inputs[n] |-> outputs[i]]
    /\ \A i \in DOMAIN Inputs[n] :
         /\ IsReal(outputs[i])
         /\ IsSound(base[Inputs[n][i]]) => base[Inputs[n][i]].out = outputs[i]

\* The sound candidates of an earlier build were made by this recipe from these
\* outputs.
WasMade(base, recipe, used) ==
    \A n \in Nodes \ Sources :
       IsSound(base[n]) => base[n].fp = Fingerprint(recipe[n], used[n]) /\ WasUsed(base, n, used[n])

\* What has to be made again whatever becomes of its inputs: there is no sound
\* candidate, the source is another, or the recipe is.
Changed(operation, content, base, recipe) ==
    {n \in Nodes : \/ ~IsSound(base[n])
                   \/ n \in Sources /\ base[n].fp # SourceFingerprint(n, operation[n], content[n])
                   \/ n \notin Sources /\ operation[n] # recipe[n]}

\* compute_impact rebuilds what a change reaches and nothing else: a node is kept
\* exactly if it is unchanged and everything it reads is kept; so that what is kept
\* is the largest set of unchanged nodes that read only each other.
THEOREM OnlyTheReachedIsRebuilt ==
    ASSUME NEW operation, NEW content, NEW base, NEW blocked,
           NEW plan, plan = ComputeImpact(operation, content, base, blocked),
           NEW recipe, NEW used, WasMade(base, recipe, used),
           NEW changed, changed = Changed(operation, content, base, recipe),
           NEW kept, kept = Decided(plan, "REUSE")
    PROVE  /\ \A n \in Nodes : n \in kept <=> n \notin changed /\ Reads(n) \subseteq kept
           /\ \A X \in SUBSET (Nodes \ changed) :
                (\A n \in X : Reads(n) \subseteq X) => X \subseteq kept
  <1>1. ASSUME NEW n \in Nodes
        PROVE  /\ n \in kept <=> IsSound(base[n]) /\ base[n].fp = plan[n].fp
               /\ n \in kept => plan[n].ref = base[n].out
               /\ n \notin kept => ~IsReal(plan[n].ref)
               /\ n \in Sources => plan[n].fp = SourceFingerprint(n, operation[n], content[n])
               /\ n \notin Sources => plan[n].fp = Fingerprint(operation[n], Refs(plan, n))
    <2>1. PICK refs : refs = Refs(plan, n)
      OBVIOUS
    <2>2. plan[n] = Entry(n, refs, operation, content, base, blocked)
      BY <2>1, PlanIsDecided
    <2>3. n \in kept <=> plan[n].decision = "REUSE"
      BY DEF Decided
    <2> QED
      BY <2>1, <2>2, <2>3, EntryKeeps, EntryIs
  <1>2. \A n \in Nodes : \A i \in DOMAIN Inputs[n] :
          Inputs[n][i] \in Nodes /\ Inputs[n][i] \in Reads(n) /\ Refs(plan, n)[i] = plan[Inputs[n][i]].ref
    BY InputAssumption DEF Reads, Refs
  <1>3. ASSUME NEW n \in kept PROVE n \in Nodes /\ n \notin changed /\ Reads(n) \subseteq kept
    <2>1. n \in Nodes
      BY DEF Decided
    <2>2. IsSound(base[n]) /\ base[n].fp = plan[n].fp
      BY <1>1, <2>1
    <2>3. CASE n \in Sources
      <3>1. Reads(n) = {}
        BY <2>3, InputAssumption DEF Reads
      <3>2. base[n].fp = SourceFingerprint(n, operation[n], content[n])
        BY <1>1, <2>1, <2>2, <2>3
      <3> QED
        BY <2>1, <2>2, <2>3, <3>1, <3>2 DEF Changed
    <2>4. CASE n \notin Sources
      <3>1. PICK r, u, o, refs : r = recipe[n] /\ u = used[n] /\ o = operation[n] /\ refs = Refs(plan, n)
        OBVIOUS
      <3>2. Fingerprint(r, u) = Fingerprint(o, refs)
        BY <1>1, <2>1, <2>2, <2>4, <3>1 DEF WasMade
      <3>3. r = o /\ u = refs
        BY <3>2, FingerprintTells
      <3>4. ASSUME NEW i \in DOMAIN Inputs[n] PROVE Inputs[n][i] \in kept
        <4>1. IsReal(used[n][i])
          BY <2>1, <2>2, <2>4 DEF WasMade, WasUsed
        <4>2. plan[Inputs[n][i]].ref = used[n][i]
          BY <1>2, <2>1, <3>1, <3>3
        <4>3. PICK m, ref : m = Inputs[n][i] /\ ref = used[n][i]
          OBVIOUS
        <4>4. m \in Nodes /\ IsReal(plan[m].ref)
          BY <1>2, <2>1, <4>1, <4>2, <4>3
        <4> QED
          BY <1>1, <4>3, <4>4
      <3> QED
        BY <2>1, <2>2, <2>4, <3>1, <3>3, <3>4 DEF Changed, Reads
    <2> QED
      BY <2>3, <2>4
  <1>4. ASSUME NEW n \in Nodes, n \notin changed, Reads(n) \subseteq kept PROVE n \in kept
    <2>1. /\ IsSound(base[n])
          /\ n \in Sources => base[n].fp = SourceFingerprint(n, operation[n], content[n])
          /\ n \notin Sources => operation[n] = recipe[n]
      BY <1>4 DEF Changed
    <2>2. CASE n \in Sources
      BY <1>1, <2>1, <2>2
    <2>3. CASE n \notin Sources
      <3>1. ASSUME NEW i \in DOMAIN Inputs[n] PROVE Refs(plan, n)[i] = used[n][i]
        <4>1. PICK m : m = Inputs[n][i]
          OBVIOUS
        <4>2. m \in Nodes /\ m \in kept
          BY <1>2, <1>4, <4>1
        <4>3. IsSound(base[m]) /\ plan[m].ref = base[m].out
          BY <1>1, <4>2
        <4>4. base[m].out = used[n][i]
          BY <2>1, <2>3, <4>1, <4>3 DEF WasMade, WasUsed
        <4> QED
          BY <1>2, <4>1, <4>3, <4>4
      <3>2. used[n] = [i \in DOMAIN Inputs[n] |-> used[n][i]]
        BY <2>1, <2>3 DEF WasMade, WasUsed
      <3>3. Refs(plan, n) = [i \in DOMAIN Inputs[n] |-> Refs(plan, n)[i]]
        BY DEF Refs
      <3>4. Refs(plan, n) = used[n]
        <4>1. PICK u, refs : u = used[n] /\ refs = Refs(plan, n)
          OBVIOUS
        <4>2. u = [i \in DOMAIN Inputs[n] |-> u[i]] /\ refs = [i \in DOMAIN Inputs[n] |-> refs[i]]
          BY <3>2, <3>3, <4>1
        <4>3. \A i \in DOMAIN Inputs[n] : u[i] = refs[i]
          BY <3>1, <4>1
        <4> QED
          BY <4>1, <4>2, <4>3
      <3>5. base[n].fp = Fingerprint(recipe[n], used[n])
        BY <2>1, <2>3 DEF WasMade
      <3> QED
        BY <1>1, <2>1, <2>3, <3>4, <3>5
    <2> QED
      BY <2>2, <2>3
  <1>5. ASSUME NEW X \in SUBSET (Nodes \ changed), \A n \in X : Reads(n) \subseteq X, ~(X \subseteq kept)
        PROVE  FALSE
    <2>1. PICK n \in X \ kept : Reads(n) \cap (X \ kept) = {}
      <3>1. X \ kept \in SUBSET Nodes /\ X \ kept # {}
        BY <1>5
      <3> QED
        BY <3>1, AcyclicAssumption
    <2>2. Reads(n) \subseteq kept
      BY <1>5, <2>1
    <2> QED
      BY <1>4, <2>1, <2>2
  <1> QED
    BY <1>3, <1>4, <1>5

=============================================================================
