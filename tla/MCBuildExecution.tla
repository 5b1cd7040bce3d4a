-------------------------- MODULE MCBuildExecution --------------------------
(* Small instances of BuildExecution for TLC: parts of the Orbit graph. *)
EXTENDS BuildExecution, TLC

CONSTANTS brief, cutout, copy, plan, narration, music, card, delivery,
    keyframe, clip, s1, s2, image, video, fallback, cross

TwoSlots == {s1, s2}
Symmetry == Permutations(TwoSlots)

OrbitKind ==
    brief :> "source" @@ cutout :> "image" @@ copy :> "copy" @@ plan :> "plan"
    @@ narration :> "narration" @@ music :> "music" @@ card :> "end_card"
    @@ delivery :> "delivery" @@ keyframe :> "gmi" @@ clip :> "gmi"

OrbitEdges ==
    {<<brief, copy>>, <<brief, plan>>, <<brief, music>>, <<plan, music>>,
     <<copy, narration>>, <<copy, card>>, <<copy, delivery>>,
     <<plan, keyframe>>, <<cutout, keyframe>>, <<keyframe, clip>>, <<plan, clip>>,
     <<clip, delivery>>, <<narration, delivery>>, <<music, delivery>>, <<card, delivery>>}

EdgesOf(N) == {e \in OrbitEdges : e[1] \in N /\ e[2] \in N}
KindOf(N) == [n \in N |-> OrbitKind[n]]
ClosedSets(N) ==
    {R \in SUBSET N \ {N} : \A e \in EdgesOf(N) : e[2] \in R => e[1] \in R}

\* orbit-image-v1 and orbit-video-v1, with their placeholders and their credential.
GmiModels == {image, video, fallback, cross}
ImagePolicy ==
    [model |-> image, fallbacks |-> <<>>, providers |-> <<>>, retries |-> 2, total |-> 4]
VideoPolicy ==
    [model |-> video, fallbacks |-> <<fallback>>, providers |-> <<cross>>, retries |-> 2, total |-> 4]
PolicyOf(N) ==
    [n \in {m \in N : OrbitKind[m] = "gmi"} |-> IF n = keyframe THEN ImagePolicy ELSE VideoPolicy]
NoPolicy == PolicyOf({})

\* The plan and what needs no provider beside it.
PlanNodes  == {brief, cutout, plan, music}
PlanEdges  == EdgesOf(PlanNodes)
PlanKind   == KindOf(PlanNodes)
PlanReuses == ClosedSets(PlanNodes)

\* The text side: narration and end card race, the delivery waits for both.
TextNodes  == {brief, copy, narration, card, delivery}
TextEdges  == EdgesOf(TextNodes)
TextKind   == KindOf(TextNodes)
TextReuses == ClosedSets(TextNodes)

\* What GMI Cloud makes of a plan, with music beside it.
GmiNodes  == {plan, music, keyframe, clip}
GmiEdges  == EdgesOf(GmiNodes)
GmiKind   == KindOf(GmiNodes)
GmiPolicy == PolicyOf(GmiNodes)
GmiReuses == {{plan}}

\* A first build of what resumes after a crash or is parked for a human.
LiveNodes  == {brief, cutout, copy, plan, narration}
LiveEdges  == EdgesOf(LiveNodes)
LiveKind   == KindOf(LiveNodes)
NoReuse    == {{}}

\* A plan to park and a cutout beside it; a copy.
ParkedNodes == {brief, cutout, plan}
ParkedEdges == EdgesOf(ParkedNodes)
ParkedKind  == KindOf(ParkedNodes)
CopyNodes   == {brief, copy}
CopyEdges   == EdgesOf(CopyNodes)
CopyKind    == KindOf(CopyNodes)
BriefReused == {{brief}}

=============================================================================
