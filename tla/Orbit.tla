-------------------------------- MODULE Orbit --------------------------------
(***************************************************************************)
(* The ORBIT template (orbit.py): eighteen nodes, all of them required.    *)
(* An operation keeps what tells nodes of one type apart; prompts and      *)
(* media parameters are left out.                                          *)
(***************************************************************************)
EXTENDS Naturals, Sequences

Slot(slot, ordinal, from) == [slot |-> slot, ordinal |-> ordinal, from |-> from]
In(slot, from) == Slot(slot, 0, from)

Node(key, type, inputs, operation, binds, policies) ==
    [key |-> key, type |-> type, required |-> TRUE, inputs |-> inputs,
     operation |-> operation, binds |-> binds, policies |-> policies]

Keyframes == <<"image.keyframe.01", "image.keyframe.02", "image.keyframe.03", "image.keyframe.04">>
Clips == <<"video.clip.01", "video.clip.02", "video.clip.03", "video.clip.04">>

Keyframe(i) ==
    Node(Keyframes[i], "IMAGE_GENERATION",
         <<In("product_reference", "source.product_reference"),
           In("cutout", "transform.product_cutout"), In("shot_plan", "plan.shots")>>,
         <<"render shot", i>>, {}, {"orbit-image-v1", "orbit-image-qc-v1"})

Clip(i) ==
    Node(Clips[i], "VIDEO_GENERATION",
         <<In("shot_plan", "plan.shots"), In("keyframe", Keyframes[i])>>,
         <<"animate shot", i>>, {}, {"orbit-video-v1", "orbit-video-qc-v1"})

Material ==
    <<Node("source.brief", "SOURCE_TEXT", <<>>, "normalize", {"brief_text"}, {}),
      Node("source.product_reference", "SOURCE_IMAGE", <<>>, "image", {}, {}),
      Node("transform.product_cutout", "IMAGE_TRANSFORM",
           <<In("source", "source.product_reference")>>,
           "background_removal", {}, {"orbit-image-qc-v1"}),
      Node("plan.shots", "STRUCTURED_PLAN",
           <<In("brief", "source.brief"), In("product_reference", "source.product_reference")>>,
           "shot_plan.v1", {}, {"orbit-text-v1", "orbit-structured-qc-v1"})>>

Shots == [i \in 1..4 |-> Keyframe(i)] \o [i \in 1..4 |-> Clip(i)]

Sound ==
    <<Node("audio.music", "AUDIO_GENERATION",
           <<In("brief", "source.brief"), In("shot_plan", "plan.shots")>>,
           "compose", {}, {"orbit-audio-v1", "orbit-audio-qc-v1"}),
      Node("copy.pack", "STRUCTURED_TEXT", <<In("brief", "source.brief")>>,
           "copy_pack.v1", {"legal_line"}, {"orbit-text-v1", "orbit-copy-qc-v1"}),
      Node("audio.narration", "AUDIO_GENERATION", <<In("copy", "copy.pack")>>,
           "wav", {}, {"orbit-tts-v1", "orbit-audio-qc-v1"})>>

Layout ==
    <<Node("graphic.end_card", "IMAGE_COMPOSITION",
           <<In("product_reference", "source.product_reference"), In("copy", "copy.pack")>>,
           "end_card.v1", {}, {"orbit-copy-qc-v1"}),
      Node("image.poster", "IMAGE_COMPOSITION",
           <<In("product_reference", "source.product_reference"), In("keyframe", Keyframes[1])>>,
           "poster.v1", {}, {"orbit-image-qc-v1"}),
      Node("compose.delivery_package", "MEDIA_COMPOSITION",
           [i \in 1..4 |-> Slot("clip", i - 1, Clips[i])] \o
           <<In("music", "audio.music"), In("copy", "copy.pack"),
             In("narration", "audio.narration"), In("end_card", "graphic.end_card")>>,
           "package", {}, {"orbit-delivery-qc-v1"})>>

OrbitTemplate == Material \o Shots \o Sound \o Layout

DeliverableKeys == {"compose.delivery_package", "image.poster"}
ExpectedLegalCopyRebuild ==
    {"copy.pack", "audio.narration", "graphic.end_card", "compose.delivery_package"}

\* ORBIT_PROVIDER_POLICIES and ORBIT_VALIDATION_POLICIES define these and no others.
ReferencedPolicies ==
    {"orbit-image-v1", "orbit-video-v1", "orbit-audio-v1", "orbit-text-v1", "orbit-tts-v1",
     "orbit-image-qc-v1", "orbit-video-qc-v1", "orbit-audio-qc-v1", "orbit-structured-qc-v1",
     "orbit-copy-qc-v1", "orbit-delivery-qc-v1"}

\* The stable keys, in the order the compiler sorts them.
OrbitKeys ==
    <<"audio.music", "audio.narration", "compose.delivery_package", "copy.pack",
      "graphic.end_card">> \o Keyframes \o
    <<"image.poster", "plan.shots", "source.brief", "source.product_reference",
      "transform.product_cutout">> \o Clips

=============================================================================
