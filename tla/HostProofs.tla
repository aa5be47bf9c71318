----------------------------- MODULE HostProofs -----------------------------
(***************************************************************************)
(* The parts of a host, for any constants: any local templates, manifests, *)
(* layers, schedules, importers, clients and threads, and any interleaving *)
(* of their steps.  Each part has an inductive invariant of its own, which *)
(* the steps of the others leave alone.                                    *)
(***************************************************************************)
EXTENDS Host, SequenceTheorems, WellFoundedInduction, TLAPS

---------------------------------------------------------------------------
(* Launches: the rows of the tables *)

\* What is known of a packaged template whose launch looks at the Model, or at its policy.
RowOK(t) ==
    /\ t.runtime = "transformers-rocm" =>
          t.family = "autoregressive" \/ (t.family = "embedding" /\ t.cache = "cache_root")
    /\ t.runtime \in {"vision-language-transformers-rocm", "qwen35-vision-language-transformers-rocm",
                      "gemma4-general-chat-transformers-rocm", "moshiko-rocm", "qwen3-tts-rocm",
                      "whisper-small-en-rocm", "marian-transformers-cpu"} => t.cache = "cache_root"
    /\ t.runtime = "marian-transformers-cpu" => t.family = "text-translation"
    /\ t.runtime = "qwen35-chat-transformers-rocm" => t.cache = "cache_root" /\ t.thinking = "disabled"
    /\ t.runtime = "qwen38-fp8-vision-language-transformers-rocm" =>
          t.id = "scenechat-qwen38-fp8" /\ t.family = "vision-language"
    /\ t.runtime = "qwen38-fp8-chat-transformers-rocm" =>
          /\ t.id = "qwen38-fp8-chat-transformers-rocm"
          /\ t.family = "autoregressive" /\ t.cache = "cache_root" /\ t.thinking = "disabled"
    /\ t.runtime \in {"text-diffusion-transformers-rocm", "text-diffusion-gptq-rocm"} =>
          t.cache \in {"cache_root", "q4_checkpoint_dir"}
    /\ t.runtime \in {"llama-vulkan", "qwen35-llamacpp-vulkan", "qwen38-llamacpp-vulkan"} =>
          t.cache = "artifact_path" /\ t.family = "autoregressive" /\ "top_k_trace" \notin t.traits
    /\ t.runtime = "qwen35-llamacpp-vulkan" =>
          \/ t.id \in W!Qwen35Packaged /\ t.profile = "qwen35-4b-q8-vulkan"
          \/ t.id \in W!Qwen35Local /\ t.profile = "qwen35-approved-q8-vulkan"
    /\ t.runtime = "qwen38-llamacpp-vulkan" => t.id \in W!Qwen38 /\ t.profile = "qwen38-q8-mtp-vulkan"

LaunchedRuntimes == {
    "transformers-rocm", "vision-language-transformers-rocm", "qwen35-vision-language-transformers-rocm",
    "gemma4-general-chat-transformers-rocm", "qwen35-chat-transformers-rocm",
    "qwen38-fp8-vision-language-transformers-rocm", "qwen38-fp8-chat-transformers-rocm",
    "text-diffusion-transformers-rocm", "text-diffusion-gptq-rocm", "marian-transformers-cpu",
    "llama-vulkan", "qwen38-llamacpp-vulkan", "qwen35-llamacpp-vulkan", "moshiko-rocm",
    "qwen3-tts-rocm", "whisper-small-en-rocm"}

\* What an id says of a packaged template: its family and directory, and the traits it has.
IdOK(t) ==
    /\ t.family = "vision-language" =>
          t.id \in W!Gemma4 \cup {"scenechat-gemma4", "scenechat-qwen35", "scenechat-qwen38-fp8"}
    /\ t.family = "autoregressive" =>
          t.id \in {"autoregressive-transformers", "gpt-oss-llama-vulkan"} \cup W!QwenText
                   \cup W!Qwen35Packaged \cup W!Qwen35Local \cup W!Qwen38
    /\ t.id \in {"autoregressive-transformers"} \cup W!QwenText => t.cache = "cache_root"
    /\ t.id \in {"gpt-oss-llama-vulkan"} \cup W!Qwen35Packaged \cup W!Qwen35Local \cup W!Qwen38 =>
          t.cache = "artifact_path" /\ W!Chat \subseteq t.traits
    /\ t.id \in W!QwenText => W!Chat \subseteq t.traits
    /\ t.id \in W!Qwen38 => W!Scene \subseteq t.traits
    /\ t.id \in W!Gemma4 => {"chat", "image_input"} \subseteq t.traits
    /\ t.id \in {"scenechat-gemma4", "scenechat-qwen35", "scenechat-qwen38-fp8"} => W!Scene \subseteq t.traits

\* A packaged template has a runtime with a launch builder, and its row suits that builder.
LEMMA PackagedRows ==
  ASSUME NEW t \in W!Packaged
  PROVE  t.runtime \in LaunchedRuntimes /\ RowOK(t)
  BY SMTT(60) DEF W!Packaged, W!Plain, W!Gguf, W!Template, LaunchedRuntimes, RowOK, W!Chat, W!Scene, W!Speech,
     W!Diffusion,
         W!Qwen35Packaged, W!Qwen35Local, W!Qwen38

\* What a packaged template's id says of its row.
LEMMA PackagedByIdentity ==
  ASSUME NEW t \in W!Packaged
  PROVE  IdOK(t)
  BY SMTT(60) DEF W!Packaged, W!Plain, W!Gguf, W!Template, IdOK, W!Chat, W!Scene, W!Speech, W!Diffusion,
         W!Qwen35Packaged, W!Qwen35Local, W!Qwen38, W!Gemma4, W!QwenText

\* The rows behind the ids that serve one Model only.
LEMMA NarrowKinds ==
  ASSUME NEW t \in W!Packaged
  PROVE  /\ t.id = "scenechat-qwen38-fp8" => t.family = "vision-language"
         /\ t.id = "qwen38-fp8-chat-transformers-rocm" =>
                t.family = "autoregressive" /\ t.cache = "cache_root"
         /\ t.id \in W!Qwen35Packaged \cup W!Qwen38 =>
                t.family = "autoregressive" /\ t.cache = "artifact_path" /\ "top_k_trace" \notin t.traits
  BY SMTT(60) DEF W!Packaged, W!Plain, W!Gguf, W!Template, W!Chat, W!Scene, W!Speech, W!Diffusion,
     W!Qwen35Packaged, W!Qwen38

\* The runtimes whose thinking policy is reviewed.
Reviewed == {"gemma4-general-chat-transformers-rocm", "qwen35-chat-transformers-rocm",
             "qwen38-fp8-chat-transformers-rocm", "qwen35-llamacpp-vulkan", "qwen38-llamacpp-vulkan"}

\* The runtimes whose thinking policy is a setting are the reviewed ones.
LEMMA ReviewedRuntimes ==
  ASSUME NEW i \in W!TRUSTED_RUNTIME_IMPLEMENTATIONS, "thinking" \in i.settings
  PROVE  i.runtime \in Reviewed
  BY DEF W!TRUSTED_RUNTIME_IMPLEMENTATIONS, W!TransformersImplementations, W!QwenImplementations,
         W!OtherImplementations, W!Impl, Reviewed

\* The FP8 chat runtime serves one family.
LEMMA TrustedFamilies ==
  ASSUME NEW t, W!TrustedRuntime(t), t.runtime = "qwen38-fp8-chat-transformers-rocm"
  PROVE  t.family = "autoregressive"
<1>1. PICK i \in W!TRUSTED_RUNTIME_IMPLEMENTATIONS : t.runtime = i.runtime /\ t.family \in i.families
  BY DEF W!TrustedRuntime
<1>2. i.families = {"autoregressive"}
  BY <1>1 DEF W!TRUSTED_RUNTIME_IMPLEMENTATIONS, W!TransformersImplementations, W!QwenImplementations,
              W!OtherImplementations, W!Impl
<1>. QED
  BY <1>1, <1>2

\* The supports of cached Models, their families and what an id says.
ModelOK(m) ==
    /\ m.support \in {"autoregressive-transformers", "embedding-transformers", "scenechat-gemma4",
            "scenechat-qwen35", "scenechat-qwen38-fp8", "diffusiongemma-transformers",
            "diffusiongemma-modeldeck-q4", "moshiko-speech", "opus-translation-cpu", "qwen3-tts-rocm",
            "whisper-small-en-rocm", "gpt-oss-llama-vulkan", "qwen35-llamacpp-q8-vulkan",
            "qwen38-llamacpp-q8-mtp-vulkan", "qwen35-local-q8-vulkan"}
    /\ m.support \in {"scenechat-gemma4", "scenechat-qwen35", "scenechat-qwen38-fp8"} =>
          m.family = "vision-language"
    /\ m.support \in {"gpt-oss-llama-vulkan", "qwen35-llamacpp-q8-vulkan",
            "qwen38-llamacpp-q8-mtp-vulkan", "qwen35-local-q8-vulkan"} => m.family = "autoregressive"
    /\ m.support = "autoregressive-transformers" => m.id = "plain"
    /\ m.support = "scenechat-qwen38-fp8" => m.id = "Qwen/Qwen3.8-27B-FP8"
    /\ m.support = "qwen35-llamacpp-q8-vulkan" => m.id = "bartowski/Qwen_Qwen3.5-4B-GGUF"
    /\ m.support = "qwen38-llamacpp-q8-mtp-vulkan" => m.id = "ggml-org/Qwen3.8-27B-GGUF"
    /\ m.support = "qwen35-local-q8-vulkan" => approved # None /\ m.revision = approved

\* What the scan finds is a Model of one of the kinds, with the support that its kind has.
LEMMA CachedModels ==
  ASSUME NEW m \in W!Discovered
  PROVE  ModelOK(m)
<1>1. CASE m \in W!FixedModels
  BY <1>1, SMTT(60) DEF W!FixedModels, W!Model, ModelOK
<1>2. CASE m \in W!GgufModels
  BY <1>2, SMTT(60) DEF W!GgufModels, W!Model, ModelOK
<1>3. CASE \E r \in {approved} \ {None} : m = W!Candidate(r)
  BY <1>3 DEF W!Candidate, W!Model, ModelOK
<1>. QED
  BY <1>1, <1>2, <1>3 DEF W!Discovered

\* Vision-language templates are listed for every capability such a Model can be created for.
LEMMA ScenesAreListed ==
  ASSUME NEW m, ModelOK(m), NEW c \in W!CapabilityCandidates(m),
         m.support \in {"scenechat-gemma4", "scenechat-qwen35", "scenechat-qwen38-fp8"},
         W!CAPABILITY_DEFINITIONS(c) # {}
  PROVE  W!QWEN_TEXT_CAPABILITY_TEMPLATES(m.support, c) # {}
  BY DEF ModelOK, W!CapabilityCandidates, W!ReviewedCapabilities, W!FAMILY_CAPABILITIES, W!CAPABILITY_DEFINITIONS,
         W!QWEN_TEXT_CAPABILITY_TEMPLATES, W!Text, W!Images, W!Gemma4, W!QwenText, W!Completing, W!Qwen38,
         W!Qwen35Packaged, W!Qwen35Local

\* A GGUF is a candidate only for a trace or for a capability that lists its support.
LEMMA GgufsAreListed ==
  ASSUME NEW m, ModelOK(m), NEW c \in W!CapabilityCandidates(m),
         m.support \in {"gpt-oss-llama-vulkan", "qwen35-llamacpp-q8-vulkan",
            "qwen38-llamacpp-q8-mtp-vulkan", "qwen35-local-q8-vulkan"}
  PROVE  \/ c = "autoregressive-trace"
         \/ m.support = "gpt-oss-llama-vulkan" /\ c \in W!Text
         \/ W!QWEN_TEXT_CAPABILITY_TEMPLATES(m.support, c) # {}
  BY DEF ModelOK, W!CapabilityCandidates, W!ReviewedCapabilities, W!FAMILY_CAPABILITIES, W!CAPABILITY_DEFINITIONS,
         W!QWEN_TEXT_CAPABILITY_TEMPLATES, W!Text, W!Images, W!Gemma4, W!QwenText, W!Completing, W!Qwen38,
         W!Qwen35Packaged, W!Qwen35Local

\* What the listed templates are, by the support they are listed for.
LEMMA ListedTemplates ==
  ASSUME NEW s, NEW c, NEW d \in W!QWEN_TEXT_CAPABILITY_TEMPLATES(s, c)
  PROVE  /\ d = "scenechat-qwen38-fp8" => s = "scenechat-qwen38-fp8"
         /\ d = "qwen38-fp8-chat-transformers-rocm" => s = "scenechat-qwen38-fp8"
         /\ d \in W!Qwen35Packaged => s = "qwen35-llamacpp-q8-vulkan"
         /\ d \in W!Qwen38 => s = "qwen38-llamacpp-q8-mtp-vulkan"
         /\ \/ c \in W!Text /\ d \in W!Qwen35Local \cup W!Qwen35Packaged \cup W!Qwen38 \cup W!QwenText
            \/ c = "general-image-chat" /\ d \in W!Qwen38 \cup {"scenechat-qwen35", "scenechat-qwen38-fp8"}
            \/ c \in {"general-chat", "general-image-chat"} /\ d \in W!Gemma4
            \/ c = "scene-analysis" /\ d \in {"scenechat-gemma4", "scenechat-qwen35", "scenechat-qwen38-fp8"}
  BY DEF W!QWEN_TEXT_CAPABILITY_TEMPLATES, W!Text, W!Images, W!Gemma4, W!QwenText, W!Qwen38, W!Qwen35Packaged,
     W!Qwen35Local

---------------------------------------------------------------------------
(* Launches: which template may serve which Model *)

\* A local template has an id of its own, and every registration is packaged or trusted.
RegistrationsOK ==
    \A t \in registrations : t \in W!Packaged \/ (W!TrustedRuntime(t) /\ t.id \notin W!PackagedIds)

\* A registration with a packaged id is the packaged one.
LEMMA RegistrationsByIdentity ==
  ASSUME RegistrationsOK, NEW t \in registrations, t.id \in W!PackagedIds
  PROVE  t \in W!Packaged
  BY DEF RegistrationsOK

\* Every template that the capabilities name is packaged.
LEMMA NamesArePackaged ==
  W!Qwen35Packaged \cup W!Qwen35Local \cup W!Qwen38 \cup W!QwenText \cup W!Gemma4 \cup
    {"scenechat-gemma4", "scenechat-qwen35", "scenechat-qwen38-fp8", "autoregressive-transformers",
     "embedding-transformers", "gpt-oss-llama-vulkan", "diffusiongemma-transformers",
     "diffusiongemma-modeldeck-q4", "moshiko-speech", "opus-translation-cpu", "qwen3-tts-rocm",
     "whisper-small-en-rocm"} \subseteq W!PackagedIds
<1>1. \A t \in W!Packaged : t.id \in W!PackagedIds
  BY DEF W!PackagedIds
<1>. HIDE DEF W!PackagedIds
<1>. QED
  BY <1>1, SMTT(60) DEF W!Packaged, W!Plain, W!Gguf, W!Template, W!Qwen35Packaged, W!Qwen35Local, W!Qwen38,
     W!QwenText, W!Gemma4

\* Every support that the scan names is packaged.
LEMMA SupportsArePackaged ==
  ASSUME NEW m, ModelOK(m)
  PROVE  m.support \in W!PackagedIds
  BY NamesArePackaged DEF ModelOK, W!Qwen35Packaged, W!Qwen35Local, W!Qwen38

\* The three ways a template is compatible.
LEMMA WaysToBeCompatible ==
  ASSUME NEW c, NEW s, NEW t \in W!CompatibleTemplates(c, s)
  PROVE  /\ t \in registrations
         /\ \/ s = "gpt-oss-llama-vulkan" /\ c \in W!Text /\ t.id = s
            \/ t.id \in W!QWEN_TEXT_CAPABILITY_TEMPLATES(s, c)
            \/ /\ ~(s = "gpt-oss-llama-vulkan" /\ c \in W!Text)
               /\ W!QWEN_TEXT_CAPABILITY_TEMPLATES(s, c) = {}
               /\ W!CAPABILITY_DEFINITIONS(c) # {}
               /\ t.family = W!CAPABILITY_GENERATION_FAMILIES(c)
               /\ W!RequiredTraits(c) \subseteq t.traits
               /\ \E b \in registrations : b.id = s /\ t.family = b.family /\ t.cache = b.cache
  BY DEF W!CompatibleTemplates, W!Text

\* A packaged template of the narrow kinds goes with the Model it was reviewed for.
LEMMA NarrowTemplates ==
  ASSUME RegistrationsOK, NEW m, ModelOK(m), NEW c \in W!CapabilityCandidates(m),
         NEW t \in W!CompatibleTemplates(c, m.support), t \in W!Packaged
  PROVE  /\ t.id = "scenechat-qwen38-fp8" => m.id = "Qwen/Qwen3.8-27B-FP8"
         /\ t.id = "qwen38-fp8-chat-transformers-rocm" => m.id \in {"Qwen/Qwen3.8-27B-FP8", "plain"}
         /\ t.id \in W!Qwen35Packaged => m.id = "bartowski/Qwen_Qwen3.5-4B-GGUF"
         /\ t.id \in W!Qwen38 => m.id = "ggml-org/Qwen3.8-27B-GGUF"
<1>. DEFINE s == m.support
<1>1. CASE s = "gpt-oss-llama-vulkan" /\ c \in W!Text /\ t.id = s
  BY <1>1 DEF W!Qwen35Packaged, W!Qwen38
<1>2. CASE t.id \in W!QWEN_TEXT_CAPABILITY_TEMPLATES(s, c)
  BY <1>2, ListedTemplates DEF ModelOK
<1>3. CASE /\ ~(s = "gpt-oss-llama-vulkan" /\ c \in W!Text)
           /\ W!QWEN_TEXT_CAPABILITY_TEMPLATES(s, c) = {}
           /\ W!CAPABILITY_DEFINITIONS(c) # {}
           /\ W!RequiredTraits(c) \subseteq t.traits
           /\ \E b \in registrations : b.id = s /\ t.family = b.family /\ t.cache = b.cache
  <2>1. PICK b \in registrations : b.id = s /\ t.family = b.family /\ t.cache = b.cache
    BY <1>3
  <2>2. b \in W!Packaged
    BY <2>1, SupportsArePackaged, RegistrationsByIdentity
  <2>3. IdOK(b) /\ IdOK(t) /\ RowOK(t) /\ t.runtime \in LaunchedRuntimes
    BY <2>2, PackagedByIdentity, PackagedRows
  <2>4. ~(s \in {"scenechat-gemma4", "scenechat-qwen35", "scenechat-qwen38-fp8"})
    BY <1>3, ScenesAreListed
  <2>5. t.family # "vision-language"
    BY <2>1, <2>3, <2>4 DEF IdOK, ModelOK, W!Gemma4
  <2>6. s \in {"gpt-oss-llama-vulkan", "qwen35-llamacpp-q8-vulkan", "qwen38-llamacpp-q8-mtp-vulkan",
               "qwen35-local-q8-vulkan"} => c = "autoregressive-trace"
    BY <1>3, GgufsAreListed
  <2>7. c = "autoregressive-trace" => "top_k_trace" \in t.traits
    BY <1>3 DEF W!RequiredTraits
  <2>8. t.id # "scenechat-qwen38-fp8"
    BY <2>5, NarrowKinds
  <2>9. t.id = "qwen38-fp8-chat-transformers-rocm" => m.id = "plain"
    BY <2>1, <2>3, NarrowKinds DEF IdOK, ModelOK, W!QwenText, W!Qwen35Packaged, W!Qwen35Local, W!Qwen38
  <2>10. t.id \notin W!Qwen35Packaged \cup W!Qwen38
    BY <2>1, <2>3, <2>6, <2>7, NarrowKinds DEF IdOK, ModelOK, W!QwenText, W!Qwen35Packaged, W!Qwen35Local, W!Qwen38
  <2>. QED
    BY <2>8, <2>9, <2>10
<1>. QED
  BY <1>1, <1>2, <1>3, WaysToBeCompatible

---------------------------------------------------------------------------
(* Launches: the Worker and its process *)

LaunchInv ==
    /\ RegistrationsOK
    /\ definition # None /\ definition.runtime = "qwen38-fp8-chat-transformers-rocm" =>
          definition.family = "autoregressive"
    /\ W!PoliciesAreReviewed /\ W!OfferedWorkersStart /\ W!WorkersProvideTheirCapability

\* A Worker of a packaged template: the row says what the builder asks.
LEMMA PackagedWorkersStart ==
  ASSUME RegistrationsOK, NEW m \in W!Discovered, NEW c \in W!CapabilityCandidates(m),
         NEW t \in W!CompatibleTemplates(c, m.support), t \in W!Packaged, W!Configurable(m, t)
  PROVE  \/ W!Launchable(W!Definition(m, c, t))
         \/ /\ W!Definition(m, c, t).template = "qwen38-fp8-chat-transformers-rocm"
            /\ W!Definition(m, c, t).model = "plain"
<1>. DEFINE w == W!Definition(m, c, t)
<1>1. ModelOK(m) /\ RowOK(t) /\ t.runtime \in LaunchedRuntimes
  BY CachedModels, PackagedRows
<1>2. /\ t.id = "scenechat-qwen38-fp8" => m.id = "Qwen/Qwen3.8-27B-FP8"
      /\ t.id = "qwen38-fp8-chat-transformers-rocm" => m.id \in {"Qwen/Qwen3.8-27B-FP8", "plain"}
      /\ t.id \in W!Qwen35Packaged => m.id = "bartowski/Qwen_Qwen3.5-4B-GGUF"
      /\ t.id \in W!Qwen38 => m.id = "ggml-org/Qwen3.8-27B-GGUF"
  BY <1>1, NarrowTemplates
<1>3. /\ w.model = m.id /\ w.revision = m.revision /\ w.template = t.id /\ w.runtime = t.runtime
      /\ w.family = t.family /\ w.path = t.cache /\ w.thinking = t.thinking /\ w.profile = t.profile
      /\ t.family = "text-translation" => w.direction = W!Direction(m)
  BY DEF W!Definition
<1>4. w.thinking \in W!PolicyOf(w)
  BY <1>3 DEF W!PolicyOf
<1>5. t.profile = "qwen35-approved-q8-vulkan" => approved # None /\ m.revision = approved
  BY <1>1 DEF ModelOK, W!Configurable
<1>6. t.family = "text-translation" => W!Direction(m) \in {"en-fr", "en-de"}
  BY DEF W!Configurable, W!Direction
<1>. SUFFICES \/ W!Launchable(w)
              \/ w.template = "qwen38-fp8-chat-transformers-rocm" /\ w.model = "plain"
  OBVIOUS
<1>. HIDE DEF w
<1>7. CASE t.runtime \in {"transformers-rocm", "vision-language-transformers-rocm",
                          "qwen35-vision-language-transformers-rocm", "gemma4-general-chat-transformers-rocm",
                          "qwen35-chat-transformers-rocm"}
  BY <1>1, <1>3, <1>4, <1>7
     DEF RowOK, W!Launchable, W!TransformersLaunch, W!SceneLaunch, W!GemmaLaunch, W!QwenChatLaunch, W!CacheLaunch
<1>8. CASE t.runtime \in {"qwen38-fp8-vision-language-transformers-rocm",
                          "qwen38-fp8-chat-transformers-rocm"}
  BY <1>1, <1>2, <1>3, <1>8 DEF RowOK, W!Launchable, W!Fp8Launch, W!QwenChatLaunch, W!CacheLaunch
<1>9. CASE t.runtime \in {"text-diffusion-transformers-rocm", "text-diffusion-gptq-rocm", "llama-vulkan",
                          "moshiko-rocm", "qwen3-tts-rocm", "whisper-small-en-rocm"}
  BY <1>1, <1>3, <1>9 DEF RowOK, W!Launchable, W!DiffusionLaunch, W!LlamaLaunch, W!SpeechLaunch, W!CacheLaunch
<1>10. CASE t.runtime = "marian-transformers-cpu"
  BY <1>1, <1>3, <1>6, <1>10 DEF RowOK, W!Launchable, W!TranslationLaunch, W!CacheLaunch
<1>11. CASE t.runtime = "qwen38-llamacpp-vulkan"
  BY <1>1, <1>2, <1>3, <1>4, <1>11 DEF RowOK, W!Launchable, W!Qwen38LlamaLaunch, W!LlamaLaunch
<1>12. CASE t.runtime = "qwen35-llamacpp-vulkan"
  BY <1>1, <1>2, <1>3, <1>4, <1>5, <1>12
     DEF RowOK, W!Launchable, W!Qwen35LlamaLaunch, W!LlamaLaunch, W!CandidateMatches
<1>. QED
  BY <1>1, <1>7, <1>8, <1>9, <1>10, <1>11, <1>12 DEF LaunchedRuntimes

\* A template that is offered for a capability provides it, but for the two exceptions.
LEMMA OfferedTemplatesProvide ==
  ASSUME RegistrationsOK, NEW m \in W!Discovered, NEW c \in W!CapabilityCandidates(m),
         NEW t \in W!CompatibleTemplates(c, m.support)
  PROVE  \/ W!Provides(W!Definition(m, c, t), c)
         \/ t.family = "text-translation"
         \/ c = "general-image-chat" /\ t.id \in {"scenechat-qwen35", "scenechat-qwen38-fp8"}
<1>. DEFINE w == W!Definition(m, c, t)
<1>1. w.traits = t.traits
  BY DEF W!Definition
<1>. SUFFICES \/ W!Provides(w, c)
              \/ t.family = "text-translation"
              \/ c = "general-image-chat" /\ t.id \in {"scenechat-qwen35", "scenechat-qwen38-fp8"}
  OBVIOUS
<1>. HIDE DEF w
<1>2. c \in W!Text \cup {"general-image-chat", "scene-analysis"} /\ W!RequiredTraits(c) \subseteq t.traits
        => W!Provides(w, c)
  BY <1>1 DEF W!Provides, W!Text
<1>3. CASE m.support = "gpt-oss-llama-vulkan" /\ c \in W!Text /\ t.id = m.support
  <2>1. t \in W!Packaged
    BY <1>3, NamesArePackaged, RegistrationsByIdentity, WaysToBeCompatible
  <2>2. W!Chat \subseteq t.traits
    BY <1>3, <2>1, PackagedByIdentity DEF IdOK
  <2>. QED
    BY <1>2, <1>3, <2>2 DEF W!RequiredTraits, W!Text, W!Chat
<1>4. CASE t.id \in W!QWEN_TEXT_CAPABILITY_TEMPLATES(m.support, c)
  <2>1. /\ \/ c \in W!Text /\ t.id \in W!Qwen35Local \cup W!Qwen35Packaged \cup W!Qwen38 \cup W!QwenText
           \/ c = "general-image-chat" /\ t.id \in W!Qwen38 \cup {"scenechat-qwen35", "scenechat-qwen38-fp8"}
           \/ c \in {"general-chat", "general-image-chat"} /\ t.id \in W!Gemma4
           \/ /\ c = "scene-analysis"
              /\ t.id \in {"scenechat-gemma4", "scenechat-qwen35", "scenechat-qwen38-fp8"}
    BY <1>4, ListedTemplates
  <2>2. t \in W!Packaged
    BY <2>1, NamesArePackaged, RegistrationsByIdentity, WaysToBeCompatible
  <2>3. IdOK(t)
    BY <2>2, PackagedByIdentity
  <2>4. CASE c \in W!Text /\ t.id \in W!Qwen35Local \cup W!Qwen35Packaged \cup W!Qwen38 \cup W!QwenText
    BY <1>2, <2>3, <2>4 DEF IdOK, W!RequiredTraits, W!Text, W!Chat
  <2>5. CASE c = "general-image-chat" /\ t.id \in W!Qwen38
    BY <1>2, <2>3, <2>5 DEF IdOK, W!RequiredTraits, W!Chat, W!Scene
  <2>6. CASE c \in {"general-chat", "general-image-chat"} /\ t.id \in W!Gemma4
    BY <1>2, <2>3, <2>6 DEF IdOK, W!RequiredTraits, W!Text
  <2>7. CASE /\ c = "scene-analysis"
             /\ t.id \in {"scenechat-gemma4", "scenechat-qwen35", "scenechat-qwen38-fp8"}
    BY <1>2, <2>3, <2>7 DEF IdOK, W!RequiredTraits, W!Scene
  <2>. QED
    BY <2>1, <2>4, <2>5, <2>6, <2>7
<1>5. CASE t.family = W!CAPABILITY_GENERATION_FAMILIES(c) /\ W!RequiredTraits(c) \subseteq t.traits
  <2>1. c \in {"translation-en-fr", "translation-en-de"} => t.family = "text-translation"
    BY <1>5 DEF W!CAPABILITY_GENERATION_FAMILIES
  <2>2. c \notin {"translation-en-fr", "translation-en-de"} => W!Provides(w, c)
    BY <1>1, <1>5 DEF W!Provides
  <2>. QED
    BY <2>1, <2>2
<1>6. \/ m.support = "gpt-oss-llama-vulkan" /\ c \in W!Text /\ t.id = m.support
      \/ t.id \in W!QWEN_TEXT_CAPABILITY_TEMPLATES(m.support, c)
      \/ t.family = W!CAPABILITY_GENERATION_FAMILIES(c) /\ W!RequiredTraits(c) \subseteq t.traits
  BY WaysToBeCompatible
<1>. QED
  BY <1>3, <1>4, <1>5, <1>6

\* A runtime whose policy is reviewed starts under a packaged template's policy.
LEMMA LaunchesAreReviewed ==
  ASSUME NEW w, W!Launchable(w), w.runtime \in Reviewed,
         w.runtime = "qwen38-fp8-chat-transformers-rocm" => w.family = "autoregressive"
  PROVE  \E t \in W!Packaged : t.runtime = w.runtime /\ t.thinking = w.thinking
<1>1. CASE w.runtime = "qwen35-chat-transformers-rocm"
  <2>1. w.thinking = "disabled"
    BY <1>1 DEF W!Launchable, W!QwenChatLaunch
  <2>2. \E t \in W!Packaged : t.runtime = "qwen35-chat-transformers-rocm" /\ t.thinking = "disabled"
    BY DEF W!Packaged, W!Plain, W!Template
  <2>. QED
    BY <1>1, <2>1, <2>2
<1>2. CASE w.runtime = "qwen38-fp8-chat-transformers-rocm"
  <2>1. w.thinking = "disabled"
    BY <1>2 DEF W!Launchable, W!Fp8Launch, W!QwenChatLaunch
  <2>2. \E t \in W!Packaged : t.runtime = "qwen38-fp8-chat-transformers-rocm" /\ t.thinking = "disabled"
    BY DEF W!Packaged, W!Plain, W!Template
  <2>. QED
    BY <1>2, <2>1, <2>2
<1>3. CASE w.runtime \in {"gemma4-general-chat-transformers-rocm", "qwen35-llamacpp-vulkan",
                          "qwen38-llamacpp-vulkan"}
  <2>1. w.thinking \in W!PolicyOf(w)
    BY <1>3 DEF W!Launchable, W!GemmaLaunch, W!Qwen35LlamaLaunch, W!Qwen38LlamaLaunch
  <2>. QED
    BY <2>1 DEF W!PolicyOf
<1>. QED
  BY <1>1, <1>2, <1>3 DEF Reviewed

---------------------------------------------------------------------------
(* Launches: the steps *)

\* It holds at first.
LEMMA LaunchStart == W!LaunchesInit => LaunchInv
  BY DEF W!LaunchesInit, LaunchInv, RegistrationsOK, W!PoliciesAreReviewed, W!OfferedWorkersStart,
         W!WorkersProvideTheirCapability

\* What the builders look at outside the definition is the approved revision.
LEMMA SameApproval ==
  ASSUME W!OfferedWorkersStart, UNCHANGED <<approved, definition>>, reapproved \subseteq reapproved'
  PROVE  W!OfferedWorkersStart'
  BY DEF W!OfferedWorkersStart, W!Launchable, W!TransformersLaunch, W!SceneLaunch, W!GemmaLaunch, W!QwenChatLaunch,
         W!Fp8Launch, W!DiffusionLaunch, W!TranslationLaunch, W!LlamaLaunch, W!Qwen38LlamaLaunch, W!Qwen35LlamaLaunch,
         W!SpeechLaunch, W!CacheLaunch, W!PolicyOf, W!CandidateMatches

\* A start of the service registers whatever local templates there are.
LEMMA ServiceStarts ==
  ASSUME LaunchInv, NEW locals \in SUBSET LocalTemplates, W!StartsWith(locals)
  PROVE  LaunchInv'
<1>1. RegistrationsOK'
  BY DEF W!StartsWith, RegistrationsOK
<1>2. W!OfferedWorkersStart'
  BY SameApproval DEF W!StartsWith, LaunchInv
<1>3. W!PoliciesAreReviewed' /\ W!WorkersProvideTheirCapability'
  BY DEF W!StartsWith, LaunchInv, W!PoliciesAreReviewed, W!WorkersProvideTheirCapability, W!Provides
<1>. QED
  BY <1>1, <1>2, <1>3 DEF LaunchInv, W!StartsWith

\* Another revision's manifest takes the place of the one a Worker was created with.
LEMMA CandidateApproved ==
  ASSUME LaunchInv, NEW r \in Revisions, W!Approves(r)
  PROVE  LaunchInv'
<1>1. RegistrationsOK' /\ W!PoliciesAreReviewed' /\ W!WorkersProvideTheirCapability'
  BY DEF W!Approves, LaunchInv, RegistrationsOK, W!PoliciesAreReviewed, W!WorkersProvideTheirCapability, W!Provides
<1>2. W!OfferedWorkersStart'
  <2>1. CASE definition.runtime = "qwen35-llamacpp-vulkan"
    BY <2>1 DEF W!Approves, LaunchInv, W!OfferedWorkersStart, W!Launchable, W!LlamaLaunch, W!Qwen35LlamaLaunch,
                W!PolicyOf, W!CandidateMatches
  <2>2. CASE definition.runtime # "qwen35-llamacpp-vulkan"
    BY <2>2 DEF W!Approves, LaunchInv, W!OfferedWorkersStart, W!Launchable, W!TransformersLaunch, W!SceneLaunch,
                W!GemmaLaunch, W!QwenChatLaunch, W!Fp8Launch, W!DiffusionLaunch, W!TranslationLaunch, W!LlamaLaunch,
                W!Qwen38LlamaLaunch, W!SpeechLaunch, W!CacheLaunch, W!PolicyOf
  <2>. QED
    BY <2>1, <2>2
<1>. QED
  BY <1>1, <1>2 DEF LaunchInv, W!Approves

\* A Worker is created from what is registered, discovered and compatible.
LEMMA WorkerCreated ==
  ASSUME LaunchInv, W!CreatesWorker
  PROVE  LaunchInv'
<1>1. PICK m \in W!Discovered :
        \E c \in W!CapabilityCandidates(m) : \E t \in W!CompatibleTemplates(c, m.support) :
            W!Configurable(m, t) /\ definition' = W!Definition(m, c, t)
  BY DEF W!CreatesWorker
<1>c. PICK c \in W!CapabilityCandidates(m) :
        \E t \in W!CompatibleTemplates(c, m.support) :
            W!Configurable(m, t) /\ definition' = W!Definition(m, c, t)
  BY <1>1
<1>2. PICK t \in W!CompatibleTemplates(c, m.support) : W!Configurable(m, t) /\ definition' = W!Definition(m, c, t)
  BY <1>c
<1>. DEFINE w == W!Definition(m, c, t)
<1>3. RegistrationsOK /\ t \in registrations
  BY WaysToBeCompatible DEF LaunchInv
<1>4. w.template = t.id /\ w.runtime = t.runtime /\ w.family = t.family /\ w.capability = c
  BY DEF W!Definition
<1>5. t \in W!Packaged \/ (W!TrustedRuntime(t) /\ t.id \notin W!PackagedIds)
  BY <1>3 DEF RegistrationsOK
<1>6. t.runtime = "qwen38-fp8-chat-transformers-rocm" => t.family = "autoregressive"
  BY <1>5, TrustedFamilies, PackagedRows DEF RowOK
<1>7. t \in W!Packaged => \/ W!Launchable(w)
                          \/ w.template = "qwen38-fp8-chat-transformers-rocm" /\ w.model = "plain"
  BY <1>2, <1>3, PackagedWorkersStart
<1>8. \/ W!Provides(w, c) \/ t.family = "text-translation"
      \/ c = "general-image-chat" /\ t.id \in {"scenechat-qwen35", "scenechat-qwen38-fp8"}
  BY <1>3, OfferedTemplatesProvide
<1>9. definition' = w /\ UNCHANGED <<registrations, approved, process, reapproved>>
  BY <1>2 DEF W!CreatesWorker
<1>. HIDE DEF w
<1>10. W!OfferedWorkersStart'
  <2>1. w.template \in W!PackagedIds => t \in W!Packaged
    BY <1>4, <1>5
  <2>. QED
    BY <2>1, <1>7, <1>9
       DEF W!OfferedWorkersStart, W!Launchable, W!TransformersLaunch, W!SceneLaunch, W!GemmaLaunch, W!QwenChatLaunch,
           W!Fp8Launch, W!DiffusionLaunch, W!TranslationLaunch, W!LlamaLaunch, W!Qwen38LlamaLaunch,
           W!Qwen35LlamaLaunch, W!SpeechLaunch, W!CacheLaunch, W!PolicyOf, W!CandidateMatches
<1>11. W!WorkersProvideTheirCapability'
  BY <1>4, <1>8, <1>9 DEF W!WorkersProvideTheirCapability, W!Provides
<1>12. RegistrationsOK' /\ W!PoliciesAreReviewed'
  BY <1>9 DEF LaunchInv, RegistrationsOK, W!PoliciesAreReviewed
<1>. QED
  BY <1>4, <1>6, <1>9, <1>10, <1>11, <1>12 DEF LaunchInv

\* A launch is of the Worker that exists, through the builder of its runtime.
LEMMA WorkerLaunched ==
  ASSUME LaunchInv, W!LaunchesWorker
  PROVE  LaunchInv'
<1>1. W!PoliciesAreReviewed'
  <2>1. process' = definition /\ definition # None /\ W!Launchable(definition)
    BY DEF W!LaunchesWorker
  <2>2. SUFFICES ASSUME NEW i \in W!TRUSTED_RUNTIME_IMPLEMENTATIONS, i.runtime = definition.runtime,
                        "thinking" \in i.settings
                 PROVE  \E t \in W!Packaged : t.runtime = definition.runtime /\ t.thinking = definition.thinking
    BY <2>1 DEF W!PoliciesAreReviewed
  <2>3. definition.runtime \in Reviewed
    BY <2>2, ReviewedRuntimes
  <2>. QED
    BY <2>1, <2>3, LaunchesAreReviewed DEF LaunchInv
<1>2. W!OfferedWorkersStart'
  BY SameApproval DEF W!LaunchesWorker, LaunchInv
<1>3. RegistrationsOK' /\ W!WorkersProvideTheirCapability'
  BY DEF W!LaunchesWorker, LaunchInv, RegistrationsOK, W!WorkersProvideTheirCapability, W!Provides
<1>. QED
  BY <1>1, <1>2, <1>3 DEF LaunchInv, W!LaunchesWorker

\* Nothing else gives a process or a Worker.
LEMMA WorkerEnded ==
  ASSUME LaunchInv, W!StopsWorker \/ W!ArchivesWorker
  PROVE  LaunchInv'
<1>1. CASE W!StopsWorker
  <2>1. W!OfferedWorkersStart'
    BY <1>1, SameApproval DEF W!StopsWorker, LaunchInv
  <2>. QED
    BY <1>1, <2>1 DEF W!StopsWorker, LaunchInv, RegistrationsOK, W!PoliciesAreReviewed,
                      W!WorkersProvideTheirCapability, W!Provides
<1>2. CASE W!ArchivesWorker
  BY <1>2 DEF W!ArchivesWorker, LaunchInv, RegistrationsOK, W!PoliciesAreReviewed, W!OfferedWorkersStart,
              W!WorkersProvideTheirCapability
<1>. QED
  BY <1>1, <1>2

LEMMA LaunchPreserved ==
  ASSUME LaunchInv, W!LaunchesNext
  PROVE  LaunchInv'
  BY ServiceStarts, CandidateApproved, WorkerCreated, WorkerLaunched, WorkerEnded DEF W!LaunchesNext

LEMMA LaunchSame == LaunchInv /\ UNCHANGED W!launchVars => LaunchInv'
<1>1. SUFFICES ASSUME LaunchInv, UNCHANGED W!launchVars PROVE LaunchInv'
  OBVIOUS
<1>2. W!OfferedWorkersStart'
  BY <1>1, SameApproval DEF W!launchVars, LaunchInv
<1>. QED
  BY <1>1, <1>2 DEF W!launchVars, LaunchInv, RegistrationsOK, W!PoliciesAreReviewed,
                    W!WorkersProvideTheirCapability, W!Provides

LEMMA LaunchHolds ==
  LaunchInv => W!PoliciesAreReviewed /\ W!OfferedWorkersStart /\ W!WorkersProvideTheirCapability
  BY DEF LaunchInv

---------------------------------------------------------------------------
(* Manifests *)

Entry == [M!Files -> Manifests \cup {None}]

InstallersOK ==
    installer \in [Installers ->
        {M!Idle} \cup [pc : {"write", "replace", "read"}, manifest : Manifests]
                 \cup [pc : {"register", "publish"}, manifest : Manifests, entries : Entry]]

\* A file holds a manifest of its own name.
InPlace(contents) == \A f \in M!Files : contents[f] \in Manifests => FileOf[contents[f]] = f
NamesOK ==
    /\ InPlace(file) /\ InPlace(fileTmp) /\ InPlace(registry)
    /\ registryTmp # None => InPlace(registryTmp)
    /\ \A i \in Installers : installer[i].pc \in {"register", "publish"} => InPlace(installer[i].entries)

Untouched == M!Files \ touched

\* What the installer that runs has done, when it runs alone.
Progress(i) ==
    LET m == installer[i].manifest
        f == FileOf[m]
    IN  /\ f \in Untouched => file[f] \in (IF installer[i].pc \in {"write", "replace"} THEN {None, m} ELSE {m})
        /\ installer[i].pc = "replace" => fileTmp[f] = m
        /\ installer[i].pc \in {"register", "publish"} => installer[i].entries = [registry EXCEPT ![f] = m]
        /\ installer[i].pc = "publish" => registryTmp = installer[i].entries

Orderly ==
    /\ \A i, j \in M!Running : i = j
    /\ \A i \in M!Running : Progress(i)
    /\ \A f \in Untouched : registry[f] # None => file[f] = registry[f]

ManifestInv ==
    /\ M!ManifestTypesOK /\ InstallersOK /\ NamesOK
    /\ ~overlapped => Orderly
    /\ installed \subseteq Manifests
    /\ M!LoadedIsApproved /\ M!InstalledStays /\ M!RefusalsHaveACause

\* None and Other are contents of their own.
Distinct == None \notin Manifests /\ Other \notin Manifests /\ None # Other

LEMMA ManifestsInitially == ASSUME Distinct PROVE M!ManifestInit => ManifestInv
<1> SUFFICES ASSUME M!ManifestInit PROVE ManifestInv
  OBVIOUS
<1>1. M!Running = {}
  BY DEF M!ManifestInit, M!Running, M!Idle
<1>2. M!ManifestTypesOK /\ InstallersOK
  BY DEF M!ManifestInit, M!ManifestTypesOK, InstallersOK, M!NoEntries
<1>3. NamesOK
  BY DEF M!ManifestInit, NamesOK, InPlace, M!NoEntries, Distinct, M!Idle
<1>. QED
  BY <1>1, <1>2, <1>3 DEF M!ManifestInit, ManifestInv, Orderly, M!NoEntries, M!LoadedIsApproved, M!InstalledStays,
     M!RefusalsHaveACause

\* Every step is of one of these kinds.
LEMMA StepKinds ==
  ASSUME [M!ManifestNext]_(M!manifestVars)
  PROVE  \/ \E i \in Installers :
              \/ \E m \in Manifests : M!Installs(i, m)
              \/ M!WritesFile(i) \/ M!ReplacesFile(i) \/ M!ReadsRegistry(i) \/ M!WritesRegistry(i)
              \/ M!ReplacesRegistry(i) \/ M!InstallerDies(i)
         \/ \E f \in M!Files : M!Touches(f)
         \/ M!ServiceStarts \/ M!ServiceStops \/ UNCHANGED M!manifestVars
  BY DEF M!ManifestNext, M!InstallerStep

---------------------------------------------------------------------------
(* Manifests: types *)

\* Every step keeps the types, and that the service loads what was approved.
LEMMA TypesStep ==
  ASSUME M!ManifestTypesOK, InstallersOK, M!LoadedIsApproved, [M!ManifestNext]_(M!manifestVars)
  PROVE  M!ManifestTypesOK' /\ InstallersOK' /\ M!LoadedIsApproved'
<1> USE DEF M!ManifestTypesOK, InstallersOK, M!LoadedIsApproved, Entry
<1>1. ASSUME NEW i \in Installers, NEW m \in Manifests, M!Installs(i, m)
      PROVE  M!ManifestTypesOK' /\ InstallersOK' /\ M!LoadedIsApproved'
  BY <1>1 DEF M!Installs, M!directory, M!Observers
<1>2. ASSUME NEW i \in Installers, M!WritesFile(i) \/ M!ReplacesFile(i)
      PROVE  M!ManifestTypesOK' /\ InstallersOK' /\ M!LoadedIsApproved'
  <2>1. installer[i].manifest \in Manifests
    BY <1>2 DEF M!WritesFile, M!ReplacesFile, M!At, M!Idle
  <2>2. InstallersOK'
    BY <1>2 DEF M!WritesFile, M!ReplacesFile, M!At, M!Moves, M!Ends, M!Idle
  <2>. QED
    BY <1>2, <2>1, <2>2 DEF M!WritesFile, M!ReplacesFile, M!Observers
<1>3. ASSUME NEW i \in Installers, M!ReadsRegistry(i)
      PROVE  M!ManifestTypesOK' /\ InstallersOK' /\ M!LoadedIsApproved'
  <2>1. installer[i].manifest \in Manifests
    BY <1>3 DEF M!ReadsRegistry, M!At, M!Idle
  <2>. QED
    BY <1>3, <2>1 DEF M!ReadsRegistry, M!directory, M!Observers
<1>4. ASSUME NEW i \in Installers, M!WritesRegistry(i)
      PROVE  M!ManifestTypesOK' /\ InstallersOK' /\ M!LoadedIsApproved'
  <2>1. installer[i].entries \in Entry /\ InstallersOK'
    BY <1>4 DEF M!WritesRegistry, M!At, M!Moves, M!Idle
  <2>. QED
    BY <1>4, <2>1 DEF M!WritesRegistry, M!Observers
<1>5. ASSUME NEW i \in Installers, M!ReplacesRegistry(i)
      PROVE  M!ManifestTypesOK' /\ InstallersOK' /\ M!LoadedIsApproved'
  BY <1>5 DEF M!ReplacesRegistry, M!Ends, M!Observers
<1>6. ASSUME NEW i \in Installers, M!InstallerDies(i)
      PROVE  M!ManifestTypesOK' /\ InstallersOK' /\ M!LoadedIsApproved'
  BY <1>6 DEF M!InstallerDies, M!Ends, M!directory, M!Observers
<1>7. ASSUME NEW f \in M!Files, M!Touches(f)
      PROVE  M!ManifestTypesOK' /\ InstallersOK' /\ M!LoadedIsApproved'
  BY <1>7 DEF M!Touches
<1>8. ASSUME M!ServiceStarts PROVE M!ManifestTypesOK' /\ InstallersOK' /\ M!LoadedIsApproved'
  <2>1. /\ M!Sound => {file[f] : f \in M!Entries} \subseteq Manifests
        /\ M!Sound => \A m \in {file[f] : f \in M!Entries} : IdsOf[m] \cap CoreIds = {}
    BY DEF M!Sound, M!Entries
  <2>2. M!Sound => \A m, n \in {file[f] : f \in M!Entries} : IdsOf[m] \cap IdsOf[n] # {} => m = n
    BY DEF M!Sound, M!Entries
  <2>3. loaded' = {} \/ (M!Sound /\ loaded' = {file[f] : f \in M!Entries})
    BY <1>8 DEF M!ServiceStarts
  <2>4. M!LoadedIsApproved'
    BY <2>1, <2>2, <2>3
  <2>. QED
    BY <1>8, <2>4 DEF M!ServiceStarts, M!directory
<1>9. ASSUME M!ServiceStops \/ UNCHANGED M!manifestVars
      PROVE  M!ManifestTypesOK' /\ InstallersOK' /\ M!LoadedIsApproved'
  BY <1>9 DEF M!ServiceStops, M!directory, M!manifestVars
<1>. QED
  BY <1>1, <1>2, <1>3, <1>4, <1>5, <1>6, <1>7, <1>8, <1>9, StepKinds

\* A step of an installer leaves the others where they were.
LEMMA OneMoves ==
  ASSUME InstallersOK, NEW i \in Installers,
         \/ \E m \in Manifests : M!Installs(i, m)
         \/ M!WritesFile(i) \/ M!ReplacesFile(i) \/ M!ReadsRegistry(i) \/ M!WritesRegistry(i)
         \/ M!ReplacesRegistry(i) \/ M!InstallerDies(i)
  PROVE  \A j \in Installers : j # i => installer'[j] = installer[j]
  BY DEF InstallersOK, M!Installs, M!WritesFile, M!ReplacesFile, M!ReadsRegistry, M!WritesRegistry,
     M!ReplacesRegistry,
     M!InstallerDies, M!Moves, M!Ends

---------------------------------------------------------------------------
(* Manifests: names *)

\* A manifest that is written under its own name leaves every content under its name.
LEMMA PutInPlace ==
  ASSUME NEW contents, NEW m \in Manifests
  PROVE  InPlace(contents) => InPlace([contents EXCEPT ![FileOf[m]] = m])
  BY DEF InPlace

\* Files and rows stay under their names.
LEMMA NamesStep ==
  ASSUME Distinct, M!ManifestTypesOK, InstallersOK, NamesOK, [M!ManifestNext]_(M!manifestVars)
  PROVE  NamesOK'
<1> USE DEF NamesOK
<1>1. ASSUME NEW i \in Installers, NEW m \in Manifests, M!Installs(i, m) PROVE NamesOK'
  <2>1. installer'[i].pc = "write"
    BY <1>1 DEF M!Installs, InstallersOK
  <2>. QED
    BY <1>1, <2>1, OneMoves DEF M!Installs, M!directory, InPlace
<1>2. ASSUME NEW i \in Installers, M!WritesFile(i) PROVE NamesOK'
  <2>1. installer[i].manifest \in Manifests /\ installer'[i].pc = "replace"
    BY <1>2 DEF M!WritesFile, M!At, M!Moves, InstallersOK, M!Idle
  <2>2. InPlace(fileTmp)'
    BY <1>2, <2>1, PutInPlace DEF M!WritesFile, InPlace
  <2>3. UNCHANGED <<file, registry, registryTmp>>
    BY <1>2 DEF M!WritesFile
  <2>. QED
    BY <1>2, <2>1, <2>2, <2>3, OneMoves DEF InPlace
<1>3. ASSUME NEW i \in Installers, M!ReplacesFile(i) PROVE NamesOK'
  <2>1. installer'[i].pc \in {"idle", "read"}
    BY <1>3 DEF M!ReplacesFile, M!At, M!Moves, M!Ends, InstallersOK, M!Idle
  <2>2. InPlace(file)' /\ InPlace(fileTmp)'
    BY <1>3 DEF M!ReplacesFile, InPlace, M!ManifestTypesOK, Distinct
  <2>. QED
    BY <1>3, <2>1, <2>2, OneMoves DEF M!ReplacesFile, InPlace
<1>4. ASSUME NEW i \in Installers, M!ReadsRegistry(i) PROVE NamesOK'
  <2>1. installer[i].manifest \in Manifests
    BY <1>4 DEF M!ReadsRegistry, M!At, InstallersOK, M!Idle
  <2>2. installer'[i].entries = [registry EXCEPT ![FileOf[installer[i].manifest]] = installer[i].manifest]
    BY <1>4 DEF M!ReadsRegistry, InstallersOK
  <2>3. InPlace(installer'[i].entries)
    BY <2>1, <2>2, PutInPlace
  <2>. QED
    BY <1>4, <2>3, OneMoves DEF M!ReadsRegistry, M!directory, InPlace
<1>5. ASSUME NEW i \in Installers, M!WritesRegistry(i) PROVE NamesOK'
  <2>1. installer[i].pc = "register" /\ installer'[i].pc = "publish" /\ installer'[i].entries = installer[i].entries
    BY <1>5 DEF M!WritesRegistry, M!At, M!Moves, InstallersOK, M!Idle
  <2>. QED
    BY <1>5, <2>1, OneMoves DEF M!WritesRegistry, InPlace
<1>6. ASSUME NEW i \in Installers, M!ReplacesRegistry(i) PROVE NamesOK'
  <2>1. installer'[i].pc = "idle"
    BY <1>6 DEF M!ReplacesRegistry, M!Ends, InstallersOK, M!Idle
  <2>. QED
    BY <1>6, <2>1, OneMoves DEF M!ReplacesRegistry, InPlace
<1>7. ASSUME NEW i \in Installers, M!InstallerDies(i) PROVE NamesOK'
  <2>1. installer'[i].pc = "idle"
    BY <1>7 DEF M!InstallerDies, M!Ends, InstallersOK, M!Idle
  <2>. QED
    BY <1>7, <2>1, OneMoves DEF M!InstallerDies, M!directory, InPlace
<1>8. ASSUME NEW f \in M!Files, M!Touches(f) PROVE NamesOK'
  BY <1>8 DEF M!Touches, InPlace, M!ManifestTypesOK, Distinct
<1>9. ASSUME M!ServiceStarts \/ M!ServiceStops \/ UNCHANGED M!manifestVars PROVE NamesOK'
  BY <1>9 DEF M!ServiceStarts, M!ServiceStops, M!manifestVars, M!directory, InPlace
<1>. QED
  BY <1>1, <1>2, <1>3, <1>4, <1>5, <1>6, <1>7, <1>8, <1>9, StepKinds

---------------------------------------------------------------------------
(* Manifests: installers one after the other *)

\* Who runs alone stays alone.
LEMMA AloneStays ==
  ASSUME Orderly, NEW i \in M!Running, \A j \in Installers : j # i => installer'[j] = installer[j],
         Progress(i)' \/ i \notin M!Running',
         \A f \in Untouched' : registry'[f] # None => file'[f] = registry'[f]
  PROVE  Orderly'
  BY DEF Orderly, M!Running

\* What the one installer has written so far, while none overlapped.
LEMMA OrderlyStep ==
  ASSUME Distinct, M!ManifestTypesOK, InstallersOK, NamesOK, Orderly, ~overlapped', [M!ManifestNext]_(M!manifestVars)
  PROVE  Orderly'
<1>1. ASSUME NEW i \in Installers, NEW m \in Manifests, M!Installs(i, m) PROVE Orderly'
  <2>1. M!Running = {} /\ M!Running' \subseteq {i}
    BY <1>1, OneMoves DEF M!Installs, M!Running
  <2>2. installer'[i] = [pc |-> "write", manifest |-> m]
    BY <1>1 DEF M!Installs, InstallersOK
  <2>3. Progress(i)'
    BY <1>1, <2>2 DEF M!Installs, Progress, M!directory
  <2>. QED
    BY <1>1, <2>1, <2>3 DEF M!Installs, Orderly, M!directory, M!Observers, Untouched
<1>2. ASSUME NEW i \in Installers, M!WritesFile(i) PROVE Orderly'
  <2>1. i \in M!Running /\ Progress(i)
    BY <1>2 DEF M!WritesFile, M!At, M!Running, Orderly
  <2>2. /\ installer[i].pc = "write" /\ installer'[i].pc = "replace"
        /\ installer'[i].manifest = installer[i].manifest /\ installer[i].manifest \in Manifests
    BY <1>2 DEF M!WritesFile, M!At, M!Moves, InstallersOK, M!Idle
  <2>3. fileTmp'[FileOf[installer[i].manifest]] = installer[i].manifest
    BY <1>2, <2>2 DEF M!WritesFile, M!ManifestTypesOK, M!Files
  <2>4. Progress(i)'
    BY <1>2, <2>1, <2>2, <2>3 DEF M!WritesFile, Progress, M!Observers, Untouched
  <2>. QED
    BY <1>2, <2>1, <2>4, OneMoves, AloneStays DEF M!WritesFile, M!Observers, Untouched, Orderly
<1>3. ASSUME NEW i \in Installers, M!ReplacesFile(i) PROVE Orderly'
  <2>1. i \in M!Running /\ Progress(i) /\ installer[i].pc = "replace"
    BY <1>3 DEF M!ReplacesFile, M!At, M!Running, Orderly
  <2> DEFINE m == installer[i].manifest
             f == FileOf[m]
  <2>2. m \in Manifests /\ f \in M!Files /\ fileTmp[f] = m /\ m # None
    BY <2>1 DEF InstallersOK, M!Idle, M!Files, Progress, Distinct
  <2>3. file' = [file EXCEPT ![f] = m] /\ M!Moves(i, "read")
    BY <1>3, <2>2 DEF M!ReplacesFile
  <2>4. installer'[i].pc = "read" /\ installer'[i].manifest = m
    BY <2>1, <2>3 DEF M!Moves, InstallersOK, M!Idle
  <2>5. file'[f] = m /\ \A g \in M!Files : g # f => file'[g] = file[g]
    BY <2>2, <2>3 DEF M!ManifestTypesOK
  <2>6. Progress(i)'
    BY <2>2, <2>4, <2>5 DEF Progress
  <2>7. \A g \in Untouched : registry[g] # None => file'[g] = registry[g]
    BY <2>1, <2>5 DEF Orderly, Progress, Untouched, Distinct
  <2>. QED
    BY <1>3, <2>1, <2>6, <2>7, OneMoves, AloneStays DEF M!ReplacesFile, M!Observers, Untouched
<1>4. ASSUME NEW i \in Installers, M!ReadsRegistry(i) PROVE Orderly'
  <2>1. i \in M!Running /\ Progress(i) /\ installer[i].pc = "read"
    BY <1>4 DEF M!ReadsRegistry, M!At, M!Running, Orderly
  <2>2. installer'[i] = [pc |-> "register", manifest |-> installer[i].manifest,
                         entries |-> [registry EXCEPT ![FileOf[installer[i].manifest]] = installer[i].manifest]]
    BY <1>4 DEF M!ReadsRegistry, InstallersOK
  <2>3. Progress(i)'
    BY <1>4, <2>1, <2>2 DEF M!ReadsRegistry, Progress, M!directory, M!Observers, Untouched
  <2>. QED
    BY <1>4, <2>1, <2>3, OneMoves, AloneStays DEF M!ReadsRegistry, M!directory, M!Observers, Untouched, Orderly
<1>5. ASSUME NEW i \in Installers, M!WritesRegistry(i) PROVE Orderly'
  <2>1. i \in M!Running /\ Progress(i)
    BY <1>5 DEF M!WritesRegistry, M!At, M!Running, Orderly
  <2>2. /\ installer[i].pc = "register" /\ installer'[i].pc = "publish"
        /\ installer'[i].manifest = installer[i].manifest /\ installer'[i].entries = installer[i].entries
    BY <1>5 DEF M!WritesRegistry, M!At, M!Moves, InstallersOK, M!Idle
  <2>3. Progress(i)'
    BY <1>5, <2>1, <2>2 DEF M!WritesRegistry, Progress, M!Observers, Untouched
  <2>. QED
    BY <1>5, <2>1, <2>3, OneMoves, AloneStays DEF M!WritesRegistry, M!Observers, Untouched, Orderly
<1>6. ASSUME NEW i \in Installers, M!ReplacesRegistry(i) PROVE Orderly'
  <2>1. i \in M!Running /\ Progress(i) /\ installer[i].pc = "publish"
    BY <1>6 DEF M!ReplacesRegistry, M!At, M!Running, Orderly
  <2> DEFINE m == installer[i].manifest
             f == FileOf[m]
  <2>2. m \in Manifests /\ f \in M!Files
    BY <2>1 DEF InstallersOK, M!Idle, M!Files
  <2>3. registry' \in {registry, [registry EXCEPT ![f] = m]} /\ file' = file /\ touched' = touched
    BY <1>6, <2>1 DEF M!ReplacesRegistry, Progress, M!Observers
  <2>4. \A g \in Untouched : registry'[g] # None => file'[g] = registry'[g]
    BY <2>1, <2>2, <2>3 DEF Orderly, Progress, Untouched, M!ManifestTypesOK
  <2>5. i \notin M!Running'
    BY <1>6 DEF M!ReplacesRegistry, M!Ends, M!Running, InstallersOK, M!Idle
  <2>. QED
    BY <2>1, <2>3, <2>4, <2>5, <1>6, OneMoves, AloneStays DEF Untouched
<1>7. ASSUME NEW i \in Installers, M!InstallerDies(i) PROVE Orderly'
  <2>1. i \in M!Running /\ i \notin M!Running'
    BY <1>7 DEF M!InstallerDies, M!Ends, M!Running, InstallersOK, M!Idle
  <2>. QED
    BY <1>7, <2>1, OneMoves, AloneStays DEF M!InstallerDies, M!directory, M!Observers, Untouched, Orderly
<1>8. ASSUME NEW f \in M!Files, M!Touches(f) PROVE Orderly'
  <2>1. \A g \in Untouched' : g \in Untouched /\ g # f /\ file'[g] = file[g]
    BY <1>8 DEF M!Touches, Untouched, M!ManifestTypesOK
  <2>2. UNCHANGED <<installer, fileTmp, registry, registryTmp>> /\ M!Running' = M!Running
    BY <1>8 DEF M!Touches, M!Running
  <2>. QED
    BY <2>1, <2>2 DEF Orderly, Progress
<1>9. ASSUME M!ServiceStarts \/ M!ServiceStops \/ UNCHANGED M!manifestVars PROVE Orderly'
  <2>1. UNCHANGED <<M!directory, installer, touched>> /\ M!Running' = M!Running
    BY <1>9 DEF M!ServiceStarts, M!ServiceStops, M!manifestVars, M!Running
  <2>. QED
    BY <2>1 DEF Orderly, Progress, Untouched, M!directory
<1>. QED
  BY <1>1, <1>2, <1>3, <1>4, <1>5, <1>6, <1>7, <1>8, <1>9, StepKinds

---------------------------------------------------------------------------
(* Manifests: what an installation leaves, and why a start is refused *)

\* While installers run alone, what a file holds stays unless somebody touches it.
LEMMA ContentsStay ==
  ASSUME Distinct, M!ManifestTypesOK, InstallersOK, ~overlapped => Orderly, [M!ManifestNext]_(M!manifestVars)
  PROVE  /\ touched \subseteq touched' /\ (overlapped => overlapped')
         /\ ~overlapped => \A f \in Untouched' : file[f] # None => file'[f] = file[f]
         /\ ~overlapped => \A f \in Untouched' : registry[f] # None => registry'[f] = registry[f]
<1>1. ASSUME NEW i \in Installers, M!ReplacesFile(i), Orderly
      PROVE  \A f \in Untouched : file[f] # None => file'[f] = file[f]
  <2>1. Progress(i) /\ installer[i].pc = "replace"
    BY <1>1 DEF M!ReplacesFile, M!At, M!Running, Orderly
  <2>2. installer[i].manifest \in Manifests
    BY <2>1 DEF InstallersOK, M!Idle
  <2>. QED
    BY <1>1, <2>1, <2>2 DEF M!ReplacesFile, Progress, Untouched, M!ManifestTypesOK, Distinct
<1>2. ASSUME NEW i \in Installers, M!ReplacesRegistry(i), Orderly
      PROVE  \A f \in Untouched : registry[f] # None => registry'[f] = registry[f]
  <2>1. Progress(i) /\ installer[i].pc = "publish"
    BY <1>2 DEF M!ReplacesRegistry, M!At, M!Running, Orderly
  <2> DEFINE m == installer[i].manifest
  <2>2. registry' \in {registry, [registry EXCEPT ![FileOf[m]] = m]}
    BY <1>2, <2>1 DEF M!ReplacesRegistry, Progress
  <2>3. FileOf[m] \in Untouched /\ registry[FileOf[m]] # None => registry[FileOf[m]] = m
    BY <1>2, <2>1 DEF Orderly, Progress
  <2>. QED
    BY <2>2, <2>3 DEF Untouched, M!ManifestTypesOK
<1>3. ASSUME NEW i \in Installers, M!WritesFile(i) \/ M!ReadsRegistry(i) \/ M!WritesRegistry(i) \/ M!InstallerDies(i)
      PROVE  UNCHANGED <<file, registry, touched, overlapped>>
  BY <1>3 DEF M!WritesFile, M!ReadsRegistry, M!WritesRegistry, M!InstallerDies, M!directory, M!Observers
<1>9. ASSUME NEW i \in Installers, NEW m \in Manifests, M!Installs(i, m)
      PROVE  UNCHANGED <<file, registry, touched>> /\ (overlapped => overlapped')
  <2>1. UNCHANGED <<file, registry, touched>>
    BY <1>9 DEF M!Installs, M!directory, M!Observers
  <2>2. overlapped' = (overlapped \/ M!Running # {})
    BY <1>9 DEF M!Installs
  <2>. QED
    BY <2>1, <2>2, Zenon
<1>4. ASSUME NEW i \in Installers, M!ReplacesFile(i) \/ M!ReplacesRegistry(i)
      PROVE  UNCHANGED <<touched, overlapped>> /\ (file' = file \/ registry' = registry)
  BY <1>4 DEF M!ReplacesFile, M!ReplacesRegistry, M!Observers
<1>5. ASSUME NEW f \in M!Files, M!Touches(f)
      PROVE  /\ touched' = touched \cup {f} /\ UNCHANGED <<registry, overlapped>>
             /\ \A g \in M!Files : g # f => file'[g] = file[g]
  BY <1>5 DEF M!Touches, M!ManifestTypesOK
<1>6. M!ServiceStarts \/ M!ServiceStops \/ UNCHANGED M!manifestVars
      => UNCHANGED <<file, registry, touched, overlapped>>
  BY DEF M!ServiceStarts, M!ServiceStops, M!directory, M!manifestVars
<1>7. ASSUME NEW i \in Installers, M!ReplacesFile(i) PROVE registry' = registry
  BY <1>7 DEF M!ReplacesFile
<1>8. ASSUME NEW i \in Installers, M!ReplacesRegistry(i) PROVE file' = file
  BY <1>8 DEF M!ReplacesRegistry
<1>. QED
  BY <1>1, <1>2, <1>3, <1>4, <1>5, <1>6, <1>7, <1>8, <1>9, StepKinds DEF Untouched

\* An installation that ended stays.
LEMMA InstalledStep ==
  ASSUME Distinct, ManifestInv, [M!ManifestNext]_(M!manifestVars)
  PROVE  installed' \subseteq Manifests /\ M!InstalledStays'
<1> USE DEF ManifestInv
<1>1. /\ touched \subseteq touched' /\ (overlapped => overlapped')
      /\ ~overlapped => \A f \in Untouched' : file[f] # None => file'[f] = file[f]
      /\ ~overlapped => \A f \in Untouched' : registry[f] # None => registry'[f] = registry[f]
  BY ContentsStay
<1>2. ASSUME installed' = installed PROVE installed' \subseteq Manifests /\ M!InstalledStays'
  <2>1. \A m \in installed : FileOf[m] \in M!Files /\ m # None
    BY DEF M!Files, Distinct
  <2>. QED
    BY <1>1, <1>2, <2>1 DEF M!InstalledStays, Untouched
<1>3. ASSUME NEW i \in Installers, M!ReplacesRegistry(i), installed' # installed
      PROVE  installed' \subseteq Manifests /\ M!InstalledStays'
  <2> DEFINE m == installer[i].manifest
  <2>1. /\ ~overlapped /\ ~overlapped' /\ installed' = installed \cup {m}
        /\ registry' = registryTmp /\ file' = file /\ touched' = touched
    BY <1>3 DEF M!ReplacesRegistry, M!Observers
  <2>2. Progress(i) /\ installer[i].pc = "publish"
    BY <1>3, <2>1 DEF M!ReplacesRegistry, M!At, M!Running, Orderly
  <2>3. m \in Manifests /\ FileOf[m] \in M!Files
    BY <2>2 DEF InstallersOK, M!Idle, M!Files
  <2>4. registry' = [registry EXCEPT ![FileOf[m]] = m]
    BY <2>1, <2>2 DEF Progress
  <2>5. registry'[FileOf[m]] = m /\ (FileOf[m] \in Untouched => file[FileOf[m]] = m)
    BY <2>2, <2>3, <2>4 DEF Progress, M!ManifestTypesOK
  <2>6. \A n \in installed : FileOf[n] \in M!Files /\ n # None
    BY DEF M!Files, Distinct
  <2>. QED
    BY <1>1, <2>1, <2>3, <2>5, <2>6 DEF M!InstalledStays, Untouched
<1>4. installed' = installed \/ \E i \in Installers : M!ReplacesRegistry(i)
  BY StepKinds DEF M!Installs, M!WritesFile, M!ReplacesFile, M!ReadsRegistry, M!WritesRegistry,
     M!InstallerDies, M!Touches,
     M!ServiceStarts, M!ServiceStops, M!manifestVars
<1>. QED
  BY <1>2, <1>3, <1>4

\* The manifests that are in place.
Present == {m \in Manifests : m \in {file[f] : f \in M!Files}}

\* A refusal to start has a cause.
LEMMA RefusalStep ==
  ASSUME Distinct, ManifestInv, [M!ManifestNext]_(M!manifestVars)
  PROVE  M!RefusalsHaveACause'
<1> USE DEF ManifestInv
<1> SUFFICES ASSUME service' = "refused", touched' = {}, ~overlapped'
             PROVE  \/ \E m \in Present' : IdsOf[m] \cap CoreIds # {}
                    \/ \E m, n \in Present' : FileOf[m] # FileOf[n] /\ IdsOf[m] \cap IdsOf[n] # {}
  BY DEF M!RefusalsHaveACause, Present
<1>1. /\ touched = {} /\ ~overlapped
      /\ \A f \in M!Files : file[f] # None => file'[f] = file[f]
  BY ContentsStay DEF Untouched
<1>2. CASE service = "refused"
  <2>1. Present \subseteq Present'
    BY <1>1 DEF Present, Distinct
  <2>. QED
    BY <1>1, <1>2, <2>1 DEF M!RefusalsHaveACause, Present
<1>3. CASE service # "refused"
  <2>1. M!ServiceStarts
    BY <1>3, StepKinds DEF M!Installs, M!WritesFile, M!ReplacesFile, M!ReadsRegistry, M!WritesRegistry,
       M!ReplacesRegistry,
       M!InstallerDies, M!Touches, M!ServiceStops, M!manifestVars, M!Observers
  <2>2. ~M!Sound /\ file' = file
    BY <2>1 DEF M!ServiceStarts, M!directory
  <2>3. \A f \in M!Entries : file[f] = registry[f] /\ file[f] \in Manifests
    BY <1>1 DEF Orderly, M!Entries, Untouched, M!ManifestTypesOK
  <2>4. \A f \in M!Entries : registry[f] \in Present' /\ FileOf[registry[f]] = f
    BY <2>2, <2>3 DEF NamesOK, InPlace, M!Entries, Present
  <2>5. \/ \E f \in M!Entries : IdsOf[registry[f]] \cap CoreIds # {}
        \/ \E f, g \in M!Entries : f # g /\ IdsOf[registry[f]] \cap IdsOf[registry[g]] # {}
    BY <2>2, <2>3 DEF M!Sound
  <2>. QED
    BY <2>4, <2>5
<1>. QED
  BY <1>2, <1>3

\* The constants name different things.
LEMMA ManifestsAreDistinct == Distinct
  BY ManifestAssumption DEF Distinct

LEMMA ManifestPreserved == ManifestInv /\ [M!ManifestNext]_(M!manifestVars) => ManifestInv'
<1> SUFFICES ASSUME ManifestInv, [M!ManifestNext]_(M!manifestVars) PROVE ManifestInv'
  OBVIOUS
<1>0. Distinct
  BY ManifestsAreDistinct
<1>1. overlapped => overlapped'
  BY <1>0, ContentsStay DEF ManifestInv
<1>2. (~overlapped => Orderly)'
  BY <1>0, <1>1, OrderlyStep DEF ManifestInv
<1>. QED
  BY <1>0, <1>2, TypesStep, NamesStep, InstalledStep, RefusalStep DEF ManifestInv

---------------------------------------------------------------------------
(* Q4 releases: the files of a directory *)

Contents == [Q!Shards -> Q!Torn..MaxConversions]

Deltas == [state : {"converting", "complete"}, layers : Nat, version : {1, 2},
           weights : 0..MaxMaterialised, runtime : 0..MaxMaterialised]

Inventories == [expert : Contents, weights : 0..MaxMaterialised, runtime : 0..MaxMaterialised,
                manifest : Deltas \cup {None}, report : Q!Results \cup {None}]

Releases == [inventory : Inventories, build : Nat]

Checkpoints == [expert : Contents, weights : 0..MaxMaterialised, runtime : 0..MaxMaterialised,
                manifest : Deltas \cup {None}, report : Q!Results \cup {None},
                release : Releases \cup {None}, sums : Releases \cup {None}]

\* What the tools at work remember.
ToolsOK ==
    /\ converter \in {Q!Off} \cup [pc : {"layer"}, next : 1..(Layers + 1)]
                             \cup [pc : {"filled", "record"}, next : Q!Shards]
    /\ materialiser \in {Q!Off} \cup [pc : {"copy"}, to : {"output"}, next : Q!Shards, manifest : Deltas,
                                      run : 1..MaxMaterialised]
                                \cup [pc : {"runtime", "weights", "manifest"}, to : Q!Dirs, next : 1..(Layers + 1),
                                      manifest : Deltas, run : 1..MaxMaterialised]
    /\ packager \in {Q!Off} \cup [pc : {"hash"}, of : Q!Dirs]
                            \cup [pc : {"release", "sums"}, of : Q!Dirs, inventory : Inventories]

FilesOK ==
    /\ dir \in [Q!Dirs -> Checkpoints]
    /\ linked \subseteq Q!Shards
    /\ report \in Q!Results \cup {"torn", None}
    /\ published \in Checkpoints \cup {None}
    /\ conversions \in 0..MaxConversions /\ materialised \in 0..MaxMaterialised /\ builds \in Nat
    /\ mixed \in BOOLEAN /\ together \in BOOLEAN

\* One field of one directory is written.
LEMMA Fields ==
  ASSUME NEW f \in Checkpoints
  PROVE  /\ \A x \in Contents : [f EXCEPT !.expert = x] \in Checkpoints
         /\ \A x \in 0..MaxMaterialised :
              [f EXCEPT !.weights = x] \in Checkpoints /\ [f EXCEPT !.runtime = x] \in Checkpoints
         /\ \A x \in Deltas : [f EXCEPT !.manifest = x] \in Checkpoints
         /\ \A x \in Q!Results : [f EXCEPT !.report = x] \in Checkpoints
         /\ \A x \in Releases : [f EXCEPT !.release = x] \in Checkpoints
         /\ \A x \in Releases \cup {None} : [f EXCEPT !.sums = x] \in Checkpoints
  BY DEF Checkpoints

\* The directory d, and no other, is now f.
Writes(d, f) == dir' = [dir EXCEPT ![d] = f]

\* A tool's write changes the one directory.
LEMMA Written ==
  ASSUME FilesOK, NEW d \in Q!Dirs, NEW f \in Checkpoints, Writes(d, f)
  PROVE  dir' \in [Q!Dirs -> Checkpoints] /\ dir'[d] = f /\ \A e \in Q!Dirs \ {d} : dir'[e] = dir[e]
  BY DEF FilesOK, Writes

\* The converter's manifests are manifests.
LEMMA DeltaTypes ==
  /\ \A n \in Nat : \A status \in {"converting", "complete"} : Q!Delta(n, status) \in Deltas
  /\ \A n : Q!Delta(n, "converting").state = "converting"
  BY Q4Assumption DEF Q!Delta, Deltas, Q!Absent

\* What a shard of the converter's run is written to.
LEMMA ShardWritten ==
  ASSUME FilesOK, converter.next \in Q!Shards, NEW content \in Q!Torn..MaxConversions, Q!WritesShard(content)
  PROVE  /\ dir' \in [Q!Dirs -> Checkpoints] /\ mixed' \in BOOLEAN
         /\ \A d \in Q!Dirs : /\ dir'[d].manifest = dir[d].manifest /\ dir'[d].release = dir[d].release
                              /\ dir'[d].sums = dir[d].sums
         /\ dir'["source"].expert = [dir["source"].expert EXCEPT ![converter.next] = content]
         /\ mixed => mixed'
         /\ ~mixed' => dir'["output"].expert = dir["output"].expert
<1>. DEFINE l == converter.next
            f(d) == [dir[d] EXCEPT !.expert = [dir[d].expert EXCEPT ![l] = content]]
<1>1. \A d \in Q!Dirs : dir[d] \in Checkpoints /\ dir[d].expert \in Contents
  BY DEF FilesOK, Checkpoints
<1>2. dir' = [d \in Q!Dirs |-> IF d = "source" \/ l \in linked THEN f(d) ELSE dir[d]]
  BY DEF Q!WritesShard
<1>3. \A d \in Q!Dirs : f(d) \in Checkpoints
  <2>1. \A d \in Q!Dirs : [dir[d].expert EXCEPT ![l] = content] \in Contents
    BY <1>1 DEF Contents
  <2>. QED
    BY <1>1, <2>1, Fields
<1>4. \A d \in Q!Dirs : /\ f(d).manifest = dir[d].manifest /\ f(d).release = dir[d].release
                        /\ f(d).sums = dir[d].sums
                        /\ f(d).expert = [dir[d].expert EXCEPT ![l] = content]
  BY <1>1 DEF Checkpoints
<1>5. dir' \in [Q!Dirs -> Checkpoints]
  BY <1>1, <1>2, <1>3
<1>6. \A d \in Q!Dirs : dir'[d] = dir[d] \/ dir'[d] = f(d)
  BY <1>2
<1>7. dir'["source"] = f("source")
  BY <1>2 DEF Q!Dirs
<1>8. mixed' = (mixed \/ (l \in linked /\ dir["output"].expert[l] # content))
  BY DEF Q!WritesShard
<1>9. ASSUME ~mixed' PROVE dir'["output"].expert = dir["output"].expert
  <2>1. CASE l \in linked
    <3>1. dir["output"].expert[l] = content
      BY <1>8, <1>9, <2>1
    <3>2. [dir["output"].expert EXCEPT ![l] = content] = dir["output"].expert
      BY <1>1, <3>1 DEF Contents, Q!Dirs
    <3>. QED
      BY <1>4, <1>6, <3>2 DEF Q!Dirs
  <2>2. CASE l \notin linked
    BY <1>2, <2>2 DEF Q!Dirs
  <2>. QED
    BY <2>1, <2>2
<1>10. mixed' \in BOOLEAN /\ (mixed => mixed')
  BY <1>8 DEF FilesOK
<1>. QED
  BY <1>4, <1>5, <1>6, <1>7, <1>9, <1>10 DEF Q!Dirs

---------------------------------------------------------------------------
(* Q4 releases: every step keeps the types *)

DirOK == dir \in [Q!Dirs -> Checkpoints]

\* What is known of the files of any directory.
LEMMA Files ==
  ASSUME FilesOK, NEW d \in Q!Dirs
  PROVE  /\ dir[d] \in Checkpoints /\ dir[d].expert \in Contents
         /\ \A l \in Q!Shards : dir[d].expert[l] \in Q!Torn..MaxConversions
         /\ dir[d].manifest \in Deltas \cup {None} /\ dir[d].release \in Releases \cup {None}
         /\ dir[d].sums \in Releases \cup {None} /\ Q!Inventory(dir[d]) \in Inventories
  BY DEF FilesOK, Checkpoints, Contents, Q!Inventory, Inventories

\* A tool that is at work is not off, and what it remembers.
LEMMA Tools ==
  ASSUME ToolsOK
  PROVE  /\ converter.pc = "layer" => converter \in [pc : {"layer"}, next : 1..(Layers + 1)]
         /\ converter.pc \in {"filled", "record"} => converter.next \in Q!Shards
         /\ converter # Q!Off <=> converter.pc \in {"layer", "filled", "record"}
         /\ materialiser.pc = "copy" => materialiser \in [pc : {"copy"}, to : {"output"}, next : Q!Shards,
                                                          manifest : Deltas, run : 1..MaxMaterialised]
         /\ materialiser.pc \in {"runtime", "weights", "manifest"} =>
              materialiser \in [pc : {"runtime", "weights", "manifest"}, to : Q!Dirs, next : 1..(Layers + 1),
                                manifest : Deltas, run : 1..MaxMaterialised]
         /\ materialiser # Q!Off <=> materialiser.pc \in {"copy", "runtime", "weights", "manifest"}
         /\ packager.pc = "hash" => packager.of \in Q!Dirs
         /\ packager.pc \in {"release", "sums"} =>
              packager \in [pc : {"release", "sums"}, of : Q!Dirs, inventory : Inventories]
         /\ packager # Q!Off <=> packager.pc \in {"hash", "release", "sums"}
<1>1. /\ converter.pc = "layer" => converter \in [pc : {"layer"}, next : 1..(Layers + 1)]
      /\ converter.pc \in {"filled", "record"} => converter.next \in Q!Shards
      /\ converter # Q!Off <=> converter.pc \in {"layer", "filled", "record"}
  BY DEF ToolsOK, Q!Off
<1>2. /\ materialiser.pc = "copy" => materialiser \in [pc : {"copy"}, to : {"output"}, next : Q!Shards,
                                                       manifest : Deltas, run : 1..MaxMaterialised]
      /\ materialiser.pc \in {"runtime", "weights", "manifest"} =>
           materialiser \in [pc : {"runtime", "weights", "manifest"}, to : Q!Dirs, next : 1..(Layers + 1),
                             manifest : Deltas, run : 1..MaxMaterialised]
      /\ materialiser # Q!Off <=> materialiser.pc \in {"copy", "runtime", "weights", "manifest"}
  BY DEF ToolsOK, Q!Off
<1>3. /\ packager.pc = "hash" => packager.of \in Q!Dirs
      /\ packager.pc \in {"release", "sums"} =>
           packager \in [pc : {"release", "sums"}, of : Q!Dirs, inventory : Inventories]
      /\ packager # Q!Off <=> packager.pc \in {"hash", "release", "sums"}
  BY DEF ToolsOK, Q!Off
<1>. QED
  BY <1>1, <1>2, <1>3

\* The steps of the converter, with what they write.
LEMMA ConversionTypes ==
  ASSUME FilesOK, ToolsOK,
         Q!BeginsConversion \/ Q!OpensShard \/ Q!FillsShard \/ Q!RecordsLayer \/ Q!EndsConversion \/ Q!ConverterDies
  PROVE  FilesOK' /\ ToolsOK'
<1>1. CASE Q!BeginsConversion
  <2>1. Writes("source", [dir["source"] EXCEPT !.manifest = Q!Delta(0, "converting")])
    BY <1>1 DEF Q!BeginsConversion, Writes
  <2>2. DirOK'
    BY <2>1, DeltaTypes, Files, Fields, Written DEF DirOK, Q!Dirs
  <2>3. conversions' \in 0..MaxConversions /\ together' \in BOOLEAN
    BY <1>1, Q4Assumption DEF Q!BeginsConversion, FilesOK, Q!Starts
  <2>4. converter' \in [pc : {"layer"}, next : 1..(Layers + 1)]
    BY <1>1, Q4Assumption DEF Q!BeginsConversion
  <2>. QED
    BY <1>1, <2>2, <2>3, <2>4 DEF Q!BeginsConversion, FilesOK, ToolsOK, DirOK
<1>2. CASE Q!OpensShard
  <2>1. DirOK' /\ mixed' \in BOOLEAN
    <3>1. Q!Torn \in Q!Torn..MaxConversions
      BY Q4Assumption DEF Q!Torn
    <3>. QED
      BY <1>2, <3>1, ShardWritten DEF Q!OpensShard, DirOK
  <2>2. converter' \in [pc : {"filled", "record"}, next : Q!Shards]
    BY <1>2, Tools DEF Q!OpensShard
  <2>. QED
    BY <1>2, <2>1, <2>2 DEF Q!OpensShard, FilesOK, ToolsOK, DirOK
<1>3. CASE Q!FillsShard
  <2>1. DirOK' /\ mixed' \in BOOLEAN
    <3>1. conversions \in Q!Torn..MaxConversions
      BY Q4Assumption DEF FilesOK, Q!Torn
    <3>. QED
      BY <1>3, <3>1, ShardWritten, Tools DEF Q!FillsShard, DirOK
  <2>2. converter' \in [pc : {"filled", "record"}, next : Q!Shards]
    BY <1>3, Tools DEF Q!FillsShard, ToolsOK, Q!Off
  <2>. QED
    BY <1>3, <2>1, <2>2 DEF Q!FillsShard, FilesOK, ToolsOK, DirOK
<1>4. CASE Q!RecordsLayer
  <2>1. converter.next \in Q!Shards
    BY <1>4, Tools DEF Q!RecordsLayer
  <2>2. Writes("source", [dir["source"] EXCEPT !.manifest = Q!Delta(converter.next, "converting")])
    BY <1>4 DEF Q!RecordsLayer, Writes
  <2>3. DirOK'
    <3>1. Q!Delta(converter.next, "converting") \in Deltas
      BY <2>1, DeltaTypes, Q4Assumption DEF Q!Shards
    <3>. QED
      BY <2>2, <3>1, Files, Fields, Written DEF DirOK, Q!Dirs
  <2>4. converter' \in [pc : {"layer"}, next : 1..(Layers + 1)]
    BY <1>4, <2>1, Q4Assumption DEF Q!RecordsLayer, Q!Shards
  <2>. QED
    BY <1>4, <2>3, <2>4 DEF Q!RecordsLayer, FilesOK, ToolsOK, DirOK
<1>5. CASE Q!EndsConversion
  <2>2. Writes("source", [dir["source"] EXCEPT !.manifest = Q!Delta(Layers, "complete")])
    BY <1>5 DEF Q!EndsConversion, Writes
  <2>3. DirOK'
    BY <2>2, DeltaTypes, Q4Assumption, Files, Fields, Written DEF DirOK, Q!Dirs
  <2>. QED
    BY <1>5, <2>3 DEF Q!EndsConversion, FilesOK, ToolsOK, DirOK
<1>6. CASE Q!ConverterDies
  BY <1>6 DEF Q!ConverterDies, FilesOK, ToolsOK
<1>. QED
  BY <1>1, <1>2, <1>3, <1>4, <1>5, <1>6

\* The steps of the materialiser.
LEMMA MaterialisingTypes ==
  ASSUME FilesOK, ToolsOK,
         \/ \E d \in Q!Dirs : Q!BeginsMaterialising(d)
         \/ \E link \in BOOLEAN : Q!CopiesShard(link)
         \/ Q!MovesRuntimeFiles \/ Q!MovesWeights \/ Q!EndsMaterialising \/ Q!MaterialiserDies
  PROVE  FilesOK' /\ ToolsOK'
<1>1. ASSUME NEW d \in Q!Dirs, Q!BeginsMaterialising(d) PROVE FilesOK' /\ ToolsOK'
  <2>1. dir["source"].manifest \in Deltas
    BY <1>1, Files DEF Q!BeginsMaterialising, Q!Complete, Q!Dirs
  <2>2. materialised' \in 1..MaxMaterialised /\ together' \in BOOLEAN
    BY <1>1, Q4Assumption DEF Q!BeginsMaterialising, FilesOK, Q!Starts
  <2>3. \/ materialiser' \in [pc : {"copy"}, to : {"output"}, next : Q!Shards, manifest : Deltas,
                              run : 1..MaxMaterialised]
        \/ materialiser' \in [pc : {"runtime", "weights", "manifest"}, to : Q!Dirs, next : 1..(Layers + 1),
                              manifest : Deltas, run : 1..MaxMaterialised]
    <3>1. 1 \in Q!Shards /\ 1 \in 1..(Layers + 1)
      BY Q4Assumption DEF Q!Shards
    <3>2. materialised + 1 \in 1..MaxMaterialised
      BY <1>1, <2>2 DEF Q!BeginsMaterialising
    <3>. QED
      BY <1>1, <2>1, <3>1, <3>2 DEF Q!BeginsMaterialising, Q!Dirs
  <2>. QED
    BY <1>1, <2>2, <2>3, Q4Assumption DEF Q!BeginsMaterialising, FilesOK, ToolsOK
<1>2. ASSUME NEW link \in BOOLEAN, Q!CopiesShard(link) PROVE FilesOK' /\ ToolsOK'
  <2>. DEFINE l == materialiser.next
              from == dir["source"].expert[l]
  <2>1. /\ materialiser \in [pc : {"copy"}, to : {"output"}, next : Q!Shards, manifest : Deltas,
                             run : 1..MaxMaterialised]
        /\ l \in Q!Shards
    BY <1>2, Tools DEF Q!CopiesShard
  <2>2. ASSUME Q!NextShard PROVE ToolsOK'
    <3>1. materialiser' = [materialiser EXCEPT !.next = l + 1,
                                   !.pc = IF l = Layers THEN "runtime" ELSE "copy"]
      BY <2>2 DEF Q!NextShard
    <3>2. l + 1 \in 1..(Layers + 1) /\ (l # Layers => l + 1 \in Q!Shards)
      BY <2>1, Q4Assumption DEF Q!Shards
    <3>3. \/ materialiser' \in [pc : {"copy"}, to : {"output"}, next : Q!Shards, manifest : Deltas,
                                run : 1..MaxMaterialised]
          \/ materialiser' \in [pc : {"runtime", "weights", "manifest"}, to : Q!Dirs, next : 1..(Layers + 1),
                                manifest : Deltas, run : 1..MaxMaterialised]
      BY <2>1, <3>1, <3>2 DEF Q!Dirs
    <3>. QED
      BY <1>2, <3>3 DEF Q!CopiesShard, Q!MaterialiserStays, ToolsOK
  <2>3. \/ dir' = dir /\ mixed' = (mixed \/ from # dir["output"].expert[l]) /\ linked' = linked
           /\ (Q!NextShard \/ materialiser' = Q!Off)
        \/ dir' = [dir EXCEPT !["output"].expert[l] = from] /\ mixed' = mixed
           /\ linked' \in {linked, linked \cup {l}} /\ Q!NextShard
    BY <1>2 DEF Q!CopiesShard
  <2>4. ToolsOK'
    BY <1>2, <2>2, <2>3 DEF Q!CopiesShard, Q!MaterialiserStays, ToolsOK
  <2>5. DirOK'
    <3>1. CASE dir' = dir
      BY <3>1 DEF FilesOK, DirOK
    <3>2. CASE dir' = [dir EXCEPT !["output"].expert[l] = from]
      <4>. DEFINE x == [dir["output"].expert EXCEPT ![l] = from]
      <4>1. x \in Contents
        BY <2>1, Files DEF Contents, Q!Dirs
      <4>2. Writes("output", [dir["output"] EXCEPT !.expert = x])
        BY <3>2 DEF Writes
      <4>3. [dir["output"] EXCEPT !.expert = x] \in Checkpoints
        BY <4>1, Files, Fields DEF Q!Dirs
      <4>. QED
        BY <4>2, <4>3, Written DEF DirOK, Q!Dirs
    <3>. QED
      BY <2>3, <3>1, <3>2
  <2>6. linked' \subseteq Q!Shards /\ mixed' \in BOOLEAN
    BY <2>1, <2>3 DEF FilesOK
  <2>. QED
    BY <1>2, <2>4, <2>5, <2>6 DEF Q!CopiesShard, Q!MaterialiserStays, FilesOK, DirOK
<1>3. CASE Q!MovesRuntimeFiles
  <2>1. materialiser \in [pc : {"runtime", "weights", "manifest"}, to : Q!Dirs, next : 1..(Layers + 1),
                          manifest : Deltas, run : 1..MaxMaterialised]
    BY <1>3, Tools DEF Q!MovesRuntimeFiles
  <2>2. Writes(materialiser.to, [dir[materialiser.to] EXCEPT !.runtime = materialiser.run])
    BY <1>3 DEF Q!MovesRuntimeFiles, Writes
  <2>3. DirOK'
    <3>1. materialiser.to \in Q!Dirs /\ materialiser.run \in 0..MaxMaterialised
      BY <2>1, Q4Assumption
    <3>. QED
      BY <2>2, <3>1, Files, Fields, Written DEF DirOK
  <2>4. materialiser' \in [pc : {"runtime", "weights", "manifest"}, to : Q!Dirs, next : 1..(Layers + 1),
                           manifest : Deltas, run : 1..MaxMaterialised]
    BY <1>3, <2>1 DEF Q!MovesRuntimeFiles
  <2>. QED
    BY <1>3, <2>3, <2>4 DEF Q!MovesRuntimeFiles, Q!MaterialiserStays, FilesOK, ToolsOK, DirOK
<1>4. CASE Q!MovesWeights
  <2>1. materialiser \in [pc : {"runtime", "weights", "manifest"}, to : Q!Dirs, next : 1..(Layers + 1),
                          manifest : Deltas, run : 1..MaxMaterialised]
    BY <1>4, Tools DEF Q!MovesWeights
  <2>2. Writes(materialiser.to, [dir[materialiser.to] EXCEPT !.weights = materialiser.run])
    BY <1>4 DEF Q!MovesWeights, Writes
  <2>3. DirOK'
    <3>1. materialiser.to \in Q!Dirs /\ materialiser.run \in 0..MaxMaterialised
      BY <2>1, Q4Assumption
    <3>. QED
      BY <2>2, <3>1, Files, Fields, Written DEF DirOK
  <2>4. materialiser' \in [pc : {"runtime", "weights", "manifest"}, to : Q!Dirs, next : 1..(Layers + 1),
                           manifest : Deltas, run : 1..MaxMaterialised]
    BY <1>4, <2>1 DEF Q!MovesWeights
  <2>. QED
    BY <1>4, <2>3, <2>4 DEF Q!MovesWeights, Q!MaterialiserStays, FilesOK, ToolsOK, DirOK
<1>5. CASE Q!EndsMaterialising
  <2>. DEFINE m == [materialiser.manifest EXCEPT !.version = 2, !.weights = materialiser.run,
                                                 !.runtime = materialiser.run]
  <2>1. materialiser.to \in Q!Dirs /\ materialiser.manifest \in Deltas
        /\ materialiser.run \in 0..MaxMaterialised
    BY <1>5, Tools, Q4Assumption DEF Q!EndsMaterialising
  <2>2. Writes(materialiser.to, [dir[materialiser.to] EXCEPT !.manifest = m])
    BY <1>5 DEF Q!EndsMaterialising, Writes
  <2>3. m \in Deltas
    BY <2>1 DEF Deltas
  <2>4. DirOK'
    <3>. HIDE DEF m
    <3>. QED
      BY <2>1, <2>2, <2>3, Files, Fields, Written DEF DirOK
  <2>. QED
    BY <1>5, <2>4 DEF Q!EndsMaterialising, Q!MaterialiserStays, FilesOK, ToolsOK, DirOK
<1>6. CASE Q!MaterialiserDies
  <2>1. CASE dir' = dir
    BY <1>6, <2>1 DEF Q!MaterialiserDies, Q!MaterialiserStays, FilesOK, ToolsOK
  <2>2. CASE materialiser.pc = "copy" /\ dir' = [dir EXCEPT !["output"].expert[materialiser.next] = Q!Torn]
    <3>. DEFINE x == [dir["output"].expert EXCEPT ![materialiser.next] = Q!Torn]
    <3>1. x \in Contents
      BY <2>2, Tools, Files, Q4Assumption DEF Contents, Q!Dirs, Q!Torn
    <3>2. Writes("output", [dir["output"] EXCEPT !.expert = x])
      BY <2>2 DEF Writes
    <3>3. [dir["output"] EXCEPT !.expert = x] \in Checkpoints
      BY <3>1, Files, Fields DEF Q!Dirs
    <3>4. DirOK'
      BY <3>2, <3>3, Written DEF DirOK, Q!Dirs
    <3>. QED
      BY <1>6, <3>4 DEF Q!MaterialiserDies, Q!MaterialiserStays, FilesOK, ToolsOK, DirOK
  <2>. QED
    BY <1>6, <2>1, <2>2 DEF Q!MaterialiserDies
<1>. QED
  BY <1>1, <1>2, <1>3, <1>4, <1>5, <1>6

\* The steps of the evaluation, the packager, the hub and the service.
LEMMA PackagingTypes ==
  ASSUME FilesOK, ToolsOK,
         \/ Q!BeginsEvaluation \/ Q!EndsEvaluation
         \/ \E d \in Q!Dirs : Q!BeginsPackaging(d)
         \/ Q!HashesFiles \/ Q!WritesRelease \/ Q!WritesSums \/ Q!PackagerDies
         \/ Q!Publishes \/ \E snapshot : Q!CreatesWorker(snapshot)
  PROVE  FilesOK' /\ ToolsOK'
<1>1. CASE Q!BeginsEvaluation \/ Q!EndsEvaluation
  BY <1>1 DEF Q!BeginsEvaluation, Q!EndsEvaluation, FilesOK, ToolsOK
<1>2. ASSUME NEW d \in Q!Dirs, Q!BeginsPackaging(d) PROVE FilesOK' /\ ToolsOK'
  <2>1. Writes(d, [dir[d] EXCEPT !.report = report]) /\ report \in Q!Results
    BY <1>2 DEF Q!BeginsPackaging, Writes, Q!Accepted, Q!Results
  <2>2. DirOK'
    BY <2>1, Files, Fields, Written DEF DirOK
  <2>3. builds' \in Nat /\ together' \in BOOLEAN
    BY <1>2 DEF Q!BeginsPackaging, FilesOK, Q!Starts
  <2>. QED
    BY <1>2, <2>2, <2>3 DEF Q!BeginsPackaging, Q!PackagerStays, FilesOK, ToolsOK, DirOK
<1>3. CASE Q!HashesFiles
  <2>1. packager.of \in Q!Dirs
    BY <1>3, Tools DEF Q!HashesFiles
  <2>2. Q!Inventory(dir[packager.of]) \in Inventories
    BY <2>1, Files
  <2>3. packager' \in [pc : {"release", "sums"}, of : Q!Dirs, inventory : Inventories]
    BY <1>3, <2>1, <2>2 DEF Q!HashesFiles
  <2>. QED
    BY <1>3, <2>3 DEF Q!HashesFiles, Q!PackagerStays, FilesOK, ToolsOK
<1>4. CASE Q!WritesRelease
  <2>. DEFINE r == [inventory |-> packager.inventory, build |-> builds]
  <2>1. packager \in [pc : {"release", "sums"}, of : Q!Dirs, inventory : Inventories]
    BY <1>4, Tools DEF Q!WritesRelease
  <2>2. r \in Releases
    BY <2>1 DEF Releases, FilesOK
  <2>3. Writes(packager.of, [dir[packager.of] EXCEPT !.release = r])
    BY <1>4 DEF Q!WritesRelease, Writes
  <2>4. DirOK'
    <3>. HIDE DEF r
    <3>. QED
      BY <2>1, <2>2, <2>3, Files, Fields, Written DEF DirOK
  <2>5. packager' \in [pc : {"release", "sums"}, of : Q!Dirs, inventory : Inventories]
    BY <1>4, <2>1 DEF Q!WritesRelease
  <2>. QED
    BY <1>4, <2>4, <2>5 DEF Q!WritesRelease, Q!PackagerStays, FilesOK, ToolsOK, DirOK
<1>5. CASE Q!WritesSums
  <2>1. packager.of \in Q!Dirs
    BY <1>5, Tools DEF Q!WritesSums
  <2>2. Writes(packager.of, [dir[packager.of] EXCEPT !.sums = dir[packager.of].release])
    BY <1>5 DEF Q!WritesSums, Writes
  <2>3. DirOK'
    BY <2>1, <2>2, Files, Fields, Written DEF DirOK
  <2>. QED
    BY <1>5, <2>3 DEF Q!WritesSums, Q!PackagerStays, FilesOK, ToolsOK, DirOK
<1>6. CASE Q!PackagerDies
  BY <1>6 DEF Q!PackagerDies, Q!PackagerStays, FilesOK, ToolsOK
<1>7. CASE Q!Publishes
  BY <1>7 DEF Q!Publishes, FilesOK, ToolsOK, Q!Dirs
<1>8. CASE \E snapshot : Q!CreatesWorker(snapshot)
  BY <1>8 DEF Q!CreatesWorker, FilesOK, ToolsOK
<1>. QED
  BY <1>1, <1>2, <1>3, <1>4, <1>5, <1>6, <1>7, <1>8
---------------------------------------------------------------------------
(* Q4 releases: what the runs leave in the directories *)

\* Only a build that ended writes SHA256SUMS.
BuiltOK ==
    /\ \A d \in Q!Dirs : dir[d].sums # None => dir[d].sums.inventory \in built
    /\ published # None /\ published.sums # None => published.sums.inventory \in built
    /\ packager.pc = "sums" => dir[packager.of].release.inventory = packager.inventory
    /\ worker # None => Q!Inventory(worker) \in built

\* The shards of f are there and of one conversion.
Whole(f) == \E c \in 1..MaxConversions : \A l \in Q!Shards : f.expert[l] = c

\* While the tools that write never met: the converter's manifest says so until its shards are
\* whole; the materialiser works from a whole source and what it did is a copy of it.
AloneOK ==
    /\ converter = Q!Off \/ materialiser = Q!Off
    /\ converter = Q!Off \/ packager = Q!Off
    /\ materialiser = Q!Off \/ packager = Q!Off
    /\ converter # Q!Off =>
        /\ conversions >= 1 /\ dir["source"].manifest.state = "converting"
        /\ \A l \in Q!Shards : l < converter.next \/ (l = converter.next /\ converter.pc = "record")
                               => dir["source"].expert[l] = conversions
    /\ Q!Complete(dir["source"].manifest) => Whole(dir["source"])
    /\ materialiser # Q!Off => Q!Complete(dir["source"].manifest)

CopiesOK ==
    /\ materialiser # Q!Off /\ materialiser.to = "output" =>
        \A l \in Q!Shards : (materialiser.pc = "copy" => l < materialiser.next)
                            => dir["output"].expert[l] = dir["source"].expert[l]
    /\ dir["output"].manifest # None => Whole(dir["output"])

HeldOK == ~together => AloneOK /\ (~mixed => CopiesOK)

Q4Inv == FilesOK /\ ToolsOK /\ BuiltOK /\ HeldOK

\* The tools keep the sums and the releases of the directories, but for the packager's last steps.
KeepsSums ==
    /\ \A d \in Q!Dirs : dir'[d].release = dir[d].release /\ dir'[d].sums = dir[d].sums
    /\ UNCHANGED <<published, worker, built>>
    /\ packager' = packager \/ packager'.pc # "sums"

\* A write that keeps a directory's release and sums leaves everybody's as they are.
LEMMA OtherFields ==
  ASSUME FilesOK, NEW d \in Q!Dirs, NEW f, Writes(d, f),
         f.release = dir[d].release, f.sums = dir[d].sums
  PROVE  \A e \in Q!Dirs : dir'[e].release = dir[e].release /\ dir'[e].sums = dir[e].sums
  BY DEF FilesOK, Writes

\* The steps but for the packager's last ones, a publication and the creation of a Worker.
LEMMA MostKeepSums ==
  ASSUME FilesOK, ToolsOK,
         \/ Q!BeginsConversion \/ Q!OpensShard \/ Q!FillsShard \/ Q!RecordsLayer \/ Q!EndsConversion \/ Q!ConverterDies
         \/ \E d \in Q!Dirs : Q!BeginsMaterialising(d) \/ Q!BeginsPackaging(d)
         \/ \E link \in BOOLEAN : Q!CopiesShard(link)
         \/ Q!MovesRuntimeFiles \/ Q!MovesWeights \/ Q!EndsMaterialising \/ Q!MaterialiserDies
         \/ Q!BeginsEvaluation \/ Q!EndsEvaluation
         \/ Q!HashesFiles \/ Q!PackagerDies
  PROVE  KeepsSums
<1>. DEFINE Same == \A d \in Q!Dirs : dir'[d].release = dir[d].release /\ dir'[d].sums = dir[d].sums
<1>0. \A d \in Q!Dirs : \A x : /\ [dir[d] EXCEPT !.manifest = x].release = dir[d].release
                               /\ [dir[d] EXCEPT !.manifest = x].sums = dir[d].sums
                               /\ [dir[d] EXCEPT !.runtime = x].release = dir[d].release
                               /\ [dir[d] EXCEPT !.runtime = x].sums = dir[d].sums
                               /\ [dir[d] EXCEPT !.weights = x].release = dir[d].release
                               /\ [dir[d] EXCEPT !.weights = x].sums = dir[d].sums
                               /\ [dir[d] EXCEPT !.report = x].release = dir[d].release
                               /\ [dir[d] EXCEPT !.report = x].sums = dir[d].sums
                               /\ [dir[d] EXCEPT !.expert = x].release = dir[d].release
                               /\ [dir[d] EXCEPT !.expert = x].sums = dir[d].sums
  BY Files DEF Checkpoints
<1>1. CASE Q!BeginsConversion \/ Q!RecordsLayer \/ Q!EndsConversion
  <2>1. \E m : Writes("source", [dir["source"] EXCEPT !.manifest = m])
    BY <1>1 DEF Q!BeginsConversion, Q!RecordsLayer, Q!EndsConversion, Writes
  <2>2. Same
    BY <1>0, <2>1, OtherFields DEF Q!Dirs
  <2>. QED
    BY <1>1, <2>2 DEF Q!BeginsConversion, Q!RecordsLayer, Q!EndsConversion, KeepsSums
<1>2. CASE Q!OpensShard \/ Q!FillsShard
  <2>1. converter.next \in Q!Shards
    BY <1>2, Tools DEF Q!OpensShard, Q!FillsShard, ToolsOK, Q!Off
  <2>2. \E content \in Q!Torn..MaxConversions : Q!WritesShard(content)
    <3>1. conversions \in Q!Torn..MaxConversions /\ Q!Torn \in Q!Torn..MaxConversions
      BY Q4Assumption DEF FilesOK, Q!Torn
    <3>. QED
      BY <1>2, <3>1 DEF Q!OpensShard, Q!FillsShard
  <2>3. Same
    BY <2>1, <2>2, ShardWritten
  <2>. QED
    BY <1>2, <2>3 DEF Q!OpensShard, Q!FillsShard, KeepsSums
<1>3. CASE Q!ConverterDies \/ Q!BeginsEvaluation \/ Q!EndsEvaluation
  BY <1>3 DEF Q!ConverterDies, Q!BeginsEvaluation, Q!EndsEvaluation, KeepsSums
<1>4. CASE \E d \in Q!Dirs : Q!BeginsMaterialising(d)
  BY <1>4 DEF Q!BeginsMaterialising, KeepsSums
<1>5. ASSUME NEW d \in Q!Dirs, Q!BeginsPackaging(d) PROVE KeepsSums
  <2>1. Writes(d, [dir[d] EXCEPT !.report = report])
    BY <1>5 DEF Q!BeginsPackaging, Writes
  <2>2. Same
    BY <1>0, <2>1, OtherFields
  <2>. QED
    BY <1>5, <2>2 DEF Q!BeginsPackaging, Q!PackagerStays, KeepsSums
<1>6. ASSUME NEW link \in BOOLEAN, Q!CopiesShard(link) PROVE KeepsSums
  <2>1. \/ dir' = dir
        \/ dir' = [dir EXCEPT !["output"].expert[materialiser.next] = dir["source"].expert[materialiser.next]]
    BY <1>6 DEF Q!CopiesShard
  <2>2. Same
    <3>1. CASE dir' = dir
      BY <3>1
    <3>2. CASE dir' = [dir EXCEPT !["output"].expert[materialiser.next] = dir["source"].expert[materialiser.next]]
      <4>1. \E x : Writes("output", [dir["output"] EXCEPT !.expert = x])
        BY <3>2 DEF Writes
      <4>. QED
        BY <1>0, <4>1, OtherFields DEF Q!Dirs
    <3>. QED
      BY <2>1, <3>1, <3>2
  <2>. QED
    BY <1>6, <2>2 DEF Q!CopiesShard, Q!MaterialiserStays, KeepsSums
<1>7. CASE Q!MovesRuntimeFiles \/ Q!MovesWeights \/ Q!EndsMaterialising
  <2>1. materialiser.to \in Q!Dirs
    BY <1>7, Tools DEF Q!MovesRuntimeFiles, Q!MovesWeights, Q!EndsMaterialising
  <2>2. CASE Q!MovesRuntimeFiles
    <3>1. Writes(materialiser.to, [dir[materialiser.to] EXCEPT !.runtime = materialiser.run])
      BY <2>2 DEF Q!MovesRuntimeFiles, Writes
    <3>2. Same
      BY <1>0, <2>1, <3>1, OtherFields
    <3>. QED
      BY <2>2, <3>2 DEF Q!MovesRuntimeFiles, Q!MaterialiserStays, KeepsSums
  <2>3. CASE Q!MovesWeights
    <3>1. Writes(materialiser.to, [dir[materialiser.to] EXCEPT !.weights = materialiser.run])
      BY <2>3 DEF Q!MovesWeights, Writes
    <3>2. Same
      BY <1>0, <2>1, <3>1, OtherFields
    <3>. QED
      BY <2>3, <3>2 DEF Q!MovesWeights, Q!MaterialiserStays, KeepsSums
  <2>4. CASE Q!EndsMaterialising
    <3>1. \E m : Writes(materialiser.to, [dir[materialiser.to] EXCEPT !.manifest = m])
      BY <2>4 DEF Q!EndsMaterialising, Writes
    <3>2. Same
      BY <1>0, <2>1, <3>1, OtherFields
    <3>. QED
      BY <2>4, <3>2 DEF Q!EndsMaterialising, Q!MaterialiserStays, KeepsSums
  <2>. QED
    BY <1>7, <2>2, <2>3, <2>4
<1>8. CASE Q!MaterialiserDies
  <2>1. \/ dir' = dir
        \/ dir' = [dir EXCEPT !["output"].expert[materialiser.next] = Q!Torn]
    BY <1>8 DEF Q!MaterialiserDies
  <2>2. Same
    <3>1. CASE dir' = dir
      BY <3>1
    <3>2. CASE dir' = [dir EXCEPT !["output"].expert[materialiser.next] = Q!Torn]
      <4>1. \E x : Writes("output", [dir["output"] EXCEPT !.expert = x])
        BY <3>2 DEF Writes
      <4>. QED
        BY <1>0, <4>1, OtherFields DEF Q!Dirs
    <3>. QED
      BY <2>1, <3>1, <3>2
  <2>. QED
    BY <1>8, <2>2 DEF Q!MaterialiserDies, Q!MaterialiserStays, KeepsSums
<1>9. CASE Q!HashesFiles \/ Q!PackagerDies
  BY <1>9 DEF Q!HashesFiles, Q!PackagerDies, Q!PackagerStays, KeepsSums, Q!Off
<1>. QED
  BY <1>1, <1>2, <1>3, <1>4, <1>5, <1>6, <1>7, <1>8, <1>9

\* The sums of a directory list what a build that ended had read.
LEMMA BuiltStep ==
  ASSUME FilesOK, ToolsOK, BuiltOK, Q!Q4Next
  PROVE  BuiltOK'
<1>1. ASSUME KeepsSums PROVE BuiltOK'
  <2>1. (packager.pc = "sums" => dir[packager.of].release.inventory = packager.inventory)'
    <3>1. CASE packager' = packager
      BY <1>1, <3>1, Tools DEF KeepsSums, BuiltOK
    <3>2. CASE packager'.pc # "sums"
      BY <3>2
    <3>. QED
      BY <1>1, <3>1, <3>2 DEF KeepsSums
  <2>. QED
    BY <1>1, <2>1 DEF KeepsSums, BuiltOK, Q!Inventory
<1>2. CASE Q!WritesRelease
  <2>. DEFINE p == packager.of
              f == [dir[p] EXCEPT !.release = [inventory |-> packager.inventory, build |-> builds]]
  <2>1. p \in Q!Dirs
    BY <1>2, Tools DEF Q!WritesRelease
  <2>2. dir' = [dir EXCEPT ![p] = f]
    BY <1>2 DEF Q!WritesRelease
  <2>3. f.sums = dir[p].sums /\ f.release.inventory = packager.inventory
    BY <2>1, Files DEF Checkpoints
  <2>4. dir'[p] = f /\ \A d \in Q!Dirs : dir'[d].sums = dir[d].sums
    BY <2>1, <2>2, <2>3 DEF FilesOK
  <2>5. packager'.of = p /\ packager'.inventory = packager.inventory
    BY <1>2, Tools DEF Q!WritesRelease
  <2>6. dir'[p].release.inventory = packager.inventory
    BY <2>3, <2>4
  <2>7. UNCHANGED <<published, worker, built>>
    BY <1>2 DEF Q!WritesRelease, Q!PackagerStays
  <2>. HIDE DEF p, f
  <2>. QED
    BY <2>4, <2>5, <2>6, <2>7 DEF BuiltOK
<1>3. CASE Q!WritesSums
  <2>. DEFINE p == packager.of
              f == [dir[p] EXCEPT !.sums = dir[p].release]
  <2>1. p \in Q!Dirs /\ packager.inventory \in built' /\ built \subseteq built'
    BY <1>3, Tools DEF Q!WritesSums
  <2>2. dir' = [dir EXCEPT ![p] = f]
    BY <1>3 DEF Q!WritesSums
  <2>3. f.sums = dir[p].release
    BY <2>1, Files DEF Checkpoints
  <2>4. dir'[p].sums = dir[p].release /\ \A d \in Q!Dirs \ {p} : dir'[d] = dir[d]
    BY <2>1, <2>2, <2>3 DEF FilesOK
  <2>5. dir[p].release.inventory = packager.inventory
    BY <1>3 DEF Q!WritesSums, BuiltOK
  <2>6. \A d \in Q!Dirs : dir'[d].sums # None => dir'[d].sums.inventory \in built'
    BY <2>1, <2>4, <2>5 DEF BuiltOK
  <2>7. packager'.pc # "sums"
    BY <1>3 DEF Q!WritesSums, Q!Off
  <2>. QED
    BY <1>3, <2>1, <2>6, <2>7 DEF Q!WritesSums, Q!PackagerStays, BuiltOK
<1>4. CASE Q!Publishes
  BY <1>4 DEF Q!Publishes, BuiltOK, Q!Dirs
<1>5. ASSUME published # None, NEW snapshot \in Q!Snapshots(published), Q!CreatesWorker(snapshot)
      PROVE  BuiltOK'
  <2>1. published \in Checkpoints
    BY <1>5 DEF FilesOK
  <2>2. snapshot.sums \in {published.sums, None}
    <3>1. snapshot = published \/ (\E x : \/ snapshot = [published EXCEPT !.weights = x]
                                          \/ snapshot = [published EXCEPT !.runtime = x]
                                          \/ snapshot = [published EXCEPT !.expert = x])
          \/ snapshot = [published EXCEPT !.sums = None]
      BY <1>5 DEF Q!Snapshots
    <3>. QED
      BY <2>1, <3>1 DEF Checkpoints
  <2>3. snapshot.sums # None /\ snapshot.sums.inventory = Q!Inventory(snapshot)
    BY <1>5 DEF Q!CreatesWorker, Q!Inspects
  <2>4. Q!Inventory(snapshot) \in built
    BY <1>5, <2>2, <2>3 DEF BuiltOK
  <2>. QED
    BY <1>5, <2>4 DEF Q!CreatesWorker, BuiltOK
<1>. QED
  BY <1>1, <1>2, <1>3, <1>4, <1>5, MostKeepSums DEF Q!Q4Next

---------------------------------------------------------------------------
(* Q4 releases: one conversion per release, while the tools do not meet *)

SameFiles == \A d \in Q!Dirs : dir'[d].expert = dir[d].expert /\ dir'[d].manifest = dir[d].manifest

\* The evaluation, the packager, the hub and the service.
LEMMA QuietStep ==
  ASSUME SameFiles, UNCHANGED <<converter, materialiser, conversions, mixed>>,
         packager' # Q!Off => packager # Q!Off \/ (converter = Q!Off /\ materialiser = Q!Off),
         AloneOK, ~mixed => CopiesOK
  PROVE  AloneOK' /\ (~mixed' => CopiesOK')
<1>1. dir'["source"].expert = dir["source"].expert /\ dir'["source"].manifest = dir["source"].manifest
      /\ dir'["output"].expert = dir["output"].expert /\ dir'["output"].manifest = dir["output"].manifest
  BY DEF SameFiles, Q!Dirs
<1>2. AloneOK'
  BY <1>1 DEF AloneOK, Q!Complete, Whole
<1>3. ASSUME CopiesOK PROVE CopiesOK'
  BY <1>1, <1>3 DEF CopiesOK, Whole
<1>. QED
  BY <1>2, <1>3

\* A field of a directory other than its shards and its manifest is written.
LEMMA SameByWrite ==
  ASSUME FilesOK, NEW d \in Q!Dirs, NEW f, Writes(d, f),
         f.expert = dir[d].expert, f.manifest = dir[d].manifest
  PROVE  SameFiles
  BY DEF FilesOK, Writes, SameFiles

\* The manifest of a directory is written, and nothing else.
LEMMA ManifestWritten ==
  ASSUME FilesOK, NEW d \in Q!Dirs, NEW m, Writes(d, [dir[d] EXCEPT !.manifest = m])
  PROVE  /\ dir'[d].manifest = m
         /\ \A e \in Q!Dirs : dir'[e].expert = dir[e].expert
         /\ \A e \in Q!Dirs \ {d} : dir'[e].manifest = dir[e].manifest
<1>1. [dir[d] EXCEPT !.manifest = m].manifest = m
      /\ [dir[d] EXCEPT !.manifest = m].expert = dir[d].expert
  BY Files DEF Checkpoints
<1>2. dir'[d] = [dir[d] EXCEPT !.manifest = m] /\ \A e \in Q!Dirs \ {d} : dir'[e] = dir[e]
  BY DEF FilesOK, Writes
<1>. QED
  BY <1>1, <1>2

\* A tool that starts alone finds the others at rest.
LEMMA StartsAlone ==
  ASSUME Q!Starts, ~together'
  PROVE  converter = Q!Off /\ materialiser = Q!Off /\ packager = Q!Off /\ ~together
  BY DEF Q!Starts, Q!Busy

\* The converter, alone: the shards it has written are of its conversion, and its manifest says
\* "converting" until all are.
LEMMA ConversionStep ==
  ASSUME FilesOK, ToolsOK, HeldOK, ~together',
         Q!BeginsConversion \/ Q!OpensShard \/ Q!FillsShard \/ Q!RecordsLayer \/ Q!EndsConversion \/ Q!ConverterDies
  PROVE  AloneOK' /\ (~mixed' => CopiesOK')
<1>0. ~together /\ AloneOK /\ (~mixed => CopiesOK)
  BY StartsAlone DEF HeldOK, Q!BeginsConversion, Q!OpensShard, Q!FillsShard, Q!RecordsLayer, Q!EndsConversion,
                     Q!ConverterDies
<1>1. "source" \in Q!Dirs /\ "output" \in Q!Dirs /\ "output" # "source"
  BY DEF Q!Dirs
<1>2. CASE Q!BeginsConversion
  <2>1. converter = Q!Off /\ materialiser = Q!Off /\ packager = Q!Off
    BY <1>2, StartsAlone DEF Q!BeginsConversion
  <2>2. Writes("source", [dir["source"] EXCEPT !.manifest = Q!Delta(0, "converting")])
    BY <1>2 DEF Q!BeginsConversion, Writes
  <2>3. /\ dir'["source"].manifest.state = "converting"
        /\ dir'["output"].expert = dir["output"].expert /\ dir'["output"].manifest = dir["output"].manifest
    BY <1>1, <2>2, DeltaTypes, ManifestWritten
  <2>4. conversions' >= 1 /\ materialiser' = Q!Off /\ packager' = Q!Off
        /\ converter' = [pc |-> "layer", next |-> 1] /\ mixed' = mixed
    BY <1>2, <2>1 DEF Q!BeginsConversion, FilesOK
  <2>5. AloneOK'
    BY <2>3, <2>4 DEF AloneOK, Q!Complete, Q!Shards
  <2>6. ASSUME ~mixed' PROVE CopiesOK'
    BY <1>0, <2>3, <2>4, <2>6 DEF CopiesOK, Whole
  <2>. QED
    BY <2>5, <2>6
<1>3. CASE Q!OpensShard \/ Q!FillsShard
  <2>1. converter # Q!Off /\ converter.next \in Q!Shards /\ converter.pc \in {"layer", "filled"}
    BY <1>3, Tools DEF Q!OpensShard, Q!FillsShard
  <2>2. materialiser = Q!Off /\ packager = Q!Off /\ conversions >= 1
        /\ dir["source"].manifest.state = "converting"
        /\ \A l \in Q!Shards : l < converter.next => dir["source"].expert[l] = conversions
    BY <1>0, <2>1 DEF AloneOK
  <2>3. \E content \in Q!Torn..MaxConversions :
          Q!WritesShard(content) /\ (Q!FillsShard => content = conversions)
    <3>1. conversions \in Q!Torn..MaxConversions /\ Q!Torn \in Q!Torn..MaxConversions
      BY Q4Assumption DEF FilesOK, Q!Torn
    <3>2. CASE Q!FillsShard
      BY <3>1, <3>2 DEF Q!FillsShard
    <3>3. CASE ~Q!FillsShard
      BY <1>3, <3>1, <3>3 DEF Q!OpensShard
    <3>. QED
      BY <3>2, <3>3
  <2>4. PICK content \in Q!Torn..MaxConversions :
          Q!WritesShard(content) /\ (Q!FillsShard => content = conversions)
    BY <2>3
  <2>5. /\ dir'["source"].manifest = dir["source"].manifest
        /\ dir'["output"].manifest = dir["output"].manifest
        /\ dir'["source"].expert = [dir["source"].expert EXCEPT ![converter.next] = content]
        /\ mixed => mixed'
        /\ ~mixed' => dir'["output"].expert = dir["output"].expert
    BY <1>1, <2>1, <2>4, ShardWritten
  <2>6. /\ converter'.next = converter.next
        /\ converter'.pc = IF Q!FillsShard THEN "record" ELSE "filled"
        /\ UNCHANGED <<materialiser, packager, conversions>>
    <3>1. converter.pc = "layer" => ~Q!FillsShard
      BY DEF Q!FillsShard
    <3>2. converter.pc = "filled" => ~Q!OpensShard
      BY DEF Q!OpensShard
    <3>3. \A v : [converter EXCEPT !.pc = v].next = converter.next /\ [converter EXCEPT !.pc = v].pc = v
      BY <2>1 DEF ToolsOK, Q!Off
    <3>. QED
      BY <1>3, <2>1, <3>1, <3>2, <3>3 DEF Q!OpensShard, Q!FillsShard
  <2>7. \A l \in Q!Shards : /\ l < converter.next => dir'["source"].expert[l] = conversions
                            /\ l = converter.next /\ Q!FillsShard => dir'["source"].expert[l] = conversions
    <3>1. dir["source"].expert \in Contents
      BY <1>1, Files
    <3>2. \A l \in Q!Shards : dir'["source"].expert[l]
                              = IF l = converter.next THEN content ELSE dir["source"].expert[l]
      BY <2>5, <3>1 DEF Contents
    <3>. QED
      BY <2>1, <2>2, <2>4, <3>2, Q4Assumption DEF Q!Shards
  <2>8. AloneOK'
    <3>1. ~Q!Complete(dir'["source"].manifest)
      BY <2>2, <2>5 DEF Q!Complete
    <3>. QED
      BY <2>2, <2>5, <2>6, <2>7, <3>1 DEF AloneOK
  <2>9. ASSUME ~mixed' PROVE CopiesOK'
    BY <1>0, <2>2, <2>5, <2>6, <2>9 DEF CopiesOK, Whole
  <2>. QED
    BY <2>8, <2>9
<1>4. CASE Q!RecordsLayer
  <2>1. converter # Q!Off /\ converter.next \in Q!Shards
    BY <1>4, Tools DEF Q!RecordsLayer
  <2>2. materialiser = Q!Off /\ packager = Q!Off /\ conversions >= 1
        /\ \A l \in Q!Shards : l < converter.next \/ l = converter.next
                               => dir["source"].expert[l] = conversions
    BY <1>0, <1>4, <2>1 DEF AloneOK, Q!RecordsLayer
  <2>3. Writes("source", [dir["source"] EXCEPT !.manifest = Q!Delta(converter.next, "converting")])
    BY <1>4 DEF Q!RecordsLayer, Writes
  <2>4. /\ dir'["source"].manifest.state = "converting"
        /\ dir'["source"].expert = dir["source"].expert
        /\ dir'["output"].expert = dir["output"].expert /\ dir'["output"].manifest = dir["output"].manifest
    BY <1>1, <2>3, DeltaTypes, ManifestWritten
  <2>5. /\ converter' = [pc |-> "layer", next |-> converter.next + 1]
        /\ UNCHANGED <<materialiser, packager, conversions, mixed>>
    BY <1>4 DEF Q!RecordsLayer
  <2>6. AloneOK'
    <3>1. ~Q!Complete(dir'["source"].manifest)
      BY <2>4 DEF Q!Complete
    <3>2. \A l \in Q!Shards : l < converter.next + 1 => dir'["source"].expert[l] = conversions
      BY <2>1, <2>2, <2>4 DEF Q!Shards
    <3>. QED
      BY <2>2, <2>4, <2>5, <3>1, <3>2 DEF AloneOK
  <2>7. ASSUME ~mixed' PROVE CopiesOK'
    BY <1>0, <2>2, <2>4, <2>5, <2>7 DEF CopiesOK, Whole
  <2>. QED
    BY <2>6, <2>7
<1>5. CASE Q!EndsConversion
  <2>1. converter # Q!Off /\ converter.next \in 1..(Layers + 1) /\ converter.next > Layers
    BY <1>5, Tools DEF Q!EndsConversion
  <2>2. materialiser = Q!Off /\ packager = Q!Off /\ conversions >= 1
        /\ \A l \in Q!Shards : l < converter.next => dir["source"].expert[l] = conversions
    BY <1>0, <2>1 DEF AloneOK
  <2>3. Writes("source", [dir["source"] EXCEPT !.manifest = Q!Delta(Layers, "complete")])
    BY <1>5 DEF Q!EndsConversion, Writes
  <2>4. /\ dir'["source"].expert = dir["source"].expert
        /\ dir'["output"].expert = dir["output"].expert /\ dir'["output"].manifest = dir["output"].manifest
    BY <1>1, <2>3, ManifestWritten
  <2>5. converter' = Q!Off /\ UNCHANGED <<materialiser, packager, conversions, mixed>>
    BY <1>5 DEF Q!EndsConversion
  <2>6. Whole(dir'["source"])
    <3>1. conversions \in 1..MaxConversions
      BY <2>2 DEF FilesOK
    <3>2. \A l \in Q!Shards : dir'["source"].expert[l] = conversions
      BY <2>1, <2>2, <2>4, Q4Assumption DEF Q!Shards
    <3>. QED
      BY <3>1, <3>2 DEF Whole
  <2>7. AloneOK'
    BY <2>2, <2>5, <2>6 DEF AloneOK
  <2>8. ASSUME ~mixed' PROVE CopiesOK'
    BY <1>0, <2>2, <2>4, <2>5, <2>8 DEF CopiesOK, Whole
  <2>. QED
    BY <2>7, <2>8
<1>6. CASE Q!ConverterDies
  <2>1. dir["source"].manifest.state = "converting" /\ materialiser = Q!Off /\ packager = Q!Off
    BY <1>0, <1>6 DEF AloneOK, Q!ConverterDies
  <2>2. AloneOK'
    BY <1>6, <2>1 DEF AloneOK, Q!ConverterDies, Q!Complete
  <2>3. ASSUME ~mixed' PROVE CopiesOK'
    BY <1>0, <1>6, <2>3 DEF CopiesOK, Whole, Q!ConverterDies
  <2>. QED
    BY <2>2, <2>3
<1>. QED
  BY <1>2, <1>3, <1>4, <1>5, <1>6

\* The materialiser, alone: its output is a copy of a whole source.
LEMMA MaterialisingStep ==
  ASSUME FilesOK, ToolsOK, HeldOK, ~together',
         \/ \E d \in Q!Dirs : Q!BeginsMaterialising(d)
         \/ \E link \in BOOLEAN : Q!CopiesShard(link)
         \/ Q!MovesRuntimeFiles \/ Q!MovesWeights \/ Q!EndsMaterialising \/ Q!MaterialiserDies
  PROVE  AloneOK' /\ (~mixed' => CopiesOK')
<1>0. ~together /\ AloneOK /\ (~mixed => CopiesOK)
  <2>1. ~together
    BY StartsAlone DEF Q!BeginsMaterialising, Q!CopiesShard, Q!MovesRuntimeFiles, Q!MovesWeights,
                       Q!EndsMaterialising, Q!MaterialiserDies, Q!MaterialiserStays
  <2>. QED
    BY <2>1 DEF HeldOK
<1>1. "source" \in Q!Dirs /\ "output" \in Q!Dirs /\ "output" # "source"
  BY DEF Q!Dirs
<1>2. ASSUME materialiser # Q!Off
      PROVE  converter = Q!Off /\ packager = Q!Off /\ Q!Complete(dir["source"].manifest) /\ Whole(dir["source"])
  BY <1>0, <1>2 DEF AloneOK
<1>3. ASSUME materialiser # Q!Off, SameFiles, UNCHANGED <<converter, packager, conversions>>
      PROVE  AloneOK'
  BY <1>1, <1>2, <1>3 DEF AloneOK, SameFiles, Whole
<1>4. ASSUME NEW d \in Q!Dirs, Q!BeginsMaterialising(d) PROVE AloneOK' /\ (~mixed' => CopiesOK')
  <2>1. converter = Q!Off /\ packager = Q!Off /\ Q!Complete(dir["source"].manifest) /\ dir' = dir
        /\ UNCHANGED <<converter, packager, conversions, mixed>>
    BY <1>4, StartsAlone DEF Q!BeginsMaterialising
  <2>2. AloneOK'
    BY <1>0, <2>1 DEF AloneOK, Whole
  <2>3. materialiser'.to = "output" => materialiser'.pc = "copy" /\ materialiser'.next = 1
    BY <1>1, <1>4 DEF Q!BeginsMaterialising
  <2>4. ASSUME ~mixed' PROVE CopiesOK'
    BY <1>0, <2>1, <2>3, <2>4 DEF CopiesOK, Whole, Q!Shards
  <2>. QED
    BY <2>2, <2>4
<1>5. ASSUME NEW link \in BOOLEAN, Q!CopiesShard(link) PROVE AloneOK' /\ (~mixed' => CopiesOK')
  <2>. DEFINE l == materialiser.next
              from == dir["source"].expert[l]
              out == dir["output"].expert
  <2>1. /\ materialiser \in [pc : {"copy"}, to : {"output"}, next : Q!Shards, manifest : Deltas,
                             run : 1..MaxMaterialised]
        /\ l \in Q!Shards /\ materialiser # Q!Off /\ materialiser.to = "output"
    BY <1>5, Tools DEF Q!CopiesShard, Q!Off
  <2>2. UNCHANGED <<converter, packager, conversions>>
    BY <1>5 DEF Q!CopiesShard, Q!MaterialiserStays
  <2>3. \/ out[l] # Q!Absent /\ dir' = dir /\ mixed' = (mixed \/ from # out[l])
           /\ (Q!NextShard \/ materialiser' = Q!Off)
        \/ out[l] = Q!Absent /\ dir' = [dir EXCEPT !["output"].expert[l] = from] /\ mixed' = mixed /\ Q!NextShard
    BY <1>5 DEF Q!CopiesShard
  <2>4. Q!NextShard => materialiser'.next = l + 1 /\ materialiser'.to = "output"
                       /\ materialiser'.pc = IF l = Layers THEN "runtime" ELSE "copy"
    BY <2>1 DEF Q!NextShard
  <2>5. CASE dir' = dir /\ mixed' = (mixed \/ from # out[l]) /\ (Q!NextShard \/ materialiser' = Q!Off)
    <3>1. AloneOK'
      BY <1>3, <2>1, <2>2, <2>5 DEF SameFiles
    <3>2. ASSUME ~mixed' PROVE CopiesOK'
      <4>1. CopiesOK /\ out[l] = from
        BY <1>0, <2>5, <3>2
      <4>2. \A k \in Q!Shards : k < l + 1 => out[k] = dir["source"].expert[k]
        BY <1>5, <2>1, <4>1 DEF CopiesOK, Q!CopiesShard, Q!Shards
      <4>3. \A k \in Q!Shards : k < Layers + 1
        BY Q4Assumption DEF Q!Shards
      <4>. QED
        BY <2>4, <2>5, <4>1, <4>2, <4>3 DEF CopiesOK, Whole
    <3>. QED
      BY <3>1, <3>2
  <2>6. CASE out[l] = Q!Absent /\ dir' = [dir EXCEPT !["output"].expert[l] = from] /\ mixed' = mixed /\ Q!NextShard
    <3>. DEFINE f == [dir["output"] EXCEPT !.expert = [out EXCEPT ![l] = from]]
    <3>1. dir'["output"] = f /\ dir'["source"] = dir["source"]
      BY <1>1, <2>6 DEF FilesOK
    <3>2. f.manifest = dir["output"].manifest /\ f.expert = [out EXCEPT ![l] = from]
      BY <1>1, Files DEF Checkpoints
    <3>3. \A k \in Q!Shards : dir'["output"].expert[k] = IF k = l THEN from ELSE out[k]
      <4>1. out \in Contents
        BY <1>1, Files
      <4>. QED
        BY <3>1, <3>2, <4>1 DEF Contents
    <3>4. AloneOK'
      BY <1>2, <2>1, <2>2, <3>1 DEF AloneOK
    <3>5. ASSUME ~mixed' PROVE CopiesOK'
      <4>1. CopiesOK
        BY <1>0, <2>6, <3>5
      <4>2. \A k \in Q!Shards : k < l + 1 => dir'["output"].expert[k] = dir'["source"].expert[k]
        BY <1>5, <2>1, <3>1, <3>3, <4>1 DEF CopiesOK, Q!CopiesShard, Q!Shards
      <4>3. \A k \in Q!Shards : k < Layers + 1
        BY Q4Assumption DEF Q!Shards
      <4>4. dir'["output"].manifest = None
        <5>1. ~Whole(dir["output"])
          BY <2>1, <2>6 DEF Whole, Q!Absent
        <5>. QED
          BY <3>1, <3>2, <4>1, <5>1 DEF CopiesOK
      <4>. QED
        BY <2>4, <2>6, <4>2, <4>3, <4>4 DEF CopiesOK
    <3>. QED
      BY <3>4, <3>5
  <2>. QED
    BY <2>3, <2>5, <2>6
<1>6. CASE Q!MovesRuntimeFiles \/ Q!MovesWeights
  <2>1. /\ materialiser \in [pc : {"runtime", "weights", "manifest"}, to : Q!Dirs, next : 1..(Layers + 1),
                             manifest : Deltas, run : 1..MaxMaterialised]
        /\ materialiser # Q!Off
    BY <1>6, Tools DEF Q!MovesRuntimeFiles, Q!MovesWeights
  <2>2. SameFiles
    <3>. DEFINE d == materialiser.to
    <3>1. d \in Q!Dirs
      BY <2>1
    <3>2. \A x : /\ [dir[d] EXCEPT !.runtime = x].expert = dir[d].expert
                 /\ [dir[d] EXCEPT !.runtime = x].manifest = dir[d].manifest
                 /\ [dir[d] EXCEPT !.weights = x].expert = dir[d].expert
                 /\ [dir[d] EXCEPT !.weights = x].manifest = dir[d].manifest
      BY <3>1, Files DEF Checkpoints
    <3>3. \E x : Writes(d, [dir[d] EXCEPT !.runtime = x]) \/ Writes(d, [dir[d] EXCEPT !.weights = x])
      BY <1>6 DEF Q!MovesRuntimeFiles, Q!MovesWeights, Writes
    <3>. HIDE DEF d
    <3>. QED
      BY <3>1, <3>2, <3>3, SameByWrite
  <2>3. UNCHANGED <<converter, packager, conversions, mixed>>
    BY <1>6 DEF Q!MovesRuntimeFiles, Q!MovesWeights, Q!MaterialiserStays
  <2>4. AloneOK'
    BY <1>3, <2>1, <2>2, <2>3
  <2>5. materialiser'.to = materialiser.to
    BY <1>6, <2>1 DEF Q!MovesRuntimeFiles, Q!MovesWeights
  <2>6. ASSUME ~mixed' PROVE CopiesOK'
    BY <1>0, <1>1, <2>1, <2>2, <2>3, <2>5, <2>6 DEF CopiesOK, SameFiles, Whole
  <2>. QED
    BY <2>4, <2>6
<1>7. CASE Q!EndsMaterialising
  <2>. DEFINE d == materialiser.to
  <2>1. materialiser # Q!Off /\ d \in Q!Dirs /\ materialiser.pc = "manifest"
    BY <1>7, Tools DEF Q!EndsMaterialising
  <2>2. \E m : Writes(d, [dir[d] EXCEPT !.manifest = m])
    BY <1>7 DEF Q!EndsMaterialising, Writes
  <2>3. /\ \A e \in Q!Dirs : dir'[e].expert = dir[e].expert
        /\ \A e \in Q!Dirs \ {d} : dir'[e].manifest = dir[e].manifest
    BY <2>1, <2>2, ManifestWritten
  <2>4. materialiser' = Q!Off /\ UNCHANGED <<converter, packager, conversions, mixed>>
    BY <1>7 DEF Q!EndsMaterialising, Q!MaterialiserStays
  <2>5. Whole(dir'["source"])
    BY <1>1, <1>2, <2>1, <2>3 DEF Whole
  <2>6. AloneOK'
    BY <1>2, <2>1, <2>4, <2>5 DEF AloneOK
  <2>7. ASSUME ~mixed' PROVE CopiesOK'
    <3>1. CASE d = "output"
      <4>1. \A l \in Q!Shards : dir["output"].expert[l] = dir["source"].expert[l]
        BY <1>0, <2>1, <2>4, <2>7, <3>1 DEF CopiesOK
      <4>2. Whole(dir'["output"])
        BY <1>1, <1>2, <2>1, <2>3, <4>1 DEF Whole
      <4>. QED
        BY <2>4, <4>2 DEF CopiesOK
    <3>2. CASE d # "output"
      BY <1>0, <1>1, <2>3, <2>4, <2>7, <3>2 DEF CopiesOK, Whole
    <3>. QED
      BY <3>1, <3>2
  <2>. QED
    BY <2>6, <2>7
<1>8. CASE Q!MaterialiserDies
  <2>1. materialiser # Q!Off /\ materialiser' = Q!Off /\ UNCHANGED <<converter, packager, conversions, mixed>>
    BY <1>8 DEF Q!MaterialiserDies, Q!MaterialiserStays
  <2>2. CASE dir' = dir
    <3>1. AloneOK'
      BY <1>3, <2>1, <2>2 DEF SameFiles
    <3>2. ASSUME ~mixed' PROVE CopiesOK'
      BY <1>0, <2>1, <2>2, <3>2 DEF CopiesOK, Whole
    <3>. QED
      BY <3>1, <3>2
  <2>3. CASE /\ materialiser.pc = "copy" /\ dir["output"].expert[materialiser.next] = Q!Absent
             /\ dir' = [dir EXCEPT !["output"].expert[materialiser.next] = Q!Torn]
    <3>. DEFINE f == [dir["output"] EXCEPT !.expert = [dir["output"].expert EXCEPT ![materialiser.next] = Q!Torn]]
    <3>1. dir'["output"] = f /\ dir'["source"] = dir["source"]
      BY <1>1, <2>3 DEF FilesOK
    <3>2. f.manifest = dir["output"].manifest
      BY <1>1, Files DEF Checkpoints
    <3>3. AloneOK'
      BY <1>2, <2>1, <3>1 DEF AloneOK
    <3>4. ASSUME ~mixed' PROVE CopiesOK'
      <4>1. materialiser.next \in Q!Shards
        BY <2>3, Tools
      <4>2. ~Whole(dir["output"])
        BY <2>3, <4>1 DEF Whole, Q!Absent
      <4>3. dir'["output"].manifest = None
        BY <1>0, <2>1, <3>1, <3>2, <3>4, <4>2 DEF CopiesOK
      <4>. QED
        BY <2>1, <4>3 DEF CopiesOK
    <3>. QED
      BY <3>3, <3>4
  <2>. QED
    BY <1>8, <2>2, <2>3 DEF Q!MaterialiserDies
<1>. QED
  BY <1>4, <1>5, <1>6, <1>7, <1>8

\* Evaluation, packaging and publication, alone: they leave the shards.
LEMMA PackagingStep ==
  ASSUME FilesOK, ToolsOK, HeldOK, ~together',
         \/ Q!BeginsEvaluation \/ Q!EndsEvaluation
         \/ \E d \in Q!Dirs : Q!BeginsPackaging(d)
         \/ Q!HashesFiles \/ Q!WritesRelease \/ Q!WritesSums \/ Q!PackagerDies
         \/ Q!Publishes \/ \E snapshot : Q!CreatesWorker(snapshot)
  PROVE  AloneOK' /\ (~mixed' => CopiesOK')
<1>. DEFINE Keeps == /\ SameFiles /\ UNCHANGED <<converter, materialiser, conversions, mixed>>
                     /\ packager' # Q!Off => packager # Q!Off \/ (converter = Q!Off /\ materialiser = Q!Off)
                     /\ ~together
<1>0. \A d \in Q!Dirs : \A x : /\ [dir[d] EXCEPT !.report = x].expert = dir[d].expert
                               /\ [dir[d] EXCEPT !.report = x].manifest = dir[d].manifest
                               /\ [dir[d] EXCEPT !.release = x].expert = dir[d].expert
                               /\ [dir[d] EXCEPT !.release = x].manifest = dir[d].manifest
                               /\ [dir[d] EXCEPT !.sums = x].expert = dir[d].expert
                               /\ [dir[d] EXCEPT !.sums = x].manifest = dir[d].manifest
  BY Files DEF Checkpoints
<1>1. CASE \/ Q!BeginsEvaluation \/ Q!EndsEvaluation \/ Q!PackagerDies \/ Q!Publishes
           \/ \E snapshot : Q!CreatesWorker(snapshot)
  <2>1. Keeps
    BY <1>1 DEF Q!BeginsEvaluation, Q!EndsEvaluation, Q!PackagerDies, Q!PackagerStays, Q!Publishes, Q!CreatesWorker,
                SameFiles
  <2>. QED
    BY <2>1, QuietStep DEF HeldOK
<1>2. CASE Q!HashesFiles
  <2>1. Keeps
    BY <1>2, Tools DEF Q!HashesFiles, Q!PackagerStays, SameFiles
  <2>. QED
    BY <2>1, QuietStep DEF HeldOK
<1>3. ASSUME NEW d \in Q!Dirs, Q!BeginsPackaging(d) PROVE AloneOK' /\ (~mixed' => CopiesOK')
  <2>1. Writes(d, [dir[d] EXCEPT !.report = report])
    BY <1>3 DEF Q!BeginsPackaging, Writes
  <2>2. SameFiles
    BY <1>0, <2>1, SameByWrite
  <2>3. Keeps
    BY <1>3, <2>2, StartsAlone DEF Q!BeginsPackaging, Q!PackagerStays
  <2>. QED
    BY <2>3, QuietStep DEF HeldOK
<1>4. CASE Q!WritesRelease \/ Q!WritesSums
  <2>1. packager # Q!Off /\ packager.of \in Q!Dirs
    BY <1>4, Tools DEF Q!WritesRelease, Q!WritesSums
  <2>2. \E x : \/ Writes(packager.of, [dir[packager.of] EXCEPT !.release = x])
               \/ Writes(packager.of, [dir[packager.of] EXCEPT !.sums = x])
    BY <1>4 DEF Q!WritesRelease, Q!WritesSums, Writes
  <2>3. SameFiles
    BY <1>0, <2>1, <2>2, SameByWrite
  <2>4. Keeps
    BY <1>4, <2>1, <2>3 DEF Q!WritesRelease, Q!WritesSums, Q!PackagerStays
  <2>. QED
    BY <2>4, QuietStep DEF HeldOK
<1>. QED
  BY <1>1, <1>2, <1>3, <1>4

---------------------------------------------------------------------------
(* Q4 releases: the invariant *)

LEMMA Q4Start == Q!Q4Init => Q4Inv
<1>. SUFFICES ASSUME Q!Q4Init PROVE Q4Inv
  OBVIOUS
<1>1. Q!EmptyDir \in Checkpoints
  BY Q4Assumption DEF Q!EmptyDir, Checkpoints, Contents, Q!Absent, Q!Torn
<1>2. \A d \in Q!Dirs : dir[d] = Q!EmptyDir
  BY DEF Q!Q4Init
<1>3. Q!EmptyDir.sums = None /\ Q!EmptyDir.manifest = None
  BY DEF Q!EmptyDir
<1>4. FilesOK
  <2>1. dir \in [Q!Dirs -> Checkpoints]
    BY <1>1 DEF Q!Q4Init
  <2>2. conversions \in 0..MaxConversions /\ materialised \in 0..MaxMaterialised /\ builds \in Nat
    BY Q4Assumption DEF Q!Q4Init
  <2>3. mixed \in BOOLEAN /\ together \in BOOLEAN /\ linked \subseteq Q!Shards
    BY DEF Q!Q4Init
  <2>4. report \in Q!Results \cup {"torn", None} /\ published \in Checkpoints \cup {None}
    BY DEF Q!Q4Init
  <2>. QED
    BY <2>1, <2>2, <2>3, <2>4 DEF FilesOK
<1>5. ToolsOK
  BY DEF Q!Q4Init, ToolsOK
<1>6. BuiltOK
  BY <1>2, <1>3 DEF Q!Q4Init, BuiltOK, Q!Off
<1>7. HeldOK
  <2>1. AloneOK
    BY <1>2, <1>3 DEF Q!Q4Init, AloneOK, Q!Complete, Q!Dirs
  <2>2. CopiesOK
    BY <1>2, <1>3 DEF Q!Q4Init, CopiesOK, Q!Dirs
  <2>. QED
    BY <2>1, <2>2 DEF HeldOK
<1>. QED
  BY <1>4, <1>5, <1>6, <1>7 DEF Q4Inv

LEMMA Q4Preserved == Q4Inv /\ [Q!Q4Next]_(Q!q4Vars) => Q4Inv'
<1>. SUFFICES ASSUME Q4Inv, [Q!Q4Next]_(Q!q4Vars) PROVE Q4Inv'
  OBVIOUS
<1>0. FilesOK /\ ToolsOK /\ BuiltOK /\ HeldOK
  BY DEF Q4Inv
<1>1. CASE Q!Q4Next
  <2>1. \/ Q!BeginsConversion \/ Q!OpensShard \/ Q!FillsShard \/ Q!RecordsLayer \/ Q!EndsConversion \/ Q!ConverterDies
        \/ \/ \E d \in Q!Dirs : Q!BeginsMaterialising(d)
           \/ \E link \in BOOLEAN : Q!CopiesShard(link)
           \/ Q!MovesRuntimeFiles \/ Q!MovesWeights \/ Q!EndsMaterialising \/ Q!MaterialiserDies
        \/ \/ Q!BeginsEvaluation \/ Q!EndsEvaluation
           \/ \E d \in Q!Dirs : Q!BeginsPackaging(d)
           \/ Q!HashesFiles \/ Q!WritesRelease \/ Q!WritesSums \/ Q!PackagerDies
           \/ Q!Publishes \/ \E snapshot : Q!CreatesWorker(snapshot)
    BY <1>1 DEF Q!Q4Next
  <2>2. FilesOK' /\ ToolsOK'
    BY <1>0, <2>1, ConversionTypes, MaterialisingTypes, PackagingTypes
  <2>3. BuiltOK'
    BY <1>0, <1>1, BuiltStep
  <2>4. HeldOK'
    BY <1>0, <2>1, ConversionStep, MaterialisingStep, PackagingStep DEF HeldOK
  <2>. QED
    BY <2>2, <2>3, <2>4 DEF Q4Inv
<1>2. CASE UNCHANGED Q!q4Vars
  <2>1. FilesOK' /\ ToolsOK'
    BY <1>0, <1>2 DEF Q!q4Vars, FilesOK, ToolsOK
  <2>2. BuiltOK'
    BY <1>0, <1>2 DEF Q!q4Vars, BuiltOK, Q!Inventory
  <2>3. HeldOK'
    BY <1>0, <1>2 DEF Q!q4Vars, HeldOK, AloneOK, CopiesOK, Q!Complete, Whole
  <2>. QED
    BY <2>1, <2>2, <2>3 DEF Q4Inv
<1>. QED
  BY <1>1, <1>2

LEMMA Q4Holds == Q4Inv => Q!Q4TypesOK /\ Q!VerifiedWasBuilt /\ Q!AcceptedIsOneConversion /\ Q!WorkerHasARelease
<1>. SUFFICES ASSUME Q4Inv PROVE Q!Q4TypesOK /\ Q!VerifiedWasBuilt /\ Q!AcceptedIsOneConversion /\ Q!WorkerHasARelease
  OBVIOUS
<1>0. FilesOK /\ ToolsOK /\ BuiltOK /\ HeldOK
  BY DEF Q4Inv
<1>1. Q!Q4TypesOK
  BY <1>0 DEF FilesOK, Q!Q4TypesOK, Checkpoints, Contents
<1>2. Q!VerifiedWasBuilt
  BY <1>0 DEF Q!VerifiedWasBuilt, Q!Verifies, BuiltOK
<1>3. Q!AcceptedIsOneConversion
  <2>1. 1 \in Q!Shards
    BY Q4Assumption DEF Q!Shards
  <2>2. \A d \in Q!Dirs : Whole(dir[d]) => Q!OneConversion(dir[d])
    BY <2>1 DEF Whole, Q!OneConversion
  <2>3. \A d \in Q!Dirs : Q!Valid(dir[d]) => Q!Complete(dir[d].manifest) /\ dir[d].manifest # None
    BY DEF Q!Valid, Q!Complete
  <2>. QED
    BY <1>0, <2>2, <2>3 DEF Q!AcceptedIsOneConversion, HeldOK, AloneOK, CopiesOK, Q!Dirs
<1>4. Q!WorkerHasARelease
  BY <1>0 DEF Q!WorkerHasARelease, BuiltOK
<1>. QED
  BY <1>1, <1>2, <1>3, <1>4

---------------------------------------------------------------------------
(* Trials: the main thread, its journal and the Workers *)

Before == {"row", "unload", "unloading", "cool", "start", "starting", "attest", "record", "clear", "load"}
After == {"finally", "close", "ended", "killed"}
PCs == Before \cup {"answer", "judge", "check"} \cup After

TrialTypes ==
    /\ path \in {"worker", "direct"}
    /\ main \in [pc : PCs, row : 1..(Len(Schedule) + 1), status : {None, "success", "failure"}]
    /\ current \in T!Workers \cup {None} /\ block \in T!Workers \cup {None}
    /\ running \subseteq T!Workers /\ stops \subseteq T!Workers
    /\ start \in {None, "queued", "launching"}
    /\ monitor \in [T!Monitors -> {"watching", "aborting", "stopping", "done"}]
    /\ aborted \in BOOLEAN /\ cancelled \in BOOLEAN /\ exiting \in BOOLEAN /\ failed \in BOOLEAN
    /\ journal \in [T!Rows -> T!Written]
    /\ late \subseteq T!Rows /\ lost \subseteq T!Rows /\ overtaken \in BOOLEAN

\* What the main thread's position says of the request it is at.
PlaceOK ==
    /\ main.pc \in {"unload", "unloading", "start", "starting", "attest", "record", "clear", "answer",
                    "judge", "check"} => T!Row \in T!Rows
    /\ main.pc = "cool" /\ path = "worker" => T!Row \in T!Rows /\ current # None
    /\ main.pc \in {"start", "starting"} => current # None
    /\ main.pc \in {"judge", "check"} => main.status # None
    /\ path = "direct" => main.pc \notin {"unload", "unloading", "start", "starting", "attest"} /\ current = None
    /\ path = "worker" => main.pc \notin {"clear", "load"} /\ ~cancelled

\* Requests before the present one were answered, later ones were not begun.
JournalOK ==
    /\ \A r \in T!Rows : /\ r < T!Row => journal[r] \in {"success", "failure"}
                         /\ r > T!Row => journal[r] = "not_started"
                         /\ r = T!Row /\ main.pc \in Before => journal[r] = "not_started"
                         /\ r = T!Row /\ main.pc \in {"answer", "judge"} => journal[r] = "interrupted"
                         /\ r = T!Row /\ main.pc = "check" =>
                              \/ journal[r] \in {"success", "failure"}
                              \/ journal[r] = "abort" /\ (aborted \/ cancelled)

\* An attempt that started late is the last one, and the event its status looks at is set, unless
\* clear() has taken it back.
LateOK ==
    /\ \A r \in late : /\ r = T!Row /\ aborted /\ main.pc \notin Before
                       /\ journal[r] = "success" => path = "direct" /\ r \in lost
    /\ path = "direct" /\ aborted =>
        /\ main.pc = "clear" => cancelled
        /\ main.pc \in {"record", "answer", "judge"} => cancelled \/ T!Row \in lost

\* The only Worker that runs, or that a request may still launch, is the current one, and after the
\* main thread's own stop was answered it is stopped, unless that stop overtook its start.
Stopped == running = {} /\ start = None
WorkersOK ==
    /\ running \subseteq {current}
    /\ start # None => current # None /\ main.pc \in {"starting"} \cup After
    /\ main.pc = "unloading" => current \in stops \/ Stopped
    /\ main.pc = "close" => current \in stops \/ Stopped \/ overtaken
    /\ main.pc = "ended" /\ ~failed => Stopped \/ overtaken

TrialInv == TrialTypes /\ PlaceOK /\ JournalOK /\ LateOK /\ WorkersOK

LEMMA TrialPreserved == TrialInv /\ [T!TrialNext]_(T!trialVars) => TrialInv'
<1>. SUFFICES ASSUME TrialInv, [T!TrialNext]_(T!trialVars) PROVE TrialInv'
  OBVIOUS
<1>0. TrialTypes /\ PlaceOK /\ JournalOK /\ LateOK /\ WorkersOK
  BY DEF TrialInv
<1>. USE <1>0
<1>a. Len(Schedule) \in Nat /\ \A r \in T!Rows : Schedule[r] \in T!Workers
  BY TrialAssumption DEF T!Rows, T!Workers

<1>1. ASSUME NEW w \in T!Workers, T!HandlesStop(w) PROVE TrialInv'
  <2>1. TrialTypes'
    BY <1>1 DEF T!HandlesStop, T!EngineVars, T!Evidence, TrialTypes, T!Rows, T!Written, PCs, Before, After,
       PlaceOK, T!Row
  <2>2. PlaceOK'
    BY <1>1 DEF T!HandlesStop, T!EngineVars, T!Evidence, TrialTypes, T!Rows, PlaceOK, T!Row
  <2>3. JournalOK'
    BY <1>1 DEF T!HandlesStop, T!EngineVars, T!Evidence, TrialTypes, T!Rows, JournalOK, T!Row, Before, PlaceOK
  <2>4. LateOK'
    BY <1>1 DEF T!HandlesStop, T!EngineVars, T!Evidence, TrialTypes, T!Rows, LateOK, T!Row, Before, PlaceOK,
       JournalOK
  <2>5. WorkersOK'
    <3>1. UNCHANGED <<main, current, start, failed>> /\ running' \subseteq running /\ stops' = stops \ {w}
      BY <1>1 DEF T!HandlesStop
    <3>2. overtaken' = (overtaken \/ (main.pc = "close" /\ w = current /\ start = "queued"))
      BY <1>1 DEF T!HandlesStop, T!At
    <3>3. CASE w # current
      BY <3>1, <3>2, <3>3 DEF WorkersOK, Stopped, After, TrialTypes
    <3>4. CASE w = current
      <4>1. running' = {} /\ start \in {None, "queued"}
        BY <1>1, <3>4 DEF T!HandlesStop, WorkersOK, TrialTypes
      <4>. QED
        BY <3>1, <3>2, <3>4, <4>1 DEF WorkersOK, Stopped, After, TrialTypes
    <3>. QED
      BY <3>3, <3>4
  <2>. QED
    BY <2>1, <2>2, <2>3, <2>4, <2>5 DEF TrialInv
<1>2. CASE T!Locks
  <2>1. TrialTypes'
    BY <1>2, TrialAssumption DEF T!Locks, T!EngineVars, T!Evidence, TrialTypes, T!Rows, T!Written, PCs, Before,
       After, PlaceOK, T!Row
  <2>2. PlaceOK'
    BY <1>2, TrialAssumption DEF T!Locks, T!EngineVars, T!Evidence, TrialTypes, T!Rows, PlaceOK, T!Row
  <2>3. JournalOK'
    BY <1>2, TrialAssumption DEF T!Locks, T!EngineVars, T!Evidence, TrialTypes, T!Rows, JournalOK, T!Row, Before,
       PlaceOK
  <2>4. LateOK'
    BY <1>2, TrialAssumption DEF T!Locks, T!EngineVars, T!Evidence, TrialTypes, T!Rows, LateOK, T!Row, Before,
       PlaceOK, JournalOK
  <2>5. WorkersOK'
    BY <1>2, TrialAssumption DEF T!Locks, T!EngineVars, T!Evidence, TrialTypes, T!Rows, WorkersOK, Stopped,
       After
  <2>. QED
    BY <2>1, <2>2, <2>3, <2>4, <2>5 DEF TrialInv
<1>3. CASE T!Launches
  <2>1. TrialTypes'
    <3>1. current \in T!Workers /\ running' \subseteq T!Workers
      BY <1>a, <1>3, TrialAssumption DEF T!Launches, TrialTypes, WorkersOK
    <3>. QED
      BY <1>3, <3>1 DEF T!Launches, TrialTypes, T!EngineVars, T!Evidence
  <2>2. PlaceOK'
    BY <1>3, TrialAssumption DEF T!Launches, T!EngineVars, T!Evidence, TrialTypes, T!Rows, PlaceOK, T!Row
  <2>3. JournalOK'
    BY <1>3, TrialAssumption DEF T!Launches, T!EngineVars, T!Evidence, TrialTypes, T!Rows, JournalOK, T!Row,
       Before, PlaceOK
  <2>4. LateOK'
    BY <1>3, TrialAssumption DEF T!Launches, T!EngineVars, T!Evidence, TrialTypes, T!Rows, LateOK, T!Row, Before,
       PlaceOK, JournalOK
  <2>5. WorkersOK'
    BY <1>3, TrialAssumption DEF T!Launches, T!EngineVars, T!Evidence, TrialTypes, T!Rows, WorkersOK, Stopped,
       After
  <2>. QED
    BY <2>1, <2>2, <2>3, <2>4, <2>5 DEF TrialInv
<1>4. ASSUME NEW t \in T!Monitors, T!Detects(t) PROVE TrialInv'
  <2>1. TrialTypes'
    BY <1>4 DEF T!Detects, T!Alive, T!Host, T!EngineVars, T!Evidence, TrialTypes, T!Rows, T!Written, PCs, Before,
       After, PlaceOK, T!Row
  <2>2. PlaceOK'
    BY <1>4 DEF T!Detects, T!Alive, T!Host, T!EngineVars, T!Evidence, TrialTypes, T!Rows, PlaceOK, T!Row
  <2>3. JournalOK'
    BY <1>4 DEF T!Detects, T!Alive, T!Host, T!EngineVars, T!Evidence, TrialTypes, T!Rows, JournalOK, T!Row, Before,
       PlaceOK
  <2>4. LateOK'
    BY <1>4 DEF T!Detects, T!Alive, T!Host, T!EngineVars, T!Evidence, TrialTypes, T!Rows, LateOK, T!Row, Before,
       PlaceOK, JournalOK
  <2>5. WorkersOK'
    BY <1>4 DEF T!Detects, T!Alive, T!Host, T!EngineVars, T!Evidence, TrialTypes, T!Rows, WorkersOK, Stopped, After
  <2>. QED
    BY <2>1, <2>2, <2>3, <2>4, <2>5 DEF TrialInv
<1>5. ASSUME NEW t \in T!Monitors, T!Aborts(t) PROVE TrialInv'
  <2>1. TrialTypes'
    BY <1>5 DEF T!Aborts, T!Alive, T!Host, T!Evidence, TrialTypes, T!Rows, T!Written, PCs, Before, After, PlaceOK,
       T!Row
  <2>2. PlaceOK'
    BY <1>5 DEF T!Aborts, T!Alive, T!Host, T!Evidence, TrialTypes, T!Rows, PlaceOK, T!Row
  <2>3. JournalOK'
    BY <1>5 DEF T!Aborts, T!Alive, T!Host, T!Evidence, TrialTypes, T!Rows, JournalOK, T!Row, Before, PlaceOK
  <2>4. LateOK'
    BY <1>5 DEF T!Aborts, T!Alive, T!Host, T!Evidence, TrialTypes, T!Rows, LateOK, T!Row, Before, PlaceOK,
       JournalOK
  <2>5. WorkersOK'
    BY <1>5 DEF T!Aborts, T!Alive, T!Host, T!Evidence, TrialTypes, T!Rows, WorkersOK, Stopped, After
  <2>. QED
    BY <2>1, <2>2, <2>3, <2>4, <2>5 DEF TrialInv
<1>6. ASSUME NEW t \in T!Monitors, T!StopsCurrent(t) PROVE TrialInv'
  <2>1. TrialTypes'
    BY <1>6 DEF T!StopsCurrent, T!Alive, T!EngineVars, T!Evidence, TrialTypes, T!Rows, T!Written, PCs, Before,
       After, PlaceOK, T!Row
  <2>2. PlaceOK'
    BY <1>6 DEF T!StopsCurrent, T!Alive, T!EngineVars, T!Evidence, TrialTypes, T!Rows, PlaceOK, T!Row
  <2>3. JournalOK'
    BY <1>6 DEF T!StopsCurrent, T!Alive, T!EngineVars, T!Evidence, TrialTypes, T!Rows, JournalOK, T!Row, Before,
       PlaceOK
  <2>4. LateOK'
    BY <1>6 DEF T!StopsCurrent, T!Alive, T!EngineVars, T!Evidence, TrialTypes, T!Rows, LateOK, T!Row, Before,
       PlaceOK, JournalOK
  <2>5. WorkersOK'
    BY <1>6 DEF T!StopsCurrent, T!Alive, T!EngineVars, T!Evidence, TrialTypes, T!Rows, WorkersOK, Stopped, After
  <2>. QED
    BY <2>1, <2>2, <2>3, <2>4, <2>5 DEF TrialInv
<1>7. CASE T!Raises
  <2>1. TrialTypes'
    BY <1>7 DEF T!Raises, T!At, T!Goes, T!MainStays, T!Evidence, T!EngineVars, TrialTypes, T!Rows, T!Written, PCs,
       Before, After, PlaceOK, T!Row
  <2>2. PlaceOK'
    BY <1>7 DEF T!Raises, T!At, T!Goes, T!MainStays, T!Evidence, T!EngineVars, TrialTypes, T!Rows, PlaceOK, T!Row
  <2>3. JournalOK'
    BY <1>7 DEF T!Raises, T!At, T!Goes, T!MainStays, T!Evidence, T!EngineVars, TrialTypes, T!Rows, JournalOK, T!Row,
       Before, PlaceOK
  <2>4. LateOK'
    BY <1>7 DEF T!Raises, T!At, T!Goes, T!MainStays, T!Evidence, T!EngineVars, TrialTypes, T!Rows, LateOK, T!Row,
       Before, PlaceOK, JournalOK
  <2>5. WorkersOK'
    BY <1>7 DEF T!Raises, T!At, T!Goes, T!MainStays, T!Evidence, T!EngineVars, TrialTypes, T!Rows, WorkersOK,
       Stopped, After
  <2>. QED
    BY <2>1, <2>2, <2>3, <2>4, <2>5 DEF TrialInv
<1>8. CASE T!NextRow
  <2>1. TrialTypes'
    BY <1>a, <1>8 DEF T!NextRow, T!At, T!Goes, T!Row, T!MainStays, T!Evidence, T!EngineVars, TrialTypes, T!Rows,
       T!Written, PCs, Before, After, PlaceOK
  <2>2. PlaceOK'
    BY <1>a, <1>8 DEF T!NextRow, T!At, T!Goes, T!Row, T!MainStays, T!Evidence, T!EngineVars, TrialTypes, T!Rows,
       PlaceOK
  <2>3. JournalOK'
    BY <1>a, <1>8 DEF T!NextRow, T!At, T!Goes, T!Row, T!MainStays, T!Evidence, T!EngineVars, TrialTypes, T!Rows,
       JournalOK, Before, PlaceOK
  <2>4. LateOK'
    BY <1>a, <1>8 DEF T!NextRow, T!At, T!Goes, T!Row, T!MainStays, T!Evidence, T!EngineVars, TrialTypes, T!Rows,
       LateOK, Before, PlaceOK, JournalOK
  <2>5. WorkersOK'
    BY <1>8 DEF T!NextRow, T!At, T!Goes, T!Row, T!MainStays, T!Evidence, T!EngineVars, TrialTypes, T!Rows, WorkersOK,
       Stopped, After
  <2>. QED
    BY <2>1, <2>2, <2>3, <2>4, <2>5 DEF TrialInv
<1>9. CASE T!Unload
  <2>1. TrialTypes'
    BY <1>9, TrialAssumption DEF T!Unload, T!At, T!Goes, T!MainStays, T!Evidence, T!EngineVars, TrialTypes, T!Rows,
       T!Written, PCs, Before, After, PlaceOK, T!Row
  <2>2. PlaceOK'
    BY <1>9, TrialAssumption DEF T!Unload, T!At, T!Goes, T!MainStays, T!Evidence, T!EngineVars, TrialTypes, T!Rows,
       PlaceOK, T!Row
  <2>3. JournalOK'
    BY <1>9, TrialAssumption DEF T!Unload, T!At, T!Goes, T!MainStays, T!Evidence, T!EngineVars, TrialTypes, T!Rows,
       JournalOK, T!Row, Before, PlaceOK
  <2>4. LateOK'
    BY <1>9, TrialAssumption DEF T!Unload, T!At, T!Goes, T!MainStays, T!Evidence, T!EngineVars, TrialTypes, T!Rows,
       LateOK, T!Row, Before, PlaceOK, JournalOK
  <2>5. WorkersOK'
    BY <1>9, TrialAssumption DEF T!Unload, T!At, T!Goes, T!MainStays, T!Evidence, T!EngineVars, TrialTypes, T!Rows,
       WorkersOK, Stopped, After
  <2>. QED
    BY <2>1, <2>2, <2>3, <2>4, <2>5 DEF TrialInv
<1>10. CASE T!SwapsWorker
  <2>1. TrialTypes'
    BY <1>a, <1>10, TrialAssumption DEF T!SwapsWorker, T!At, T!Row, T!Goes, T!MainStays, T!Evidence, T!EngineVars,
       TrialTypes, T!Rows, T!Written, PCs, Before, After, PlaceOK
  <2>2. PlaceOK'
    BY <1>a, <1>10, TrialAssumption DEF T!SwapsWorker, T!At, T!Row, T!Goes, T!MainStays, T!Evidence, T!EngineVars,
       TrialTypes, T!Rows, PlaceOK
  <2>3. JournalOK'
    BY <1>a, <1>10, TrialAssumption DEF T!SwapsWorker, T!At, T!Row, T!Goes, T!MainStays, T!Evidence, T!EngineVars,
       TrialTypes, T!Rows, JournalOK, Before, PlaceOK
  <2>4. LateOK'
    BY <1>a, <1>10, TrialAssumption DEF T!SwapsWorker, T!At, T!Row, T!Goes, T!MainStays, T!Evidence, T!EngineVars,
       TrialTypes, T!Rows, LateOK, Before, PlaceOK, JournalOK
  <2>5. WorkersOK'
    BY <1>10, TrialAssumption DEF T!SwapsWorker, T!At, T!Row, T!Goes, T!MainStays, T!Evidence, T!EngineVars,
       TrialTypes, T!Rows, WorkersOK, Stopped, After
  <2>. QED
    BY <2>1, <2>2, <2>3, <2>4, <2>5 DEF TrialInv
<1>11. CASE T!CoolsDown
  <2>1. TrialTypes'
    BY <1>a, <1>11 DEF T!CoolsDown, T!At, T!Goes, T!MainStays, T!Evidence, T!EngineVars, TrialTypes, T!Rows,
       T!Written,
       PCs, Before, After, PlaceOK, T!Row
  <2>2. PlaceOK'
    BY <1>a, <1>11 DEF T!CoolsDown, T!At, T!Goes, T!MainStays, T!Evidence, T!EngineVars, TrialTypes, T!Rows, PlaceOK,
       T!Row
  <2>3. JournalOK'
    BY <1>a, <1>11 DEF T!CoolsDown, T!At, T!Goes, T!MainStays, T!Evidence, T!EngineVars, TrialTypes, T!Rows,
       JournalOK, T!Row, Before, PlaceOK
  <2>4. LateOK'
    BY <1>a, <1>11 DEF T!CoolsDown, T!At, T!Goes, T!MainStays, T!Evidence, T!EngineVars, TrialTypes, T!Rows, LateOK,
       T!Row, Before, PlaceOK, JournalOK
  <2>5. WorkersOK'
    BY <1>11 DEF T!CoolsDown, T!At, T!Goes, T!MainStays, T!Evidence, T!EngineVars, TrialTypes, T!Rows, WorkersOK,
       Stopped, After
  <2>. QED
    BY <2>1, <2>2, <2>3, <2>4, <2>5 DEF TrialInv
<1>12. CASE T!StartsWorker
  <2>1. TrialTypes'
    BY <1>12, TrialAssumption DEF T!StartsWorker, T!At, T!Goes, T!MainStays, T!Evidence, T!EngineVars, TrialTypes,
       T!Rows, T!Written, PCs, Before, After, PlaceOK, T!Row
  <2>2. PlaceOK'
    BY <1>12, TrialAssumption DEF T!StartsWorker, T!At, T!Goes, T!MainStays, T!Evidence, T!EngineVars, TrialTypes,
       T!Rows, PlaceOK, T!Row
  <2>3. JournalOK'
    BY <1>12, TrialAssumption DEF T!StartsWorker, T!At, T!Goes, T!MainStays, T!Evidence, T!EngineVars, TrialTypes,
       T!Rows, JournalOK, T!Row, Before, PlaceOK
  <2>4. LateOK'
    BY <1>12, TrialAssumption DEF T!StartsWorker, T!At, T!Goes, T!MainStays, T!Evidence, T!EngineVars, TrialTypes,
       T!Rows, LateOK, T!Row, Before, PlaceOK, JournalOK
  <2>5. WorkersOK'
    <3>1. main'.pc = "starting" /\ start' = "queued" /\ current' = current /\ running' = running
      BY <1>12 DEF T!StartsWorker, TrialTypes, T!At, T!Goes, T!MainStays
    <3>2. current # None
      BY <1>12 DEF T!StartsWorker, PlaceOK, T!At
    <3>. QED
      BY <3>1, <3>2 DEF WorkersOK, After
  <2>. QED
    BY <2>1, <2>2, <2>3, <2>4, <2>5 DEF TrialInv
<1>13. CASE T!StartAnswered
  <2>1. TrialTypes'
    BY <1>13, TrialAssumption DEF T!StartAnswered, T!At, T!Goes, T!MainStays, T!Evidence, T!EngineVars, TrialTypes,
       T!Rows, T!Written, PCs, Before, After, PlaceOK, T!Row
  <2>2. PlaceOK'
    BY <1>13, TrialAssumption DEF T!StartAnswered, T!At, T!Goes, T!MainStays, T!Evidence, T!EngineVars, TrialTypes,
       T!Rows, PlaceOK, T!Row
  <2>3. JournalOK'
    BY <1>13, TrialAssumption DEF T!StartAnswered, T!At, T!Goes, T!MainStays, T!Evidence, T!EngineVars, TrialTypes,
       T!Rows, JournalOK, T!Row, Before, PlaceOK
  <2>4. LateOK'
    BY <1>13, TrialAssumption DEF T!StartAnswered, T!At, T!Goes, T!MainStays, T!Evidence, T!EngineVars, TrialTypes,
       T!Rows, LateOK, T!Row, Before, PlaceOK, JournalOK
  <2>5. WorkersOK'
    BY <1>13, TrialAssumption DEF T!StartAnswered, T!At, T!Goes, T!MainStays, T!Evidence, T!EngineVars, TrialTypes,
       T!Rows, WorkersOK, Stopped, After
  <2>. QED
    BY <2>1, <2>2, <2>3, <2>4, <2>5 DEF TrialInv
<1>14. CASE T!Attests
  <2>1. TrialTypes'
    BY <1>a, <1>14 DEF T!Attests, T!At, T!Row, T!Goes, T!MainStays, T!Evidence, T!EngineVars, TrialTypes, T!Rows,
       T!Written, PCs, Before, After, PlaceOK
  <2>2. PlaceOK'
    BY <1>a, <1>14 DEF T!Attests, T!At, T!Row, T!Goes, T!MainStays, T!Evidence, T!EngineVars, TrialTypes, T!Rows,
       PlaceOK
  <2>3. JournalOK'
    BY <1>a, <1>14 DEF T!Attests, T!At, T!Row, T!Goes, T!MainStays, T!Evidence, T!EngineVars, TrialTypes, T!Rows,
       JournalOK, Before, PlaceOK
  <2>4. LateOK'
    BY <1>a, <1>14 DEF T!Attests, T!At, T!Row, T!Goes, T!MainStays, T!Evidence, T!EngineVars, TrialTypes, T!Rows,
       LateOK, Before, PlaceOK, JournalOK
  <2>5. WorkersOK'
    BY <1>14 DEF T!Attests, T!At, T!Row, T!Goes, T!MainStays, T!Evidence, T!EngineVars, TrialTypes, T!Rows, WorkersOK,
       Stopped, After
  <2>. QED
    BY <2>1, <2>2, <2>3, <2>4, <2>5 DEF TrialInv
<1>15. CASE T!RecordsStart
  <2>1. TrialTypes'
    BY <1>a, <1>15 DEF T!RecordsStart, T!At, T!Row, T!Goes, T!MainStays, T!EngineVars, TrialTypes, T!Rows, T!Written,
       PCs, Before, After, PlaceOK
  <2>2. PlaceOK'
    BY <1>a, <1>15 DEF T!RecordsStart, T!At, T!Row, T!Goes, T!MainStays, T!EngineVars, TrialTypes, T!Rows, PlaceOK
  <2>3. JournalOK'
    BY <1>a, <1>15 DEF T!RecordsStart, T!At, T!Row, T!Goes, T!MainStays, T!EngineVars, TrialTypes, T!Rows, JournalOK,
       Before, PlaceOK
  <2>4. LateOK'
    BY <1>a, <1>15 DEF T!RecordsStart, T!At, T!Row, T!Goes, T!MainStays, T!EngineVars, TrialTypes, T!Rows, LateOK,
       Before, PlaceOK, JournalOK
  <2>5. WorkersOK'
    BY <1>15 DEF T!RecordsStart, T!At, T!Row, T!Goes, T!MainStays, T!EngineVars, TrialTypes, T!Rows, WorkersOK,
       Stopped, After
  <2>. QED
    BY <2>1, <2>2, <2>3, <2>4, <2>5 DEF TrialInv
<1>16. CASE T!GetsAnswer
  <2>1. TrialTypes'
    BY <1>16, TrialAssumption DEF T!GetsAnswer, T!At, T!MainStays, T!Evidence, T!EngineVars, TrialTypes, T!Rows,
       T!Written, PCs, Before, After, PlaceOK, T!Row
  <2>2. PlaceOK'
    BY <1>16, TrialAssumption DEF T!GetsAnswer, T!At, T!MainStays, T!Evidence, T!EngineVars, TrialTypes, T!Rows,
       PlaceOK, T!Row
  <2>3. JournalOK'
    BY <1>16, TrialAssumption DEF T!GetsAnswer, T!At, T!MainStays, T!Evidence, T!EngineVars, TrialTypes, T!Rows,
       JournalOK, T!Row, Before, PlaceOK
  <2>4. LateOK'
    BY <1>16, TrialAssumption DEF T!GetsAnswer, T!At, T!MainStays, T!Evidence, T!EngineVars, TrialTypes, T!Rows,
       LateOK, T!Row, Before, PlaceOK, JournalOK
  <2>5. WorkersOK'
    BY <1>16, TrialAssumption DEF T!GetsAnswer, T!At, T!MainStays, T!Evidence, T!EngineVars, TrialTypes, T!Rows,
       WorkersOK, Stopped, After
  <2>. QED
    BY <2>1, <2>2, <2>3, <2>4, <2>5 DEF TrialInv
<1>17. CASE T!Judges
  <2>1. TrialTypes'
    BY <1>a, <1>17 DEF T!Judges, T!At, T!Row, T!Goes, T!MainStays, T!EngineVars, TrialTypes, T!Rows, T!Written, PCs,
       Before, After, PlaceOK
  <2>2. PlaceOK'
    BY <1>a, <1>17 DEF T!Judges, T!At, T!Row, T!Goes, T!MainStays, T!EngineVars, TrialTypes, T!Rows, PlaceOK
  <2>3. JournalOK'
    BY <1>a, <1>17 DEF T!Judges, T!At, T!Row, T!Goes, T!MainStays, T!EngineVars, TrialTypes, T!Rows, JournalOK,
       Before, PlaceOK
  <2>4. LateOK'
    BY <1>a, <1>17 DEF T!Judges, T!At, T!Row, T!Goes, T!MainStays, T!EngineVars, TrialTypes, T!Rows, LateOK, Before,
       PlaceOK, JournalOK
  <2>5. WorkersOK'
    BY <1>17 DEF T!Judges, T!At, T!Row, T!Goes, T!MainStays, T!EngineVars, TrialTypes, T!Rows, WorkersOK, Stopped,
       After
  <2>. QED
    BY <2>1, <2>2, <2>3, <2>4, <2>5 DEF TrialInv
<1>18. CASE T!ChecksAgain
  <2>1. TrialTypes'
    <3>1. T!Row \in T!Rows /\ main.status # None
      BY <1>18 DEF T!ChecksAgain, PlaceOK, T!At
    <3>2. T!Row + 1 \in 1..(Len(Schedule) + 1)
      BY <1>a, <3>1 DEF T!Rows
    <3>3. main' \in [pc : PCs, row : 1..(Len(Schedule) + 1), status : {None, "success", "failure"}]
      BY <1>18, <3>2 DEF T!ChecksAgain, TrialTypes, T!Row, PCs, Before, After
    <3>. QED
      BY <1>18, <3>3 DEF T!ChecksAgain, TrialTypes, T!MainStays, T!EngineVars, T!Evidence
  <2>2. PlaceOK'
    BY <1>a, <1>18 DEF T!ChecksAgain, T!At, T!MainStays, T!Evidence, T!EngineVars, TrialTypes, T!Rows, PlaceOK, T!Row
  <2>3. JournalOK'
    BY <1>a, <1>18 DEF T!ChecksAgain, T!At, T!MainStays, T!Evidence, T!EngineVars, TrialTypes, T!Rows, JournalOK,
       T!Row, Before, PlaceOK
  <2>4. LateOK'
    BY <1>a, <1>18 DEF T!ChecksAgain, T!At, T!MainStays, T!Evidence, T!EngineVars, TrialTypes, T!Rows, LateOK, T!Row,
       Before, PlaceOK, JournalOK
  <2>5. WorkersOK'
    BY <1>18 DEF T!ChecksAgain, T!At, T!MainStays, T!Evidence, T!EngineVars, TrialTypes, T!Rows, WorkersOK,
       Stopped, After
  <2>. QED
    BY <2>1, <2>2, <2>3, <2>4, <2>5 DEF TrialInv
<1>19. CASE T!StopsAtLast
  <2>1. TrialTypes'
    BY <1>19 DEF T!StopsAtLast, T!At, T!Goes, T!MainStays, T!Evidence, T!EngineVars, TrialTypes, T!Rows, T!Written,
       PCs, Before, After, PlaceOK, T!Row
  <2>2. PlaceOK'
    BY <1>19 DEF T!StopsAtLast, T!At, T!Goes, T!MainStays, T!Evidence, T!EngineVars, TrialTypes, T!Rows,
       PlaceOK, T!Row
  <2>3. JournalOK'
    BY <1>19 DEF T!StopsAtLast, T!At, T!Goes, T!MainStays, T!Evidence, T!EngineVars, TrialTypes, T!Rows, JournalOK,
       T!Row, Before, PlaceOK
  <2>4. LateOK'
    BY <1>19 DEF T!StopsAtLast, T!At, T!Goes, T!MainStays, T!Evidence, T!EngineVars, TrialTypes, T!Rows,
       LateOK, T!Row,
       Before, PlaceOK, JournalOK
  <2>5. WorkersOK'
    <3>1. main'.pc = "close" /\ start' = start /\ current' = current /\ running' = running
      BY <1>19 DEF T!StopsAtLast, TrialTypes, WorkersOK, T!At, T!Goes, T!MainStays
    <3>2. current = None => Stopped
      BY TrialAssumption DEF TrialTypes, WorkersOK, Stopped
    <3>3. current # None => current \in stops'
      BY <1>19 DEF T!StopsAtLast, PlaceOK, TrialTypes
    <3>. QED
      BY <3>1, <3>2, <3>3 DEF WorkersOK, Stopped, After
  <2>. QED
    BY <2>1, <2>2, <2>3, <2>4, <2>5 DEF TrialInv
<1>20. CASE T!Closes
  <2>1. TrialTypes'
    BY <1>20 DEF T!Closes, T!At, T!Monitors, T!Goes, T!Host, T!EngineVars, T!Evidence, TrialTypes, T!Rows, T!Written,
       PCs, Before, After, PlaceOK, T!Row
  <2>2. PlaceOK'
    BY <1>20 DEF T!Closes, T!At, T!Monitors, T!Goes, T!Host, T!EngineVars, T!Evidence, TrialTypes, T!Rows,
       PlaceOK, T!Row
  <2>3. JournalOK'
    BY <1>20 DEF T!Closes, T!At, T!Monitors, T!Goes, T!Host, T!EngineVars, T!Evidence, TrialTypes, T!Rows, JournalOK,
       T!Row, Before, PlaceOK
  <2>4. LateOK'
    BY <1>20 DEF T!Closes, T!At, T!Monitors, T!Goes, T!Host, T!EngineVars, T!Evidence, TrialTypes, T!Rows,
       LateOK, T!Row,
       Before, PlaceOK, JournalOK
  <2>5. WorkersOK'
    BY <1>20 DEF T!Closes, T!At, T!Monitors, T!Goes, T!Host, T!EngineVars, T!Evidence, TrialTypes, T!Rows, WorkersOK,
       Stopped, After
  <2>. QED
    BY <2>1, <2>2, <2>3, <2>4, <2>5 DEF TrialInv
<1>21. CASE T!Killed
  <2>1. TrialTypes'
    BY <1>21 DEF T!Killed, T!Alive, T!Goes, T!MainStays, T!Evidence, T!EngineVars, TrialTypes, T!Rows, T!Written, PCs,
       Before, After, PlaceOK, T!Row
  <2>2. PlaceOK'
    BY <1>21 DEF T!Killed, T!Alive, T!Goes, T!MainStays, T!Evidence, T!EngineVars, TrialTypes, T!Rows, PlaceOK, T!Row
  <2>3. JournalOK'
    BY <1>21 DEF T!Killed, T!Alive, T!Goes, T!MainStays, T!Evidence, T!EngineVars, TrialTypes, T!Rows, JournalOK,
       T!Row, Before, PlaceOK
  <2>4. LateOK'
    BY <1>21 DEF T!Killed, T!Alive, T!Goes, T!MainStays, T!Evidence, T!EngineVars, TrialTypes, T!Rows, LateOK, T!Row,
       Before, PlaceOK, JournalOK
  <2>5. WorkersOK'
    BY <1>21 DEF T!Killed, T!Alive, T!Goes, T!MainStays, T!Evidence, T!EngineVars, TrialTypes, T!Rows, WorkersOK,
       Stopped, After
  <2>. QED
    BY <2>1, <2>2, <2>3, <2>4, <2>5 DEF TrialInv
<1>22. CASE T!LoadsEngine
  <2>1. TrialTypes'
    BY <1>22 DEF T!LoadsEngine, T!At, T!Goes, T!MainStays, T!Evidence, T!EngineVars, TrialTypes, T!Rows, T!Written,
       PCs, Before, After, PlaceOK, T!Row
  <2>2. PlaceOK'
    BY <1>22 DEF T!LoadsEngine, T!At, T!Goes, T!MainStays, T!Evidence, T!EngineVars, TrialTypes, T!Rows,
       PlaceOK, T!Row
  <2>3. JournalOK'
    BY <1>22 DEF T!LoadsEngine, T!At, T!Goes, T!MainStays, T!Evidence, T!EngineVars, TrialTypes, T!Rows, JournalOK,
       T!Row, Before, PlaceOK
  <2>4. LateOK'
    BY <1>22 DEF T!LoadsEngine, T!At, T!Goes, T!MainStays, T!Evidence, T!EngineVars, TrialTypes, T!Rows,
       LateOK, T!Row,
       Before, PlaceOK, JournalOK
  <2>5. WorkersOK'
    BY <1>22 DEF T!LoadsEngine, T!At, T!Goes, T!MainStays, T!Evidence, T!EngineVars, TrialTypes, T!Rows, WorkersOK,
       Stopped, After
  <2>. QED
    BY <2>1, <2>2, <2>3, <2>4, <2>5 DEF TrialInv
<1>23. CASE T!Clears
  <2>1. TrialTypes'
    BY <1>a, <1>23 DEF T!Clears, T!At, T!Row, T!Goes, T!Host, TrialTypes, T!Rows, T!Written, PCs, Before, After,
       PlaceOK
  <2>2. PlaceOK'
    BY <1>a, <1>23 DEF T!Clears, T!At, T!Row, T!Goes, T!Host, TrialTypes, T!Rows, PlaceOK
  <2>3. JournalOK'
    BY <1>a, <1>23 DEF T!Clears, T!At, T!Row, T!Goes, T!Host, TrialTypes, T!Rows, JournalOK, Before, PlaceOK
  <2>4. LateOK'
    BY <1>a, <1>23 DEF T!Clears, T!At, T!Row, T!Goes, T!Host, TrialTypes, T!Rows, LateOK, Before, PlaceOK,
       JournalOK
  <2>5. WorkersOK'
    BY <1>23 DEF T!Clears, T!At, T!Row, T!Goes, T!Host, TrialTypes, T!Rows, WorkersOK, Stopped, After
  <2>. QED
    BY <2>1, <2>2, <2>3, <2>4, <2>5 DEF TrialInv
<1>24. CASE T!Generates
  <2>1. TrialTypes'
    BY <1>24, TrialAssumption DEF T!Generates, T!At, T!MainStays, T!Evidence, T!EngineVars, TrialTypes, T!Rows,
       T!Written, PCs, Before, After, PlaceOK, T!Row
  <2>2. PlaceOK'
    BY <1>24, TrialAssumption DEF T!Generates, T!At, T!MainStays, T!Evidence, T!EngineVars, TrialTypes, T!Rows,
       PlaceOK, T!Row
  <2>3. JournalOK'
    BY <1>24, TrialAssumption DEF T!Generates, T!At, T!MainStays, T!Evidence, T!EngineVars, TrialTypes, T!Rows,
       JournalOK, T!Row, Before, PlaceOK
  <2>4. LateOK'
    BY <1>24, TrialAssumption DEF T!Generates, T!At, T!MainStays, T!Evidence, T!EngineVars, TrialTypes, T!Rows,
       LateOK, T!Row, Before, PlaceOK, JournalOK
  <2>5. WorkersOK'
    BY <1>24, TrialAssumption DEF T!Generates, T!At, T!MainStays, T!Evidence, T!EngineVars, TrialTypes, T!Rows,
       WorkersOK, Stopped, After
  <2>. QED
    BY <2>1, <2>2, <2>3, <2>4, <2>5 DEF TrialInv
<1>25. CASE T!TimesOut
  <2>1. TrialTypes'
    BY <1>25 DEF T!TimesOut, T!Host, T!Evidence, TrialTypes, T!Rows, T!Written, PCs, Before, After, PlaceOK, T!Row
  <2>2. PlaceOK'
    BY <1>25 DEF T!TimesOut, T!Host, T!Evidence, TrialTypes, T!Rows, PlaceOK, T!Row
  <2>3. JournalOK'
    BY <1>25 DEF T!TimesOut, T!Host, T!Evidence, TrialTypes, T!Rows, JournalOK, T!Row, Before, PlaceOK
  <2>4. LateOK'
    BY <1>25 DEF T!TimesOut, T!Host, T!Evidence, TrialTypes, T!Rows, LateOK, T!Row, Before, PlaceOK, JournalOK
  <2>5. WorkersOK'
    BY <1>25 DEF T!TimesOut, T!Host, T!Evidence, TrialTypes, T!Rows, WorkersOK, Stopped, After
  <2>. QED
    BY <2>1, <2>2, <2>3, <2>4, <2>5 DEF TrialInv
<1>26. CASE T!Exits
  <2>1. TrialTypes'
    BY <1>26 DEF T!Exits, T!Alive, T!Goes, T!MainStays, T!Evidence, T!EngineVars, TrialTypes, T!Rows, T!Written, PCs,
       Before, After, PlaceOK, T!Row
  <2>2. PlaceOK'
    BY <1>26 DEF T!Exits, T!Alive, T!Goes, T!MainStays, T!Evidence, T!EngineVars, TrialTypes, T!Rows, PlaceOK, T!Row
  <2>3. JournalOK'
    BY <1>26 DEF T!Exits, T!Alive, T!Goes, T!MainStays, T!Evidence, T!EngineVars, TrialTypes, T!Rows,
       JournalOK, T!Row,
       Before, PlaceOK
  <2>4. LateOK'
    BY <1>26 DEF T!Exits, T!Alive, T!Goes, T!MainStays, T!Evidence, T!EngineVars, TrialTypes, T!Rows, LateOK, T!Row,
       Before, PlaceOK, JournalOK
  <2>5. WorkersOK'
    BY <1>26 DEF T!Exits, T!Alive, T!Goes, T!MainStays, T!Evidence, T!EngineVars, TrialTypes, T!Rows, WorkersOK,
       Stopped, After
  <2>. QED
    BY <2>1, <2>2, <2>3, <2>4, <2>5 DEF TrialInv
<1>27. CASE UNCHANGED T!trialVars
  BY <1>27 DEF T!trialVars, TrialInv, TrialTypes, PlaceOK, JournalOK, LateOK, WorkersOK, T!Row, Stopped
<1>. QED
  BY <1>1, <1>2, <1>3, <1>4, <1>5, <1>6, <1>7, <1>8, <1>9, <1>10, <1>11, <1>12, <1>13, <1>14, <1>15, <1>16,
     <1>17, <1>18, <1>19, <1>20, <1>21, <1>22, <1>23, <1>24, <1>25, <1>26, <1>27 DEF T!TrialNext

LEMMA TrialStart == T!TrialInit => TrialInv
<1>. SUFFICES ASSUME T!TrialInit PROVE TrialInv
  OBVIOUS
<1>1. Len(Schedule) \in Nat
  BY TrialAssumption
<1>2. TrialTypes
  <2>1. main \in [pc : PCs, row : 1..(Len(Schedule) + 1), status : {None, "success", "failure"}]
    BY <1>1 DEF T!TrialInit, PCs, Before
  <2>2. journal \in [T!Rows -> T!Written]
    BY DEF T!TrialInit, T!Written
  <2>3. monitor \in [T!Monitors -> {"watching", "aborting", "stopping", "done"}]
    BY DEF T!TrialInit
  <2>. QED
    BY <2>1, <2>2, <2>3 DEF T!TrialInit, TrialTypes
<1>3. PlaceOK /\ JournalOK /\ LateOK
  BY <1>1, TrialAssumption DEF T!TrialInit, PlaceOK, JournalOK, LateOK, T!Row, T!Rows
<1>4. WorkersOK
  <2>1. main.pc \in {"cool", "row"} /\ running = {} /\ start = None
    BY DEF T!TrialInit
  <2>2. None # "queued"
    BY TrialAssumption
  <2>. QED
    BY <2>1, <2>2 DEF WorkersOK
<1>. QED
  BY <1>2, <1>3, <1>4 DEF TrialInv

LEMMA TrialHolds ==
  TrialInv => /\ T!TrialTypesOK /\ T!AbortedAttemptsFail /\ T!RunsEndStopped /\ T!OneWorkerAtATime
              /\ T!JournalIsAPrefix
<1>. SUFFICES ASSUME TrialInv
              PROVE  /\ T!TrialTypesOK /\ T!AbortedAttemptsFail /\ T!RunsEndStopped /\ T!OneWorkerAtATime
                     /\ T!JournalIsAPrefix
  OBVIOUS
<1>0. TrialTypes /\ PlaceOK /\ JournalOK /\ LateOK /\ WorkersOK
  BY DEF TrialInv
<1>1. T!TrialTypesOK
  BY <1>0 DEF TrialTypes, T!TrialTypesOK
<1>2. T!AbortedAttemptsFail
  <2>1. late \subseteq {T!Row}
    BY <1>0 DEF LateOK
  <2>. QED
    BY <1>0, <2>1 DEF LateOK, T!AbortedAttemptsFail
<1>3. T!RunsEndStopped
  BY <1>0 DEF WorkersOK, Stopped, T!RunsEndStopped
<1>4. T!OneWorkerAtATime
  BY <1>0 DEF WorkersOK, T!OneWorkerAtATime
<1>5. T!JournalIsAPrefix
  <2>1. Len(Schedule) \in Nat /\ T!Row \in 1..(Len(Schedule) + 1)
    BY <1>0, TrialAssumption DEF TrialTypes, T!Row
  <2>. SUFFICES ASSUME NEW r \in T!Rows, NEW s \in T!Rows, r < s, journal[s] # "not_started"
                PROVE  journal[r] \in {"success", "failure"}
    BY DEF T!JournalIsAPrefix
  <2>2. ~(s > T!Row)
    BY <1>0 DEF JournalOK
  <2>3. r < T!Row
    BY <2>1, <2>2 DEF T!Rows
  <2>. QED
    BY <1>0, <2>3 DEF JournalOK
<1>. QED
  BY <1>1, <1>2, <1>3, <1>4, <1>5

---------------------------------------------------------------------------
(* The data directory: what its states are *)

\* What an export may make and an import may read.
Exported == {d \in S!StateRecords : d.version \in {4, 5}}

StateTypes ==
    /\ data \in S!StateRecords \cup {None, Empty}
    /\ backups \in [Stamps -> S!StateRecords \cup {None, Empty}]
    /\ archive \in Exported \cup {None, Broken}
    /\ exporter \in Exported \cup {None}
    /\ importer \in [Importers -> {S!Off} \cup [pc : {"staged", "place"}, existing : BOOLEAN, staged : Exported]]
    /\ services \in [S!Services -> [phase : {"down", "up", "degraded"}]
                                   \cup [phase : {"starting"}, opened : Nat, migrates : BOOLEAN]]
    /\ made \in 0..MaxStates /\ held \subseteq 1..made /\ raced \subseteq held /\ cut \in BOOLEAN

\* Each state that was the data directory is in one place; what an import will place is new.
PlacesOK ==
    /\ \A o \in held : (S!IsState(data) /\ data.of = o) \/ \E b \in Stamps : S!IsState(backups[b]) /\ backups[b].of = o
    /\ S!IsState(data) => data.of \in held
    /\ \A b \in Stamps : S!IsState(backups[b]) =>
         /\ backups[b].of \in held
         /\ S!IsState(data) => data.of # backups[b].of
         /\ \A c \in Stamps \ {b} : S!IsState(backups[c]) => backups[c].of # backups[b].of
    /\ \A i \in Importers : importer[i] # S!Off =>
         /\ importer[i].staged.of \in (1..made) \ held
         /\ \A j \in Importers \ {i} : importer[j] # S!Off => importer[j].staged.of # importer[i].staged.of
    /\ \A s \in S!Services : services[s].phase = "starting" => services[s].opened \in held

\* A state without the table of active profiles has its profile in the singleton table.
Sound(d) == d.live = None => d.singleton = d.wanted /\ d.version # 5
Faithful(d) == d.live # None => d.live = d.wanted

ActiveOK ==
    /\ \A d \in S!States : Sound(d) /\ (d.of \notin raced => Faithful(d))
    /\ archive \in Exported => Sound(archive)
    /\ exporter \in Exported => Sound(exporter)
    /\ \A i \in Importers : importer[i] # S!Off => Sound(importer[i].staged) /\ Faithful(importer[i].staged)
    /\ \A s \in S!Services : services[s].phase = "starting" /\ ~services[s].migrates =>
         \A d \in S!States : d.of = services[s].opened => d.live # None

\* What lacks files came from an export that was cut, or is the archive in the making.
WholeOK ==
    /\ \A d \in S!States : d.files = "cut" => cut
    /\ archive \in Exported /\ archive.files = "cut" => cut \/ exporter # None
    /\ exporter \in Exported /\ exporter.files = "cut" => cut
    /\ \A i \in Importers : importer[i] # S!Off /\ importer[i].staged.files = "cut" => cut

StateInv == StateTypes /\ PlacesOK /\ ActiveOK /\ WholeOK

---------------------------------------------------------------------------
(* The data directory: its records *)

\* What counts as the state of a data directory.
LEMMA IsStates ==
  /\ \A d \in S!StateRecords : S!IsState(d)
  /\ \A d \in S!StateRecords \cup {None, Empty, Broken} : S!IsState(d) <=> d \in S!StateRecords
  /\ ~S!IsState(None) /\ ~S!IsState(Empty)
  BY StateAssumption DEF S!IsState

\* The states that an import takes.
LEMMA Exports ==
  /\ Exported \subseteq S!StateRecords /\ None \notin Exported /\ Broken \notin Exported
  /\ \A d \in S!StateRecords \cup {None, Empty, Broken} : S!Importable(d) <=> d \in Exported
  BY IsStates, StateAssumption DEF Exported, S!Importable

\* A directory that a service creates.
LEMMA FreshState ==
  ASSUME NEW of \in Nat
  PROVE  /\ S!Fresh(of) \in S!StateRecords /\ S!Fresh(of).of = of /\ S!Fresh(of).version = 0
         /\ S!Fresh(of).live = None /\ S!Fresh(of).files = "all" /\ Sound(S!Fresh(of)) /\ Faithful(S!Fresh(of))
  BY DEF S!Fresh, S!State, S!StateRecords, Sound, Faithful

\* The upgrade: the profile of the singleton table is live if it was asked for.
LEMMA UpgradedState ==
  ASSUME NEW d \in S!StateRecords, NEW m \in BOOLEAN
  PROVE  /\ S!Upgraded(d, m) \in S!StateRecords /\ S!Upgraded(d, m).of = d.of /\ S!Upgraded(d, m).version = 5
         /\ S!Upgraded(d, m).live \in BOOLEAN /\ S!Upgraded(d, m).files = d.files
         /\ Sound(S!Upgraded(d, m))
         /\ Sound(d) /\ Faithful(d) /\ (m <=> d.live = None) => Faithful(S!Upgraded(d, m))
<1>0. ASSUME NEW y \in BOOLEAN \cup {None}
      PROVE  [d EXCEPT !.version = 5, !.live = y] \in S!StateRecords
  <2>1. [d EXCEPT !.version = 5] \in S!StateRecords
    BY DEF S!StateRecords
  <2>. QED
    BY <2>1 DEF S!StateRecords
<1>. DEFINE u == S!Upgraded(d, m)
<1>1. d.live \in BOOLEAN \cup {None} /\ d.singleton \in BOOLEAN /\ d.wanted \in BOOLEAN
  BY DEF S!StateRecords
<1>2. u.of = d.of /\ u.version = 5 /\ u.files = d.files /\ u.wanted = d.wanted /\ u.singleton = d.singleton
      /\ u.live = (d.live = TRUE \/ (m /\ d.singleton))
  BY DEF S!Upgraded, S!StateRecords
<1>3. u.live \in BOOLEAN
  BY <1>2
<1>4. u \in S!StateRecords
  <2>. DEFINE x == d.live = TRUE \/ (m /\ d.singleton)
  <2>1. x \in BOOLEAN
    OBVIOUS
  <2>3. u = [d EXCEPT !.version = 5, !.live = x]
    BY DEF S!Upgraded
  <2>. HIDE DEF x, u
  <2>. QED
    BY <1>0, <2>1, <2>3
<1>5. Sound(u)
  BY <1>3, StateAssumption DEF Sound
<1>6. ASSUME Sound(d), Faithful(d), m <=> d.live = None PROVE Faithful(u)
  <2>1. CASE d.live = None
    <3>1. d.singleton = d.wanted
      BY <1>6, <2>1 DEF Sound
    <3>2. u.live = d.singleton
      BY <1>1, <1>2, <1>6, <2>1, StateAssumption
    <3>. QED
      BY <1>2, <3>1, <3>2 DEF Faithful
  <2>2. CASE d.live # None
    <3>1. d.live = d.wanted /\ d.live \in BOOLEAN
      BY <1>1, <1>6, <2>2 DEF Faithful
    <3>2. u.live = d.live
      BY <1>2, <1>6, <2>2, <3>1
    <3>. QED
      BY <1>2, <3>1, <3>2 DEF Faithful
  <2>. QED
    BY <2>1, <2>2
<1>. QED
  BY <1>2, <1>3, <1>4, <1>5, <1>6

\* An import's copy is its archive's state under an identity of its own.
LEMMA CopiedState ==
  ASSUME NEW d \in Exported, NEW of \in Nat
  PROVE  /\ S!Copy(d, of) \in Exported /\ S!Copy(d, of).of = of /\ S!Copy(d, of).files = d.files
         /\ Sound(d) => Sound(S!Copy(d, of)) /\ Faithful(S!Copy(d, of))
<1>1. d.live \in BOOLEAN \cup {None} /\ d.wanted \in BOOLEAN
  BY DEF S!StateRecords, Exported
<1>2. /\ S!Copy(d, of).of = of /\ S!Copy(d, of).files = d.files /\ S!Copy(d, of).live = d.live
      /\ S!Copy(d, of).singleton = d.singleton /\ S!Copy(d, of).version = d.version
      /\ S!Copy(d, of).wanted = IF d.live = None THEN d.wanted ELSE d.live
  BY DEF S!Copy, S!StateRecords, Exported
<1>3. S!Copy(d, of) \in Exported
  BY <1>1 DEF S!Copy, S!StateRecords, Exported
<1>. QED
  BY <1>2, <1>3 DEF Sound, Faithful

\* What an archive holds when its export was cut off.
LEMMA ArchivedState ==
  ASSUME NEW d \in Exported, NEW a \in S!Prefixes(d)
  PROVE  /\ a \in Exported \cup {Broken}
         /\ Sound(d) /\ a \in Exported => Sound(a)
  BY StateAssumption DEF S!Prefixes, Exported, S!StateRecords, Sound

---------------------------------------------------------------------------
(* The data directory: the steps *)

LEMMA StatePreserved == StateInv /\ [S!StateNext]_(S!stateVars) => StateInv'
<1>. SUFFICES ASSUME StateInv, [S!StateNext]_(S!stateVars) PROVE StateInv'
  OBVIOUS
<1>0. StateTypes /\ PlacesOK /\ ActiveOK /\ WholeOK
  BY DEF StateInv
<1>. USE <1>0

<1>1. ASSUME NEW s \in S!Services, S!BeginsService(s) PROVE StateInv'

  <2>a. /\ data' \in S!StateRecords /\ S!IsState(data)'
        /\ \/ S!IsState(data) /\ UNCHANGED <<data, backups, held, made>>
           \/ /\ ~S!IsState(data) /\ made + 1 \in 1..MaxStates /\ made' = made + 1
              /\ data' = S!Fresh(made + 1) /\ held' = held \cup {made + 1} /\ backups' = backups
    <3>1. CASE S!IsState(data)
      BY <3>1, <1>1, IsStates DEF S!BeginsService, S!Files, StateTypes
    <3>2. CASE ~S!IsState(data)
      <4>1. made + 1 \in 1..MaxStates /\ made' = made + 1 /\ backups' = backups /\ S!Becomes(S!Fresh(made + 1))
        BY <3>2, <1>1, StateAssumption DEF S!BeginsService, StateTypes
      <4>2. S!Fresh(made + 1) \in S!StateRecords /\ S!Fresh(made + 1).of = made + 1
        BY <4>1, FreshState
      <4>. QED
        BY <3>2, <4>1, <4>2, IsStates DEF S!Becomes
    <3>. QED
      BY <3>1, <3>2
  <2>b. \/ services' = [services EXCEPT ![s] = [phase |-> "starting", opened |-> data'.of, migrates |-> data'.live = None]]
        \/ services' = [services EXCEPT ![s] = [phase |-> "degraded"]]
    BY <1>1 DEF S!BeginsService, S!Phase
  <2>c. \A t \in S!Services : services'[t] = services[t] \/ services'[t].phase = "degraded"
                              \/ (t = s /\ services'[t].opened = data'.of /\ services'[t].migrates = (data'.live = None))
    <3>1. CASE services' = [services EXCEPT ![s] = [phase |-> "starting", opened |-> data'.of, migrates |-> data'.live = None]]
      <4>1. services'[s] = [phase |-> "starting", opened |-> data'.of, migrates |-> data'.live = None]
        BY <3>1 DEF StateTypes
      <4>2. services'[s].opened = data'.of /\ services'[s].migrates = (data'.live = None)
        BY <4>1
      <4>3. \A t \in S!Services \ {s} : services'[t] = services[t]
        BY <3>1 DEF StateTypes
      <4>. QED
        BY <4>2, <4>3
    <3>2. CASE services' = [services EXCEPT ![s] = [phase |-> "degraded"]]
      <4>1. services'[s] = [phase |-> "degraded"] /\ \A t \in S!Services \ {s} : services'[t] = services[t]
        BY <3>2 DEF StateTypes
      <4>. QED
        BY <4>1
    <3>. QED
      BY <2>b, <3>1, <3>2
  <2>d. UNCHANGED <<archive, exporter, importer, raced, cut>>
    BY <1>1 DEF S!BeginsService, S!Tools
  <2>e. Sound(data)' /\ (~S!IsState(data) => Faithful(data)' /\ data'.files = "all" /\ data'.of = made + 1)
    <3>1. CASE S!IsState(data)
      <4>1. data \in S!States /\ data' = data
        BY <2>a, <3>1 DEF S!States
      <4>2. Sound(data)
        BY <4>1 DEF ActiveOK
      <4>. QED
        BY <3>1, <4>1, <4>2 DEF Sound
    <3>2. CASE ~S!IsState(data)
      <4>1. made + 1 \in Nat /\ data' = S!Fresh(made + 1)
        BY <2>a, <3>2
      <4>. QED
        BY <4>1, FreshState
    <3>. QED
      BY <3>1, <3>2
  <2>f. \A d \in S!States' : d \in S!States \/ (d = data' /\ ~S!IsState(data))
    BY <2>a DEF S!States
  <2>1. StateTypes'

    <3>1. made' \in 0..MaxStates /\ held' \subseteq 1..made' /\ raced' \subseteq held'
      <4>1. CASE S!IsState(data)
        BY <2>a, <2>d, <4>1 DEF StateTypes
      <4>2. CASE ~S!IsState(data)
        <5>1. made \in Nat /\ made + 1 \in 0..MaxStates /\ held \subseteq 1..made /\ raced \subseteq held
          BY <2>a, <4>2 DEF StateTypes
        <5>2. made' = made + 1 /\ held' = held \cup {made + 1} /\ raced' = raced
          BY <2>a, <2>d, <4>2
        <5>. QED
          BY <5>1, <5>2
      <4>. QED
        BY <4>1, <4>2
    <3>2. services' \in [S!Services -> [phase : {"down", "up", "degraded"}]
                                       \cup [phase : {"starting"}, opened : Nat, migrates : BOOLEAN]]
      <4>1. data'.of \in Nat /\ (data'.live = None) \in BOOLEAN
        BY <2>a DEF S!StateRecords
      <4>2. [phase |-> "starting", opened |-> data'.of, migrates |-> data'.live = None]
               \in [phase : {"starting"}, opened : Nat, migrates : BOOLEAN]
        BY <4>1
      <4>. QED
        <5>. DEFINE Phases == [phase : {"down", "up", "degraded"}] \cup [phase : {"starting"}, opened : Nat, migrates : BOOLEAN]
                    v == [phase |-> "starting", opened |-> data'.of, migrates |-> data'.live = None]
        <5>1. v \in Phases /\ [phase |-> "degraded"] \in Phases
          BY <4>2
        <5>2. services \in [S!Services -> Phases]
          BY DEF StateTypes
        <5>3. services' = [services EXCEPT ![s] = v] \/ services' = [services EXCEPT ![s] = [phase |-> "degraded"]]
          BY <2>b
        <5>. HIDE DEF Phases, v
        <5>4. services' \in [S!Services -> Phases]
          BY <5>1, <5>2, <5>3
        <5>. QED
          BY <5>4 DEF Phases
    <3>. QED
      BY <2>a, <2>d, <3>1, <3>2 DEF StateTypes
  <2>2. PlacesOK'

    <3>1. \A t \in S!Services : services'[t].phase = "starting" => services'[t].opened \in held'
      BY <2>a, <2>c, IsStates, FreshState DEF PlacesOK
    <3>2. CASE S!IsState(data)
      BY <2>a, <2>d, <3>1, <3>2 DEF PlacesOK
    <3>3. CASE ~S!IsState(data)
      <4>1. data'.of = made + 1 /\ made + 1 \notin held /\ held' = held \cup {made + 1} /\ backups' = backups
            /\ made' = made + 1
        BY <2>a, <2>e, <3>3 DEF StateTypes
      <4>2. \A i \in Importers : importer[i] # S!Off => importer[i].staged.of \in (1..made') \ held'
        BY <4>1 DEF PlacesOK, StateTypes
      <4>. QED
        BY <2>a, <2>d, <3>1, <3>3, <4>1, <4>2 DEF PlacesOK
    <3>. QED
      BY <3>2, <3>3
  <2>3. ActiveOK'

    <3>1. \A d \in S!States' : Sound(d) /\ (d.of \notin raced' => Faithful(d))
      BY <2>d, <2>e, <2>f DEF ActiveOK
    <3>2. ASSUME NEW t \in S!Services, services'[t].phase = "starting", ~services'[t].migrates,
                 NEW d \in S!States', d.of = services'[t].opened
          PROVE  d.live # None
      <4>1. CASE services'[t] = services[t]
        <5>1. services[t].opened \in held /\ (d = data' /\ ~S!IsState(data) => d.of \notin held)
          BY <2>e, <3>2, <4>1 DEF PlacesOK, StateTypes
        <5>. QED
          BY <2>f, <3>2, <4>1, <5>1 DEF ActiveOK
      <4>2. CASE services'[t].opened = data'.of /\ services'[t].migrates = (data'.live = None)
        <5>1. \A b \in Stamps : S!IsState(backups'[b]) => backups'[b].of # data'.of
          BY <2>a, <2>2 DEF PlacesOK
        <5>2. d = data'
          BY <3>2, <4>2, <5>1 DEF S!States
        <5>. QED
          BY <3>2, <4>2, <5>2
      <4>. QED
        BY <2>c, <3>2, <4>1, <4>2
    <3>. QED
      BY <2>d, <3>1, <3>2 DEF ActiveOK
  <2>4. WholeOK'

    BY <2>d, <2>e, <2>f DEF WholeOK
  <2>. QED
    BY <2>1, <2>2, <2>3, <2>4 DEF StateInv
<1>2. ASSUME NEW s \in S!Services, S!UpgradesService(s) PROVE StateInv'

  <2>. DEFINE o == services[s].opened
              m == services[s].migrates
              Later(d) == IF S!IsState(d) /\ d.of = o THEN S!Upgraded(d, m) ELSE d
  <2>a. services[s].phase = "starting" /\ o \in held /\ m \in BOOLEAN
    BY <1>2 DEF S!UpgradesService, StateTypes, PlacesOK
  <2>b. data' = Later(data) /\ backups' = [b \in Stamps |-> Later(backups[b])]
    BY <1>2 DEF S!UpgradesService
  <2>c. /\ raced' \in {raced, raced \cup {o}}
        /\ \A d \in S!States : m /\ d.of = o /\ d.live # None => o \in raced'
    BY <1>2, <2>a DEF S!UpgradesService, S!States
  <2>d. /\ services' = [services EXCEPT ![s] = [phase |-> "up"]]
        /\ UNCHANGED <<held, archive, exporter, importer, made, cut>>
    BY <1>2 DEF S!UpgradesService, S!Phase, S!Tools
  <2>e. \A d \in S!StateRecords \cup {None, Empty} :
          /\ Later(d) \in S!StateRecords \cup {None, Empty} /\ (S!IsState(Later(d)) <=> S!IsState(d))
          /\ S!IsState(d) => Later(d).of = d.of /\ Later(d).files = d.files /\ (Sound(d) => Sound(Later(d)))
    <3>1. ASSUME NEW d \in S!StateRecords
          PROVE  /\ Later(d) \in S!StateRecords /\ Later(d).of = d.of /\ Later(d).files = d.files
                 /\ Sound(d) => Sound(Later(d))
      BY <2>a, UpgradedState
    <3>2. ASSUME NEW d \in {None, Empty} PROVE Later(d) = d
      BY IsStates
    <3>. HIDE DEF Later
    <3>. QED
      BY <3>1, <3>2, IsStates
  <2>f. \A b \in Stamps : backups'[b] = Later(backups[b])
    BY <2>b DEF StateTypes
  <2>. HIDE DEF Later
  <2>g. \A e \in S!States' : \E d \in S!States : d \in S!StateRecords /\ e = Later(d)
    BY <2>b, <2>e, <2>f, IsStates DEF S!States, StateTypes
  <2>h. /\ S!IsState(data)' <=> S!IsState(data)
        /\ S!IsState(data) => data'.of = data.of
        /\ \A b \in Stamps : /\ S!IsState(backups'[b]) <=> S!IsState(backups[b])
                             /\ S!IsState(backups[b]) => backups'[b].of = backups[b].of
    BY <2>b, <2>e, <2>f DEF StateTypes
  <2>i. \A t \in S!Services : services'[t].phase = "starting" => t # s /\ services'[t] = services[t]
    BY <2>d DEF StateTypes
  <2>1. StateTypes'

    <3>1. data' \in S!StateRecords \cup {None, Empty} /\ backups' \in [Stamps -> S!StateRecords \cup {None, Empty}]
      BY <2>b, <2>e DEF StateTypes
    <3>2. raced' \subseteq held'
      BY <2>a, <2>c, <2>d DEF StateTypes
    <3>. QED
      BY <2>d, <3>1, <3>2 DEF StateTypes
  <2>2. PlacesOK'

    BY <2>d, <2>h, <2>i DEF PlacesOK
  <2>3. ActiveOK'

    <3>1. ASSUME NEW e \in S!States' PROVE Sound(e) /\ (e.of \notin raced' => Faithful(e))
      <4>1. PICK d \in S!States : d \in S!StateRecords /\ e = Later(d)
        BY <2>g
      <4>2. Sound(e) /\ e.of = d.of
        BY <2>e, <4>1, IsStates DEF ActiveOK
      <4>3. ASSUME e.of \notin raced' PROVE Faithful(e)
        <5>1. Sound(d) /\ Faithful(d)
          BY <2>c, <4>1, <4>2, <4>3 DEF ActiveOK
        <5>2. CASE d.of = o
          <6>1. m <=> d.live = None
            BY <2>a, <2>c, <4>1, <4>2, <4>3, <5>2 DEF ActiveOK
          <6>. QED
            BY <2>a, <4>1, <5>1, <5>2, <6>1, IsStates, UpgradedState DEF Later
        <5>3. CASE d.of # o
          BY <4>1, <5>1, <5>3 DEF Later
        <5>. QED
          BY <5>2, <5>3
      <4>. QED
        BY <4>2, <4>3
    <3>2. ASSUME NEW t \in S!Services, services'[t].phase = "starting", ~services'[t].migrates,
                 NEW e \in S!States', e.of = services'[t].opened
          PROVE  e.live # None
      <4>1. PICK d \in S!States : d \in S!StateRecords /\ e = Later(d)
        BY <2>g
      <4>2. d.of = services[t].opened /\ services[t].phase = "starting" /\ ~services[t].migrates
        BY <2>e, <2>i, <3>2, <4>1, IsStates
      <4>3. d.live # None
        BY <4>1, <4>2 DEF ActiveOK
      <4>. QED
        BY <2>a, <4>1, <4>3, UpgradedState, StateAssumption DEF Later
    <3>. QED
      BY <2>d, <3>1, <3>2 DEF ActiveOK
  <2>4. WholeOK'

    BY <2>d, <2>e, <2>g, IsStates DEF WholeOK
  <2>. QED
    BY <2>1, <2>2, <2>3, <2>4 DEF StateInv
<1>3. ASSUME NEW s \in S!Services, S!StopsService(s) PROVE StateInv'
  <2>1. StateTypes'
    BY IsStates, <1>3 DEF S!StopsService, S!Phase, S!Files, S!Tools, S!Counters, StateTypes
  <2>2. PlacesOK'
    BY IsStates, <1>3 DEF S!StopsService, S!Phase, S!Files, S!Tools, S!Counters, StateTypes, PlacesOK
  <2>3. ActiveOK'
    BY IsStates, <1>3 DEF S!StopsService, S!Phase, S!Files, S!Tools, S!Counters, StateTypes, ActiveOK, S!States
  <2>4. WholeOK'
    BY IsStates, <1>3 DEF S!StopsService, S!Phase, S!Files, S!Tools, S!Counters, StateTypes, WholeOK, S!States
  <2>. QED
    BY <2>1, <2>2, <2>3, <2>4 DEF StateInv
<1>4. ASSUME NEW p \in BOOLEAN, S!SetsActive(p) PROVE StateInv'

  <2>a. /\ UNCHANGED <<backups, held, archive, exporter, importer, services, made, raced, cut>>
        /\ S!IsState(data) /\ data.live # None
        /\ data' = [data EXCEPT !.live = p, !.wanted = p, !.singleton = p \/ data.singleton]
    BY <1>4 DEF S!SetsActive, S!Tools, S!Counters

  <2>b. /\ S!IsState(data) /\ S!IsState(data)' /\ data' \in S!StateRecords /\ data'.of = data.of
        /\ data'.files = data.files /\ (data.live # None => data'.live # None)
        /\ Sound(data)' /\ (data.of \notin raced => Faithful(data)')
    <3>1. S!IsState(data) /\ data \in S!StateRecords /\ data \in S!States
      BY <2>a, IsStates DEF StateTypes, S!States
    <3>2. Sound(data) /\ (data.of \notin raced => Faithful(data))
      BY <3>1 DEF ActiveOK
    <3>. QED
      BY <2>a, <3>1, <3>2, IsStates, StateAssumption DEF S!StateRecords, Sound, Faithful
  <2>c. \A d \in S!States' : d = data' \/ d \in S!States
    BY <2>a DEF S!States
  <2>1. StateTypes'
    BY <2>a, <2>b DEF StateTypes
  <2>2. PlacesOK'
    BY <2>a, <2>b DEF PlacesOK
  <2>3. ActiveOK'
    <3>1. \A d \in S!States' : Sound(d) /\ (d.of \notin raced' => Faithful(d))
      BY <2>a, <2>b, <2>c DEF ActiveOK
    <3>2. ASSUME NEW t \in S!Services, services[t].phase = "starting", ~services[t].migrates,
                 NEW d \in S!States', d.of = services[t].opened
          PROVE  d.live # None
      BY <2>b, <2>c, <3>2 DEF ActiveOK, S!States
    <3>. QED
      BY <2>a, <3>1, <3>2 DEF ActiveOK
  <2>4. WholeOK'
    <3>1. data \in S!States
      BY <2>b DEF S!States
    <3>. QED
      BY <2>a, <2>b, <2>c, <3>1 DEF WholeOK
  <2>. QED
    BY <2>1, <2>2, <2>3, <2>4 DEF StateInv
<1>5. CASE S!MigratesV2 \/ S!MigratesV3

  <2>a. /\ UNCHANGED <<backups, held, archive, exporter, importer, services, made, raced, cut>>
        /\ S!IsState(data) /\ \E v \in {3, 4} : data' = [data EXCEPT !.version = v]
    BY <1>5 DEF S!MigratesV2, S!MigratesV3, S!Migrates, S!Tools, S!Counters

  <2>b. /\ S!IsState(data) /\ S!IsState(data)' /\ data' \in S!StateRecords /\ data'.of = data.of
        /\ data'.files = data.files /\ (data.live # None => data'.live # None)
        /\ Sound(data)' /\ (data.of \notin raced => Faithful(data)')
    <3>1. S!IsState(data) /\ data \in S!StateRecords /\ data \in S!States
      BY <2>a, IsStates DEF StateTypes, S!States
    <3>2. Sound(data) /\ (data.of \notin raced => Faithful(data))
      BY <3>1 DEF ActiveOK
    <3>. QED
      BY <2>a, <3>1, <3>2, IsStates, StateAssumption DEF S!StateRecords, Sound, Faithful
  <2>c. \A d \in S!States' : d = data' \/ d \in S!States
    BY <2>a DEF S!States
  <2>1. StateTypes'
    BY <2>a, <2>b DEF StateTypes
  <2>2. PlacesOK'
    BY <2>a, <2>b DEF PlacesOK
  <2>3. ActiveOK'
    <3>1. \A d \in S!States' : Sound(d) /\ (d.of \notin raced' => Faithful(d))
      BY <2>a, <2>b, <2>c DEF ActiveOK
    <3>2. ASSUME NEW t \in S!Services, services[t].phase = "starting", ~services[t].migrates,
                 NEW d \in S!States', d.of = services[t].opened
          PROVE  d.live # None
      BY <2>b, <2>c, <3>2 DEF ActiveOK, S!States
    <3>. QED
      BY <2>a, <3>1, <3>2 DEF ActiveOK
  <2>4. WholeOK'
    <3>1. data \in S!States
      BY <2>b DEF S!States
    <3>. QED
      BY <2>a, <2>b, <2>c, <3>1 DEF WholeOK
  <2>. QED
    BY <2>1, <2>2, <2>3, <2>4 DEF StateInv
<1>6. ASSUME NEW b \in Stamps, S!CutsOver(b) PROVE StateInv'

  <2>. DEFINE u == S!Upgraded(S!Fresh(made + 1), TRUE)
  <2>0. S!IsState(data) /\ data \in S!StateRecords /\ data \in S!States
    BY <1>6, IsStates DEF S!CutsOver, StateTypes, S!States
  <2>a. /\ S!IsState(data) /\ data \in S!StateRecords /\ data \in S!States
        /\ backups[b] = None /\ backups' = [backups EXCEPT ![b] = data]
        /\ made + 1 \in 1..MaxStates /\ made + 1 \in Nat /\ made' = made + 1 /\ S!Becomes(u)
        /\ UNCHANGED <<archive, exporter, importer, services, raced, cut>>
    <3>1. made \in 0..MaxStates /\ MaxStates \in Nat /\ made < MaxStates
      BY <1>6, StateAssumption DEF S!CutsOver, StateTypes
    <3>2. made + 1 \in 1..MaxStates /\ made + 1 \in Nat
      BY <3>1
    <3>3. made' = made + 1 /\ S!Becomes(u)
      BY <1>6 DEF S!CutsOver
    <3>. HIDE DEF u
    <3>. QED
      BY <1>6, <2>0, <3>2, <3>3 DEF S!CutsOver, S!Tools
  <2>b. u \in S!StateRecords /\ u.of = made + 1 /\ u.files = "all" /\ Sound(u) /\ Faithful(u)
    <3>. DEFINE f == S!Fresh(made + 1)
    <3>1. /\ f \in S!StateRecords /\ f.of = made + 1 /\ f.live = None /\ f.files = "all"
          /\ Sound(f) /\ Faithful(f)
      BY <2>a, FreshState
    <3>. HIDE DEF f
    <3>2. /\ S!Upgraded(f, TRUE) \in S!StateRecords /\ S!Upgraded(f, TRUE).of = made + 1
          /\ S!Upgraded(f, TRUE).files = "all" /\ Sound(S!Upgraded(f, TRUE)) /\ Faithful(S!Upgraded(f, TRUE))
      BY <3>1, UpgradedState
    <3>. QED
      BY <3>2 DEF f
  <2>. HIDE DEF u
  <2>c. data' = u /\ S!IsState(data') /\ held' = held \cup {made + 1}
    BY <2>a, <2>b, IsStates DEF S!Becomes
  <2>d. /\ backups'[b] = data /\ \A c \in Stamps \ {b} : backups'[c] = backups[c]
        /\ backups' \in [Stamps -> S!StateRecords \cup {None, Empty}]
    BY <2>a DEF StateTypes
  <2>e. \A d \in S!States' : d = data' \/ d \in S!States
    BY <2>a, <2>d DEF S!States
  <2>f. made \in Nat /\ made + 1 \notin held
    BY <2>a DEF StateTypes
  <2>1. StateTypes'

    <3>1. made' \in 0..MaxStates /\ held' \subseteq 1..made' /\ raced' \subseteq held'
      <4>1. made \in Nat /\ made + 1 \in 1..MaxStates /\ held \subseteq 1..made /\ raced \subseteq held
        BY <2>a, <2>f DEF StateTypes
      <4>2. made' = made + 1 /\ held' = held \cup {made + 1} /\ raced' = raced
        BY <2>a, <2>c
      <4>. QED
        BY <4>1, <4>2
    <3>. QED
      BY <2>a, <2>b, <2>c, <2>d, <3>1 DEF StateTypes
  <2>2. PlacesOK'

    <3>1. \A i \in Importers : importer[i] # S!Off => importer[i].staged.of \in (1..made') \ held'
      BY <2>a, <2>c, <2>f DEF PlacesOK
    <3>2. ~S!IsState(backups[b])
      BY <2>a, IsStates
    <3>3. \A i \in held' : (S!IsState(data)' /\ data'.of = i) \/ \E c \in Stamps : S!IsState(backups'[c]) /\ backups'[c].of = i
      BY <2>a, <2>b, <2>c, <2>d, <3>2 DEF PlacesOK
    <3>4. \A c \in Stamps : S!IsState(backups'[c]) =>
            /\ backups'[c].of \in held /\ backups'[c].of # data'.of
            /\ \A k \in Stamps \ {c} : S!IsState(backups'[k]) => backups'[k].of # backups'[c].of
      BY <2>a, <2>b, <2>c, <2>d, <2>f, <3>2 DEF PlacesOK
    <3>. QED
      BY <2>a, <2>b, <2>c, <3>1, <3>3, <3>4 DEF PlacesOK
  <2>3. ActiveOK'

    <3>1. \A d \in S!States' : Sound(d) /\ (d.of \notin raced' => Faithful(d))
      BY <2>a, <2>b, <2>c, <2>e DEF ActiveOK
    <3>2. ASSUME NEW t \in S!Services, services[t].phase = "starting", ~services[t].migrates,
                 NEW d \in S!States', d.of = services[t].opened
          PROVE  d.live # None
      BY <2>b, <2>c, <2>e, <2>f, <3>2 DEF ActiveOK, PlacesOK
    <3>. QED
      BY <2>a, <3>1, <3>2 DEF ActiveOK
  <2>4. WholeOK'

    BY <2>a, <2>b, <2>c, <2>e DEF WholeOK
  <2>. QED
    BY <2>1, <2>2, <2>3, <2>4 DEF StateInv
<1>7. CASE S!BeginsExport

  <2>a. /\ data \in Exported /\ exporter = None /\ exporter' = data /\ archive' \in S!Prefixes(data)
        /\ data \in S!States
    BY <1>7, IsStates, Exports DEF S!BeginsExport, StateTypes, S!States
  <2>b. UNCHANGED <<data, backups, held, importer, services, made, raced, cut>>
    BY <1>7 DEF S!BeginsExport, S!Files, S!Counters
  <2>c. archive' \in Exported \cup {Broken} /\ (archive' \in Exported => Sound(archive'))
    BY <2>a, ArchivedState DEF ActiveOK
  <2>1. StateTypes'
    BY <2>a, <2>b, <2>c DEF StateTypes
  <2>2. PlacesOK'
    BY IsStates, <1>7 DEF S!BeginsExport, S!ServicesStopped, S!Importable, S!Files, S!Counters, StateTypes,
       PlacesOK
  <2>3. ActiveOK'
    BY <2>a, <2>b, <2>c DEF ActiveOK, S!States
  <2>4. WholeOK'
    BY <2>a, <2>b, Exports DEF WholeOK, S!States
  <2>. QED
    BY <2>1, <2>2, <2>3, <2>4 DEF StateInv
<1>8. CASE S!EndsExport

  <2>a. /\ exporter \in Exported /\ exporter' = None
        /\ archive' = exporter \/ archive' = Broken \/ (archive' = data /\ data \in Exported)
    <3>1. exporter \in Exported
      BY <1>8 DEF S!EndsExport, StateTypes
    <3>2. archive' \in {data, exporter, Broken} /\ (archive' = data => data = exporter \/ S!Importable(data) \/ data = Broken)
      BY <1>8 DEF S!EndsExport
    <3>. QED
      BY <1>8, <3>1, <3>2, Exports, StateAssumption DEF S!EndsExport, StateTypes
  <2>b. UNCHANGED <<data, backups, held, importer, services, made, raced, cut>>
    BY <1>8 DEF S!EndsExport, S!Files, S!Counters
  <2>c. data \in Exported => data \in S!States
    BY IsStates, Exports DEF S!States
  <2>1. StateTypes'
    BY <2>a, <2>b DEF StateTypes
  <2>2. PlacesOK'
    BY IsStates, <1>8 DEF S!EndsExport, S!Importable, S!Files, S!Counters, StateTypes, PlacesOK
  <2>3. ActiveOK'
    BY <2>a, <2>b, <2>c, Exports DEF ActiveOK, S!States
  <2>4. WholeOK'
    BY <2>a, <2>b, <2>c, Exports DEF WholeOK, S!States
  <2>. QED
    BY <2>1, <2>2, <2>3, <2>4 DEF StateInv
<1>9. CASE S!ExportFails
  <2>1. StateTypes'
    BY IsStates, <1>9 DEF S!ExportFails, S!Files, S!Counters, StateTypes
  <2>2. PlacesOK'
    BY IsStates, <1>9 DEF S!ExportFails, S!Files, S!Counters, StateTypes, PlacesOK
  <2>3. ActiveOK'
    BY IsStates, Exports, <1>9 DEF S!ExportFails, S!Files, S!Counters, StateTypes, ActiveOK, S!States
  <2>4. WholeOK'
    BY IsStates, Exports, <1>9 DEF S!ExportFails, S!Files, S!Counters, StateTypes, WholeOK, S!States
  <2>. QED
    BY <2>1, <2>2, <2>3, <2>4 DEF StateInv
<1>10. CASE S!ExporterDies
  <2>1. StateTypes'
    BY IsStates, <1>10 DEF S!ExporterDies, S!Files, StateTypes
  <2>2. PlacesOK'
    BY IsStates, <1>10 DEF S!ExporterDies, S!Files, StateTypes, PlacesOK
  <2>3. ActiveOK'
    BY IsStates, Exports, <1>10 DEF S!ExporterDies, S!Files, S!Counters, StateTypes, ActiveOK, S!States
  <2>4. WholeOK'
    BY IsStates, Exports, <1>10 DEF S!ExporterDies, S!Files, S!Counters, StateTypes, WholeOK, S!States
  <2>. QED
    BY <2>1, <2>2, <2>3, <2>4 DEF StateInv
<1>11. CASE S!Discards
  <2>1. StateTypes'
    BY IsStates, <1>11 DEF S!Discards, S!Files, S!Counters, StateTypes
  <2>2. PlacesOK'
    BY IsStates, <1>11 DEF S!Discards, S!Files, S!Counters, StateTypes, PlacesOK
  <2>3. ActiveOK'
    BY IsStates, Exports, <1>11 DEF S!Discards, S!Files, S!Counters, StateTypes, ActiveOK, S!States
  <2>4. WholeOK'
    BY IsStates, Exports, <1>11 DEF S!Discards, S!Files, S!Counters, StateTypes, WholeOK, S!States
  <2>. QED
    BY <2>1, <2>2, <2>3, <2>4 DEF StateInv
<1>12. ASSUME NEW i \in Importers, NEW replace \in BOOLEAN, S!BeginsImport(i, replace) PROVE StateInv'

  <2>a. PICK source \in {archive} \cup {backups[b] : b \in Stamps} :
          /\ S!Importable(source)
          /\ cut' = (cut \/ (source = archive /\ exporter # None))
          /\ made' = made + 1
          /\ importer' = [importer EXCEPT ![i] =
                  [pc |-> "staged", existing |-> S!IsState(data), staged |-> S!Copy(source, made + 1)]]
    BY <1>12 DEF S!BeginsImport
  <2>. DEFINE c == S!Copy(source, made + 1)
  <2>b. /\ made \in Nat /\ made < MaxStates /\ importer[i] = S!Off
        /\ UNCHANGED <<data, backups, held, archive, exporter, services, raced>>
    BY <1>12 DEF S!BeginsImport, S!Files, StateTypes
  <2>c. source \in Exported /\ (source = archive \/ source \in S!States)
    BY <2>a, Exports, IsStates DEF StateTypes, S!States
  <2>d. c \in Exported /\ c.of = made + 1 /\ c.files = source.files /\ Sound(c) /\ Faithful(c)
    <3>1. made + 1 \in Nat
      BY <2>b
    <3>2. Sound(source)
      BY <2>c DEF ActiveOK
    <3>. QED
      BY <2>c, <3>1, <3>2, CopiedState
  <2>e. importer' = [importer EXCEPT ![i] = [pc |-> "staged", existing |-> S!IsState(data), staged |-> c]]
    BY <2>a
  <2>. HIDE DEF c
  <2>f. /\ \A j \in Importers \ {i} : importer'[j] = importer[j]
        /\ importer'[i].staged = c /\ importer'[i] # S!Off
    BY <2>e DEF StateTypes, S!Off
  <2>g. made + 1 \notin held /\ \A j \in Importers : importer[j] # S!Off => importer[j].staged.of # made + 1
    BY <2>b DEF StateTypes, PlacesOK
  <2>1. StateTypes'

    <3>1. S!IsState(data) \in BOOLEAN
      BY DEF S!IsState
    <3>. DEFINE I == {S!Off} \cup [pc : {"staged", "place"}, existing : BOOLEAN, staged : Exported]
                x == [pc |-> "staged", existing |-> S!IsState(data), staged |-> c]
    <3>2. x \in I
      BY <2>d, <3>1
    <3>3. importer' \in [Importers -> I]
      <4>1. importer \in [Importers -> I] /\ importer' = [importer EXCEPT ![i] = x]
        BY <2>e DEF StateTypes
      <4>. HIDE DEF I, x
      <4>. QED
        BY <3>2, <4>1
    <3>4. made' \in 0..MaxStates /\ held' \subseteq 1..made' /\ cut' \in BOOLEAN
      <4>1. made' = made + 1 /\ held' = held /\ held \subseteq 1..made /\ MaxStates \in Nat
        BY <2>a, <2>b, StateAssumption DEF StateTypes
      <4>2. cut' \in BOOLEAN
        BY <2>a DEF StateTypes
      <4>. QED
        BY <2>b, <4>1, <4>2
    <3>. QED
      BY <2>b, <3>3, <3>4 DEF StateTypes
  <2>2. PlacesOK'

    <3>1. \A j \in Importers : importer'[j] # S!Off => importer'[j].staged.of \in (1..made') \ held'
      <4>1. made' = made + 1 /\ held' = held /\ made + 1 \in 1..made'
        BY <2>a, <2>b
      <4>2. \A j \in Importers : importer[j] # S!Off => importer[j].staged.of \in (1..(made + 1)) \ held
        BY <2>b DEF PlacesOK
      <4>. QED
        BY <2>d, <2>f, <2>g, <4>1, <4>2
    <3>2. \A j \in Importers : importer'[j] # S!Off =>
            \A k \in Importers \ {j} : importer'[k] # S!Off => importer'[k].staged.of # importer'[j].staged.of
      BY <2>d, <2>f, <2>g DEF PlacesOK
    <3>. QED
      BY <2>b, <3>1, <3>2 DEF PlacesOK
  <2>3. ActiveOK'

    BY <2>b, <2>d, <2>f DEF ActiveOK, S!States
  <2>4. WholeOK'

    <3>1. c.files = "cut" => cut'
      BY <2>a, <2>c, <2>d DEF WholeOK
    <3>2. cut => cut'
      BY <2>a
    <3>. QED
      BY <2>b, <2>f, <3>1, <3>2 DEF WholeOK, S!States
  <2>. QED
    BY <2>1, <2>2, <2>3, <2>4 DEF StateInv
<1>13. ASSUME NEW i \in Importers, NEW b \in Stamps, S!MovesAside(i, b) PROVE StateInv'
  <2>1. StateTypes'
    BY IsStates, <1>13 DEF S!MovesAside, S!EndsImport, S!ImporterStays, S!Counters, S!Off, StateTypes
  <2>2. PlacesOK'
    BY IsStates, <1>13 DEF S!MovesAside, S!EndsImport, S!ImporterStays, S!Counters, S!Off, StateTypes, PlacesOK
  <2>3. ActiveOK'
    BY IsStates, <1>13 DEF S!MovesAside, S!EndsImport, S!ImporterStays, S!Counters, S!Off, StateTypes, ActiveOK,
       S!States
  <2>4. WholeOK'
    BY IsStates, <1>13 DEF S!MovesAside, S!EndsImport, S!ImporterStays, S!Counters, S!Off, StateTypes, WholeOK,
       S!States
  <2>. QED
    BY <2>1, <2>2, <2>3, <2>4 DEF StateInv
<1>14. ASSUME NEW i \in Importers, S!PlacesState(i) PROVE StateInv'

  <2>. DEFINE n == importer[i].staged
  <2>a. /\ importer' = [importer EXCEPT ![i] = S!Off]
        /\ UNCHANGED <<backups, archive, exporter, services, made, raced, cut>>
    BY <1>14 DEF S!PlacesState, S!EndsImport, S!ImporterStays, S!Counters
  <2>b. importer[i] # S!Off /\ n \in Exported /\ n \in S!StateRecords /\ S!IsState(n)
    BY <1>14, IsStates, Exports DEF S!PlacesState, StateTypes, S!Off
  <2>c. \/ UNCHANGED <<data, held>>
        \/ ~S!IsState(data) /\ data' = n /\ held' = held \cup {n.of}
    BY <1>14, <2>b DEF S!PlacesState, S!Becomes
  <2>d. n.of \in (1..made) \ held /\ Sound(n) /\ Faithful(n) /\ (n.files = "cut" => cut)
    BY <2>b DEF PlacesOK, ActiveOK, WholeOK
  <2>e. \A j \in Importers : importer'[j] # S!Off => j # i /\ importer'[j] = importer[j]
    BY <2>a DEF StateTypes
  <2>. HIDE DEF n
  <2>f. \A d \in S!States' : d \in S!States \/ (d = n /\ data' = n /\ held' = held \cup {n.of})
    BY <2>a, <2>c DEF S!States
  <2>1. StateTypes'

    BY <2>a, <2>b, <2>c, <2>d DEF StateTypes
  <2>2. PlacesOK'

    <3>1. \A j \in Importers : importer'[j] # S!Off => importer[j].staged.of # n.of
      BY <2>b, <2>e DEF PlacesOK, n
    <3>. QED
      BY <2>a, <2>b, <2>c, <2>d, <2>e, <3>1 DEF PlacesOK
  <2>3. ActiveOK'

    <3>1. \A d \in S!States' : Sound(d) /\ (d.of \notin raced' => Faithful(d))
      BY <2>a, <2>d, <2>f DEF ActiveOK
    <3>2. ASSUME NEW t \in S!Services, services[t].phase = "starting", ~services[t].migrates,
                 NEW d \in S!States', d.of = services[t].opened
          PROVE  d.live # None
      BY <2>d, <2>f, <3>2 DEF ActiveOK, PlacesOK
    <3>. QED
      BY <2>a, <2>e, <3>1, <3>2 DEF ActiveOK
  <2>4. WholeOK'

    BY <2>a, <2>d, <2>e, <2>f DEF WholeOK
  <2>. QED
    BY <2>1, <2>2, <2>3, <2>4 DEF StateInv
<1>15. ASSUME NEW i \in Importers, S!ImporterDies(i) PROVE StateInv'
  <2>1. StateTypes'
    BY IsStates, <1>15 DEF S!ImporterDies, S!Off, S!EndsImport, S!ImporterStays, S!Files, S!Counters, StateTypes
  <2>2. PlacesOK'
    BY IsStates, <1>15 DEF S!ImporterDies, S!Off, S!EndsImport, S!ImporterStays, S!Files, S!Counters, StateTypes,
       PlacesOK
  <2>3. ActiveOK'
    BY IsStates, <1>15 DEF S!ImporterDies, S!Off, S!EndsImport, S!ImporterStays, S!Files, S!Counters, StateTypes,
       ActiveOK, S!States
  <2>4. WholeOK'
    BY IsStates, <1>15 DEF S!ImporterDies, S!Off, S!EndsImport, S!ImporterStays, S!Files, S!Counters, StateTypes,
       WholeOK, S!States
  <2>. QED
    BY <2>1, <2>2, <2>3, <2>4 DEF StateInv
<1>16. CASE UNCHANGED S!stateVars
  BY <1>16 DEF S!stateVars, StateInv, StateTypes, PlacesOK, ActiveOK, WholeOK, S!States
<1>. QED
  BY <1>1, <1>2, <1>3, <1>4, <1>5, <1>6, <1>7, <1>8, <1>9, <1>10, <1>11, <1>12, <1>13, <1>14, <1>15,
     <1>16 DEF S!StateNext

LEMMA StateStart == S!StateInit => StateInv
<1>. SUFFICES ASSUME S!StateInit PROVE StateInv
  OBVIOUS
<1>1. \A d : S!IsOld(d) => d \in S!StateRecords /\ d.of = 1 /\ d.files = "all" /\ Sound(d) /\ Faithful(d)
  <2>. SUFFICES ASSUME NEW d, S!IsOld(d)
                PROVE  d \in S!StateRecords /\ d.of = 1 /\ d.files = "all" /\ Sound(d) /\ Faithful(d)
    OBVIOUS
  <2>1. ASSUME NEW v \in 0..6, NEW p \in BOOLEAN, NEW l \in BOOLEAN \cup {None}
        PROVE  LET e == S!State(1, v, l, p, p) IN e \in S!StateRecords /\ e.of = 1 /\ e.files = "all"
    BY DEF S!State, S!StateRecords
  <2>2. ASSUME NEW v \in {2, 3, 4}, NEW p \in BOOLEAN
        PROVE  Sound(S!State(1, v, None, p, p)) /\ Faithful(S!State(1, v, None, p, p))
    BY DEF S!State, Sound, Faithful
  <2>3. ASSUME NEW v \in {4, 5, 6}, NEW p \in BOOLEAN
        PROVE  LET e == S!State(1, v, p, TRUE, p) IN
               e \in S!StateRecords /\ e.of = 1 /\ e.files = "all" /\ Sound(e) /\ Faithful(e)
    <3>. DEFINE e == S!State(1, v, p, TRUE, p)
    <3>1. e.of = 1 /\ e.files = "all" /\ e.live = p /\ e.wanted = p
      BY DEF S!State
    <3>2. e \in S!StateRecords
      BY DEF S!State, S!StateRecords
    <3>3. p # None
      BY StateAssumption
    <3>. HIDE DEF e
    <3>4. Faithful(e)
      BY <3>1 DEF Faithful
    <3>5. Sound(e)
      <4>1. e.live # None
        BY <3>1, <3>3
      <4>. QED
        BY <4>1 DEF Sound
    <3>. QED
      BY <3>1, <3>2, <3>4, <3>5 DEF e
  <2>4. Sound(S!State(1, 1, None, FALSE, FALSE)) /\ Faithful(S!State(1, 1, None, FALSE, FALSE))
    BY DEF S!State, Sound, Faithful
  <2>5. \/ \E v \in {2, 3, 4}, p \in BOOLEAN : d = S!State(1, v, None, p, p)
        \/ \E v \in {4, 5, 6}, p \in BOOLEAN : d = S!State(1, v, p, TRUE, p)
        \/ d = S!State(1, 1, None, FALSE, FALSE)
    BY DEF S!IsOld
  <2>6. {2, 3, 4} \subseteq 0..6 /\ {4, 5, 6} \subseteq 0..6 /\ 1 \in 0..6
    OBVIOUS
  <2>7. CASE \E v \in {2, 3, 4}, p \in BOOLEAN : d = S!State(1, v, None, p, p)
    BY <2>1, <2>2, <2>6, <2>7
  <2>8. CASE \E v \in {4, 5, 6}, p \in BOOLEAN : d = S!State(1, v, p, TRUE, p)
    BY <2>3, <2>8
  <2>9. CASE d = S!State(1, 1, None, FALSE, FALSE)
    BY <2>1, <2>4, <2>6, <2>9
  <2>. QED
    BY <2>5, <2>7, <2>8, <2>9
<1>2. LET a == S!State(0, 4, None, TRUE, TRUE) IN a \in Exported /\ a.files = "all" /\ Sound(a)
  BY StateAssumption DEF S!State, Exported, S!StateRecords, Sound
<1>3. /\ data \in {None, Empty} \/ S!IsOld(data)
      /\ archive = None \/ (archive \in Exported /\ archive.files = "all" /\ Sound(archive))
      /\ \A b \in Stamps : backups[b] = None
      /\ backups \in [Stamps -> {None}]
      /\ exporter = None /\ \A i \in Importers : importer[i] = S!Off
      /\ importer \in [Importers -> {S!Off}]
      /\ \A s \in S!Services : services[s].phase = "down"
      /\ services \in [S!Services -> [phase : {"down"}]]
      /\ raced = {} /\ cut = FALSE
  <2>1. archive = None \/ (archive \in Exported /\ archive.files = "all" /\ Sound(archive))
    BY <1>2 DEF S!StateInit
  <2>2. \A b \in Stamps : backups[b] = None
    BY DEF S!StateInit
  <2>3. services \in [S!Services -> [phase : {"down"}]] /\ \A s \in S!Services : services[s].phase = "down"
    BY DEF S!StateInit, S!Phase
  <2>4. importer \in [Importers -> {S!Off}] /\ backups \in [Stamps -> {None}]
    BY DEF S!StateInit
  <2>. QED
    BY <2>1, <2>2, <2>3, <2>4 DEF S!StateInit
<1>4. /\ S!IsState(data) => made = 1 /\ held = {1} /\ S!IsOld(data)
      /\ ~S!IsState(data) => made = 0 /\ held = {}
      /\ data \in S!StateRecords \cup {None, Empty}
  <2>1. 1..1 = {1} /\ 1..0 = {}
    OBVIOUS
  <2>. QED
    BY <1>1, <1>3, <2>1, IsStates DEF S!StateInit
<1>5. StateTypes
  <2>1. made \in 0..MaxStates /\ held \subseteq 1..made
    BY <1>4, StateAssumption
  <2>2. exporter \in Exported \cup {None} /\ archive \in Exported \cup {None, Broken}
    BY <1>3
  <2>3. /\ importer \in [Importers -> {S!Off} \cup [pc : {"staged", "place"}, existing : BOOLEAN, staged : Exported]]
        /\ backups \in [Stamps -> S!StateRecords \cup {None, Empty}]
        /\ services \in [S!Services -> [phase : {"down", "up", "degraded"}]
                                       \cup [phase : {"starting"}, opened : Nat, migrates : BOOLEAN]]
    <3>1. [phase : {"down"}] \subseteq [phase : {"down", "up", "degraded"}]
      OBVIOUS
    <3>. QED
      BY <1>3, <3>1
  <2>4. raced \subseteq held /\ cut \in BOOLEAN
    BY <1>3
  <2>. QED
    BY <1>4, <2>1, <2>2, <2>3, <2>4 DEF StateTypes
<1>6. PlacesOK
  BY <1>1, <1>3, <1>4, IsStates DEF PlacesOK
<1>7. ActiveOK
  BY <1>1, <1>3, <1>4, IsStates, Exports DEF ActiveOK, S!States
<1>8. WholeOK
  BY <1>1, <1>3, <1>4, IsStates, Exports DEF WholeOK, S!States
<1>. QED
  BY <1>5, <1>6, <1>7, <1>8 DEF StateInv

LEMMA StateHolds == StateInv => S!StateTypesOK /\ S!NothingIsLost /\ S!ActivationSurvives /\ S!ImportsAreWhole
<1>. SUFFICES ASSUME StateInv PROVE S!StateTypesOK /\ S!NothingIsLost /\ S!ActivationSurvives /\ S!ImportsAreWhole
  OBVIOUS
<1>0. StateTypes /\ PlacesOK /\ ActiveOK /\ WholeOK
  BY DEF StateInv
<1>1. S!StateTypesOK
  <2>1. held \subseteq 1..MaxStates
    BY <1>0, StateAssumption DEF StateTypes
  <2>2. (data \in {None, Empty} \/ data.version \in 0..6) /\ (archive \in {None, Broken} \/ archive.version \in {4, 5})
    BY <1>0 DEF StateTypes, S!StateRecords, Exported
  <2>. QED
    BY <1>0, <2>1, <2>2 DEF StateTypes, S!StateTypesOK
<1>2. S!NothingIsLost
  BY <1>0 DEF PlacesOK, S!NothingIsLost, S!States
<1>3. S!ActivationSurvives
  <2>. SUFFICES ASSUME NEW d \in S!States, d.version = 5, d.of \notin raced PROVE d.live = d.wanted
    BY DEF S!ActivationSurvives
  <2>1. Sound(d) /\ Faithful(d)
    BY <1>0 DEF ActiveOK
  <2>. QED
    BY <2>1 DEF Sound, Faithful
<1>4. S!ImportsAreWhole
  BY <1>0 DEF WholeOK, S!ImportsAreWhole
<1>. QED
  BY <1>1, <1>2, <1>3, <1>4

---------------------------------------------------------------------------
(* Logs *)

LogFiles ==
    /\ sessions \in Nat /\ session \in {0, sessions} /\ written \in Nat
    /\ sessions <= MaxSessions /\ written <= MaxRecords
    /\ logs \in Seq(G!Lines) /\ Len(logs) <= MaxKept
    /\ G!FileIsMemory

Streams == [sent : 0..MaxKept, session : Nat, got : Seq(G!Lines)]

\* Records are in the order in which they were written, and so are the sessions.
LogsInOrder ==
    /\ \A i, j \in 1..Len(logs) : i < j => logs[i].id < logs[j].id /\ logs[i].session <= logs[j].session
    /\ \A i \in 1..Len(logs) : logs[i].id <= written /\ logs[i].session <= sessions

First == IF G!Shown = <<>> THEN 0 ELSE G!Shown[1].session

\* What a stream would send next is newer than what it sent.
StreamsAhead ==
    \A c \in Clients :
        /\ \A i \in 1..Len(tail[c].got) : tail[c].got[i].id <= written
        /\ \A i \in 1..Len(tail[c].got), j \in 1..Len(G!Shown) :
             G!Rewound(tail[c], First, G!Shown) < j => tail[c].got[i].id < G!Shown[j].id

\* A stream that follows the session shown has a count that fits, and sent the record there.
StreamsFit ==
    \A c \in Clients :
        /\ tail[c].session <= sessions
        /\ tail[c].session # 0 /\ tail[c].session = session => G!Shown # <<>>
        /\ G!Shown # <<>> /\ tail[c].session = G!Shown[1].session =>
             /\ 1 <= tail[c].sent /\ tail[c].sent <= Len(G!Shown)
             /\ Len(G!Shown) # MaxKept =>
                  tail[c].got # <<>> /\ tail[c].got[Len(tail[c].got)] = G!Shown[tail[c].sent]

LogInv ==
    /\ LogFiles /\ tail \in [Clients -> Streams]
    /\ LogsInOrder /\ G!TailsAreInOrder /\ StreamsAhead /\ StreamsFit

---------------------------------------------------------------------------
(* Logs: filters, by induction over a sequence *)

\* The number below which nothing is in a set of numbers.
LEMMA LeastNumber ==
  ASSUME NEW A \in SUBSET Nat, A # {}
  PROVE  \E n \in A : \A m \in A : n <= m
<1>. DEFINE R == OpToRel(<, Nat)
<1>1. IsWellFoundedOn(R, Nat)
  BY NatLessThanWellFounded, Zenon
<1>. HIDE DEF R
<1>2. PICK n \in A : \A y \in A : ~ (<<y, n>> \in R)
  BY <1>1, WFMin
<1>3. \A m \in A : ~ (m < n)
  <2>. SUFFICES ASSUME NEW m \in A, m < n PROVE FALSE
    OBVIOUS
  <2>1. <<m, n>> \in R
    BY DEF R, OpToRel
  <2>. QED
    BY <1>2, <2>1
<1>. QED
  BY <1>3

\* Induction up to a bound: a least number that is not good would follow a good one.
LEMMA UpTo ==
  ASSUME NEW N \in Nat, NEW Good \in SUBSET (0..N), 0 \in Good,
         \A i \in 0..(N - 1) : i \in Good => i + 1 \in Good
  PROVE  Good = 0..N
<1>. SUFFICES ASSUME (0..N) \ Good # {} PROVE FALSE
  OBVIOUS
<1>1. (0..N) \ Good \in SUBSET Nat
  OBVIOUS
<1>2. PICK n \in (0..N) \ Good : \A m \in (0..N) \ Good : n <= m
  BY <1>1, LeastNumber
<1>3. n # 0 /\ n - 1 \in 0..(N - 1)
  BY <1>2
<1>4. n - 1 \in Good
  BY <1>2, <1>3
<1>5. (n - 1) + 1 = n
  BY <1>2
<1>. QED
  BY <1>2, <1>3, <1>4, <1>5

\* The filter's prefixes, one from the other.
LEMMA KeptPrefixes ==
  ASSUME NEW X, NEW s \in Seq(X), NEW wanted
  PROVE  /\ G!Kept(s, wanted)[0] = <<>>
         /\ \A i \in 1..Len(s) :
              G!Kept(s, wanted)[i] = IF s[i] \in wanted THEN Append(G!Kept(s, wanted)[i - 1], s[i]) ELSE G!Kept(s, wanted)[i - 1]
<1>. DEFINE N == Len(s)
            Step(g, i) == IF i = 0 THEN <<>> ELSE IF s[i] \in wanted THEN Append(g[i - 1], s[i]) ELSE g[i - 1]
            Good == {n \in 0..N : \E g : g = [i \in 0..n |-> Step(g, i)]}
<1>0. N \in Nat
  OBVIOUS
<1>1. 0 \in Good
  <2>. DEFINE g == [i \in 0..0 |-> Step(<<>>, 0)]
  <2>1. g = [i \in 0..0 |-> Step(g, i)]
    OBVIOUS
  <2>. HIDE DEF g, Step
  <2>. QED
    BY <1>0, <2>1
<1>2. ASSUME NEW n \in 0..(N - 1), n \in Good PROVE n + 1 \in Good
  <2>1. PICK g : g = [i \in 0..n |-> Step(g, i)]
    BY <1>2
  <2>. DEFINE h == [i \in 0..(n + 1) |-> IF i = n + 1 THEN Step(g, n + 1) ELSE g[i]]
  <2>a. n \in Nat /\ n + 1 \in 0..(n + 1) /\ \A i \in 0..n : i \in 0..(n + 1) /\ i # n + 1
    BY <1>0
  <2>2. \A i \in 0..n : h[i] = g[i] /\ g[i] = Step(g, i)
    <3>1. \A i \in 0..n : h[i] = g[i]
      BY <2>a
    <3>. HIDE DEF h, Step
    <3>. QED
      BY <2>1, <3>1
  <2>b. h[n + 1] = Step(g, n + 1)
    BY <2>a
  <2>3. \A i \in 0..(n + 1) : h[i] = Step(h, i)
    <3>1. ASSUME NEW i \in 0..n PROVE h[i] = Step(h, i)
      <4>1. i # 0 => i - 1 \in 0..n
        BY <2>a
      <4>2. i # 0 => h[i - 1] = g[i - 1]
        BY <2>2, <4>1
      <4>3. Step(h, i) = Step(g, i)
        <5>. HIDE DEF h
        <5>. QED
          BY <4>2
      <4>. HIDE DEF h, Step
      <4>. QED
        BY <2>2, <4>3
    <3>2. h[n + 1] = Step(h, n + 1)
      <4>1. (n + 1) - 1 = n /\ n \in 0..n
        BY <2>a
      <4>2. h[n] = g[n]
        BY <2>2, <4>1
      <4>3. Step(h, n + 1) = Step(g, n + 1)
        <5>. HIDE DEF h
        <5>. QED
          BY <4>1, <4>2
      <4>. HIDE DEF h, Step
      <4>. QED
        BY <2>b, <4>3
    <3>3. \A i \in 0..(n + 1) : i \in 0..n \/ i = n + 1
      BY <2>a
    <3>. HIDE DEF h, Step
    <3>. QED
      BY <3>1, <3>2, <3>3
  <2>4. h = [i \in 0..(n + 1) |-> Step(h, i)]
    <3>1. h = [i \in 0..(n + 1) |-> h[i]]
      OBVIOUS
    <3>. HIDE DEF Step, h
    <3>. QED
      BY <2>3, <3>1
  <2>5. n + 1 \in 0..N
    BY <1>0
  <2>. HIDE DEF h, Step
  <2>. QED
    BY <2>4, <2>5
<1>3. N \in Good
  <2>. HIDE DEF Good, N
  <2>1. Good \in SUBSET (0..N)
    BY DEF Good
  <2>2. Good = 0..N
    BY <1>0, <1>1, <1>2, <2>1, UpTo
  <2>. QED
    BY <1>0, <2>2
<1>4. G!Kept(s, wanted) = [i \in 0..N |-> Step(G!Kept(s, wanted), i)]
  BY <1>3 DEF G!Kept
<1>5. 0 \in 0..N /\ \A i \in 1..N : i \in 0..N /\ i # 0
  BY <1>0
<1>6. \A i \in 0..N : G!Kept(s, wanted)[i] = Step(G!Kept(s, wanted), i)
  <2>. DEFINE k == G!Kept(s, wanted)
  <2>1. k = [i \in 0..N |-> Step(k, i)]
    BY <1>4
  <2>. HIDE DEF k, Step
  <2>2. \A i \in 0..N : k[i] = Step(k, i)
    BY <2>1
  <2>. QED
    BY <2>2 DEF k
<1>. QED
  BY <1>5, <1>6

\* A longer sequence has the same prefixes.
LEMMA KeptAgrees ==
  ASSUME NEW X, NEW s \in Seq(X), NEW t \in Seq(X), NEW wanted, Len(s) <= Len(t),
         \A i \in 1..Len(s) : s[i] = t[i]
  PROVE  \A i \in 0..Len(s) : G!Kept(s, wanted)[i] = G!Kept(t, wanted)[i]
<1>. DEFINE Good == {i \in 0..Len(s) : G!Kept(s, wanted)[i] = G!Kept(t, wanted)[i]}
<1>1. 0 \in Good
  BY KeptPrefixes
<1>2. ASSUME NEW i \in 0..(Len(s) - 1), i \in Good PROVE i + 1 \in Good
  <2>1. i + 1 \in 1..Len(s) /\ i + 1 \in 1..Len(t) /\ (i + 1) - 1 = i /\ s[i + 1] = t[i + 1]
    OBVIOUS
  <2>2. G!Kept(s, wanted)[i + 1] = IF s[i + 1] \in wanted THEN Append(G!Kept(s, wanted)[i], s[i + 1]) ELSE G!Kept(s, wanted)[i]
    BY <2>1, KeptPrefixes
  <2>3. G!Kept(t, wanted)[i + 1] = IF t[i + 1] \in wanted THEN Append(G!Kept(t, wanted)[i], t[i + 1]) ELSE G!Kept(t, wanted)[i]
    BY <2>1, KeptPrefixes
  <2>. QED
    BY <1>2, <2>1, <2>2, <2>3
<1>3. Len(s) \in Nat /\ Good \in SUBSET (0..Len(s))
  OBVIOUS
<1>4. Good = 0..Len(s)
  <2>. HIDE DEF Good
  <2>. QED
    BY <1>1, <1>2, <1>3, UpTo
<1>. QED
  BY <1>4

\* The filter of one more.
LEMMA ThoseAppended ==
  ASSUME NEW X, NEW s \in Seq(X), NEW x \in X, NEW wanted
  PROVE  G!Those(Append(s, x), wanted) = IF x \in wanted THEN Append(G!Those(s, wanted), x) ELSE G!Those(s, wanted)
<1>. DEFINE t == Append(s, x)
<1>1. /\ t \in Seq(X) /\ Len(t) = Len(s) + 1 /\ t[Len(s) + 1] = x
      /\ \A i \in 1..Len(s) : s[i] = t[i]
  BY AppendProperties
<1>2. Len(s) \in Nat /\ Len(s) <= Len(t)
  BY <1>1
<1>. HIDE DEF t
<1>3. G!Kept(t, wanted)[Len(s)] = G!Kept(s, wanted)[Len(s)]
  BY <1>1, <1>2, KeptAgrees
<1>4. Len(s) + 1 \in 1..Len(t) /\ (Len(s) + 1) - 1 = Len(s)
  BY <1>1, <1>2
<1>5. G!Kept(t, wanted)[Len(s) + 1] = IF x \in wanted THEN Append(G!Kept(t, wanted)[Len(s)], x) ELSE G!Kept(t, wanted)[Len(s)]
  BY <1>1, <1>4, KeptPrefixes
<1>. QED
  BY <1>1, <1>3, <1>5 DEF G!Those, t

\* What stays is of the sequence and wanted; if it was in the order of the numbers it still is.
LEMMA ThoseInOrder ==
  ASSUME NEW X, NEW s \in Seq(X), NEW wanted,
         \A i, j \in 1..Len(s) : i < j => s[i].id < s[j].id
  PROVE  /\ G!Those(s, wanted) \in Seq(X) /\ Len(G!Those(s, wanted)) <= Len(s)
         /\ \A k \in 1..Len(G!Those(s, wanted)) :
              G!Those(s, wanted)[k] \in wanted /\ \E j \in 1..Len(s) : G!Those(s, wanted)[k] = s[j]
         /\ \A k, l \in 1..Len(G!Those(s, wanted)) : k < l => G!Those(s, wanted)[k].id < G!Those(s, wanted)[l].id
<1>. DEFINE Fits(u, i) ==
              /\ u \in Seq(X) /\ Len(u) <= i
              /\ \A k \in 1..Len(u) : u[k] \in wanted /\ \E j \in 1..i : u[k] = s[j]
              /\ \A k, l \in 1..Len(u) : k < l => u[k].id < u[l].id
            Good == {i \in 0..Len(s) : Fits(G!Kept(s, wanted)[i], i)}
<1>1. 0 \in Good
  <2>1. G!Kept(s, wanted)[0] = <<>>
    BY KeptPrefixes
  <2>2. Fits(<<>>, 0)
    OBVIOUS
  <2>. HIDE DEF Fits
  <2>. QED
    BY <2>1, <2>2
<1>2. ASSUME NEW i \in 0..(Len(s) - 1), i \in Good PROVE i + 1 \in Good
  <2>. DEFINE u == G!Kept(s, wanted)[i]
              v == G!Kept(s, wanted)[i + 1]
  <2>1. i + 1 \in 1..Len(s) /\ (i + 1) - 1 = i /\ i \in Nat /\ s[i + 1] \in X
    OBVIOUS
  <2>2. v = IF s[i + 1] \in wanted THEN Append(u, s[i + 1]) ELSE u
    BY <2>1, KeptPrefixes
  <2>3. Fits(u, i)
    BY <1>2
  <2>. HIDE DEF u, v
  <2>4. CASE s[i + 1] \in wanted
    <3>1. /\ v \in Seq(X) /\ Len(v) = Len(u) + 1 /\ v[Len(u) + 1] = s[i + 1]
          /\ \A k \in 1..Len(u) : v[k] = u[k]
      BY <2>1, <2>2, <2>3, <2>4, AppendProperties
    <3>2. Len(u) \in Nat
      BY <2>3
    <3>3. \A k \in 1..Len(v) : k \in 1..Len(u) \/ k = Len(u) + 1
      BY <3>1, <3>2
    <3>0. \A k \in 1..Len(u) : u[k] \in wanted /\ \E j \in 1..i : u[k] = s[j]
      BY <2>3
    <3>4. ASSUME NEW k \in 1..Len(u) PROVE u[k].id < s[i + 1].id
      <4>1. PICK j \in 1..i : u[k] = s[j]
        BY <3>0
      <4>2. j \in 1..Len(s) /\ i + 1 \in 1..Len(s) /\ j < i + 1
        BY <2>1
      <4>. QED
        BY <4>1, <4>2
    <3>5. ASSUME NEW k \in 1..Len(v) PROVE v[k] \in wanted /\ \E j \in 1..(i + 1) : v[k] = s[j]
      <4>1. CASE k \in 1..Len(u)
        <5>1. PICK j \in 1..i : u[k] = s[j]
          BY <3>0, <4>1
        <5>2. j \in 1..(i + 1) /\ v[k] = u[k]
          BY <2>1, <3>1, <4>1
        <5>. QED
          BY <3>0, <4>1, <5>1, <5>2
      <4>2. CASE k = Len(u) + 1
        <5>1. i + 1 \in 1..(i + 1) /\ v[k] = s[i + 1]
          BY <2>1, <3>1, <4>2
        <5>. QED
          BY <2>4, <5>1
      <4>. QED
        BY <3>3, <4>1, <4>2
    <3>6. \A k, l \in 1..Len(v) : k < l => v[k].id < v[l].id
      <4>. SUFFICES ASSUME NEW k \in 1..Len(v), NEW l \in 1..Len(v), k < l PROVE v[k].id < v[l].id
        OBVIOUS
      <4>1. k \in 1..Len(u)
        BY <3>1, <3>2
      <4>2. CASE l \in 1..Len(u)
        BY <2>3, <3>1, <4>1, <4>2
      <4>3. CASE l = Len(u) + 1
        BY <3>1, <3>4, <4>1, <4>3
      <4>. QED
        BY <3>3, <4>2, <4>3
    <3>7. Len(v) <= i + 1
      BY <2>1, <2>3, <3>1, <3>2
    <3>. QED
      BY <2>1, <3>1, <3>5, <3>6, <3>7 DEF v
  <2>5. CASE s[i + 1] \notin wanted
    <3>1. v = u /\ Fits(u, i + 1)
      <4>1. Len(u) <= i + 1
        BY <2>1, <2>3
      <4>2. \A k \in 1..Len(u) : \E j \in 1..(i + 1) : u[k] = s[j]
        BY <2>1, <2>3
      <4>. QED
        BY <2>2, <2>3, <2>5, <4>1, <4>2
    <3>. QED
      BY <2>1, <3>1 DEF v
  <2>. QED
    BY <2>4, <2>5
<1>3. Len(s) \in Nat /\ Good \in SUBSET (0..Len(s))
  OBVIOUS
<1>4. Good = 0..Len(s)
  <2>. HIDE DEF Good
  <2>. QED
    BY <1>1, <1>2, <1>3, UpTo
<1>5. Fits(G!Those(s, wanted), Len(s))
  BY <1>3, <1>4 DEF G!Those
<1>. QED
  BY <1>5

\* Nothing goes when all are wanted.
LEMMA ThoseAreAll ==
  ASSUME NEW X, NEW s \in Seq(X), NEW wanted, \A i \in 1..Len(s) : s[i] \in wanted
  PROVE  G!Those(s, wanted) = s
<1>. DEFINE Fits(u, i) == u \in Seq(X) /\ Len(u) = i /\ \A k \in 1..i : u[k] = s[k]
            Good == {i \in 0..Len(s) : Fits(G!Kept(s, wanted)[i], i)}
<1>1. 0 \in Good
  <2>1. G!Kept(s, wanted)[0] = <<>>
    BY KeptPrefixes
  <2>2. Fits(<<>>, 0)
    OBVIOUS
  <2>. HIDE DEF Fits
  <2>. QED
    BY <2>1, <2>2
<1>2. ASSUME NEW i \in 0..(Len(s) - 1), i \in Good PROVE i + 1 \in Good
  <2>. DEFINE u == G!Kept(s, wanted)[i]
              v == G!Kept(s, wanted)[i + 1]
  <2>1. i + 1 \in 1..Len(s) /\ (i + 1) - 1 = i /\ i \in Nat /\ s[i + 1] \in X
    OBVIOUS
  <2>2. v = Append(u, s[i + 1])
    <3>1. G!Kept(s, wanted)[i + 1] = IF s[i + 1] \in wanted THEN Append(G!Kept(s, wanted)[(i + 1) - 1], s[i + 1])
                                     ELSE G!Kept(s, wanted)[(i + 1) - 1]
      BY <2>1, KeptPrefixes
    <3>. QED
      BY <2>1, <3>1
  <2>3. Fits(u, i)
    BY <1>2
  <2>. HIDE DEF u, v
  <2>4. /\ v \in Seq(X) /\ Len(v) = i + 1 /\ v[i + 1] = s[i + 1]
        /\ \A k \in 1..i : v[k] = u[k]
    BY <2>1, <2>2, <2>3, AppendProperties
  <2>5. \A k \in 1..(i + 1) : v[k] = s[k]
    BY <2>1, <2>3, <2>4
  <2>. QED
    BY <2>1, <2>4, <2>5 DEF v
<1>3. Len(s) \in Nat /\ Good \in SUBSET (0..Len(s))
  OBVIOUS
<1>4. Good = 0..Len(s)
  <2>. HIDE DEF Good
  <2>. QED
    BY <1>1, <1>2, <1>3, UpTo
<1>5. Fits(G!Those(s, wanted), Len(s))
  BY <1>3, <1>4 DEF G!Those
<1>. QED
  BY <1>5, SeqEqual

\* Nothing stays when none is wanted.
LEMMA ThoseAreNone ==
  ASSUME NEW X, NEW s \in Seq(X), NEW wanted, \A i \in 1..Len(s) : s[i] \notin wanted
  PROVE  G!Those(s, wanted) = <<>>
<1>. DEFINE Good == {i \in 0..Len(s) : G!Kept(s, wanted)[i] = <<>>}
<1>1. 0 \in Good
  BY KeptPrefixes
<1>2. ASSUME NEW i \in 0..(Len(s) - 1), i \in Good PROVE i + 1 \in Good
  <2>1. i + 1 \in 1..Len(s) /\ (i + 1) - 1 = i
    OBVIOUS
  <2>. QED
    BY <1>2, <2>1, KeptPrefixes
<1>3. Len(s) \in Nat /\ Good \in SUBSET (0..Len(s))
  OBVIOUS
<1>4. Good = 0..Len(s)
  <2>. HIDE DEF Good
  <2>. QED
    BY <1>1, <1>2, <1>3, UpTo
<1>. QED
  BY <1>3, <1>4 DEF G!Those

\* A first element that is not wanted makes no difference.
LEMMA ThoseWithoutFirst ==
  ASSUME NEW X, NEW s \in Seq(X), NEW t \in Seq(X), NEW wanted, Len(s) = Len(t) + 1, s[1] \notin wanted,
         \A i \in 1..Len(t) : t[i] = s[i + 1]
  PROVE  G!Those(t, wanted) = G!Those(s, wanted)
<1>. DEFINE Good == {i \in 0..Len(t) : G!Kept(t, wanted)[i] = G!Kept(s, wanted)[i + 1]}
<1>0. Len(t) \in Nat /\ 1 \in 1..Len(s) /\ 1 - 1 = 0 /\ 0 + 1 = 1
  OBVIOUS
<1>1. 0 \in Good
  <2>1. G!Kept(s, wanted)[1] = <<>>
    BY <1>0, KeptPrefixes
  <2>2. G!Kept(t, wanted)[0] = <<>>
    BY KeptPrefixes
  <2>. QED
    BY <1>0, <2>1, <2>2
<1>2. ASSUME NEW i \in 0..(Len(t) - 1), i \in Good PROVE i + 1 \in Good
  <2>0. /\ i + 1 \in 1..Len(t) /\ (i + 1) - 1 = i /\ (i + 1) + 1 \in 1..Len(s)
        /\ ((i + 1) + 1) - 1 = i + 1
    <3>. DEFINE n == Len(t)
    <3>1. n \in Nat /\ i \in 0..(n - 1) /\ Len(s) = n + 1
      BY <1>0
    <3>. HIDE DEF n
    <3>2. /\ i + 1 \in 1..n /\ (i + 1) - 1 = i /\ (i + 1) + 1 \in 1..(n + 1)
          /\ ((i + 1) + 1) - 1 = i + 1
      BY <3>1
    <3>. QED
      BY <3>1, <3>2 DEF n
  <2>1. /\ i + 1 \in 1..Len(t) /\ (i + 1) - 1 = i /\ (i + 1) + 1 \in 1..Len(s)
        /\ ((i + 1) + 1) - 1 = i + 1 /\ t[i + 1] = s[(i + 1) + 1]
    BY <2>0
  <2>2. G!Kept(t, wanted)[i + 1] = IF t[i + 1] \in wanted THEN Append(G!Kept(t, wanted)[i], t[i + 1]) ELSE G!Kept(t, wanted)[i]
    BY <2>1, KeptPrefixes
  <2>3. G!Kept(s, wanted)[(i + 1) + 1] = IF s[(i + 1) + 1] \in wanted THEN Append(G!Kept(s, wanted)[i + 1], s[(i + 1) + 1])
                                         ELSE G!Kept(s, wanted)[i + 1]
    BY <2>1, KeptPrefixes
  <2>. QED
    BY <1>2, <2>1, <2>2, <2>3
<1>3. Good \in SUBSET (0..Len(t))
  OBVIOUS
<1>4. Good = 0..Len(t)
  <2>. HIDE DEF Good
  <2>. QED
    BY <1>0, <1>1, <1>2, <1>3, UpTo
<1>. QED
  BY <1>0, <1>4 DEF G!Those

---------------------------------------------------------------------------
(* Logs: what is shown *)

ShownOK ==
  /\ G!Shown \in Seq(G!Lines) /\ Len(G!Shown) \in Nat /\ Len(G!Shown) <= MaxKept
  /\ \A k, l \in 1..Len(G!Shown) : k < l => G!Shown[k].id < G!Shown[l].id
  /\ \A k \in 1..Len(G!Shown) :
       /\ G!Shown[k].id \in Nat /\ G!Shown[k].id <= written
       /\ G!Shown[k].session \in Nat \ {0} /\ G!Shown[k].session <= sessions
  /\ session # 0 => \A k \in 1..Len(G!Shown) : G!Shown[k].session = session
  /\ First \in Nat /\ First <= sessions /\ (First = 0 <=> G!Shown = <<>>)

\* What a stream is shown is in the order of the numbers, of the session that runs if one does.
LEMMA Shows == LogFiles /\ LogsInOrder => ShownOK
<1>. SUFFICES ASSUME LogFiles, LogsInOrder PROVE ShownOK
  OBVIOUS
<1>0. logs \in Seq(G!Lines) /\ Len(logs) \in Nat /\ sessions \in Nat /\ Len(logs) <= MaxKept /\ MaxKept \in Nat
  BY LogAssumption DEF LogFiles
<1>1. /\ G!Shown \in Seq(G!Lines) /\ Len(G!Shown) <= Len(logs)
      /\ \A k \in 1..Len(G!Shown) : \E j \in 1..Len(logs) : G!Shown[k] = logs[j]
      /\ \A k, l \in 1..Len(G!Shown) : k < l => G!Shown[k].id < G!Shown[l].id
      /\ session # 0 => \A k \in 1..Len(G!Shown) : G!Shown[k] \in G!OfSession
  <2>1. CASE session = 0
    BY <1>0, <2>1 DEF G!Shown, LogsInOrder
  <2>2. CASE session # 0
    <3>1. G!Shown = G!Those(logs, G!OfSession)
      BY <2>2 DEF G!Shown
    <3>2. \A i, j \in 1..Len(logs) : i < j => logs[i].id < logs[j].id
      BY DEF LogsInOrder
    <3>. DEFINE t == G!Those(logs, G!OfSession)
    <3>3. /\ t \in Seq(G!Lines) /\ Len(t) <= Len(logs)
          /\ \A k \in 1..Len(t) : t[k] \in G!OfSession /\ \E j \in 1..Len(logs) : t[k] = logs[j]
          /\ \A k, l \in 1..Len(t) : k < l => t[k].id < t[l].id
      BY <1>0, <3>2, ThoseInOrder
    <3>. HIDE DEF t
    <3>4. G!Shown = t
      BY <3>1 DEF t
    <3>. QED
      BY <3>3, <3>4
  <2>. QED
    BY <2>1, <2>2
<1>2. \A k \in 1..Len(G!Shown) :
        /\ G!Shown[k].id \in Nat /\ G!Shown[k].id <= written
        /\ G!Shown[k].session \in Nat \ {0} /\ G!Shown[k].session <= sessions
  <2>. SUFFICES ASSUME NEW k \in 1..Len(G!Shown)
                PROVE  /\ G!Shown[k].id \in Nat /\ G!Shown[k].id <= written
                       /\ G!Shown[k].session \in Nat \ {0} /\ G!Shown[k].session <= sessions
    OBVIOUS
  <2>1. PICK j \in 1..Len(logs) : G!Shown[k] = logs[j]
    BY <1>1
  <2>2. logs[j] \in G!Lines
    BY <1>0
  <2>. QED
    BY <2>1, <2>2 DEF G!Lines, LogsInOrder
<1>3. Len(G!Shown) \in Nat /\ Len(G!Shown) <= MaxKept
  BY <1>0, <1>1
<1>4. session # 0 => \A k \in 1..Len(G!Shown) : G!Shown[k].session = session
  BY <1>1 DEF G!OfSession
<1>5. G!Shown # <<>> => 1 \in 1..Len(G!Shown)
  BY <1>1, EmptySeq
<1>6. First \in Nat /\ First <= sessions /\ (First = 0 <=> G!Shown = <<>>)
  BY <1>0, <1>2, <1>5 DEF First
<1>. QED
  BY <1>1, <1>2, <1>3, <1>4, <1>6 DEF ShownOK

\* A session has the next record at its end; it loses its first record when it has filled the memory.
LEMMA Appended ==
  ASSUME LogFiles, LogsInOrder, G!Appends
  PROVE  /\ G!Line \in G!Lines /\ LogFiles' /\ LogsInOrder'
         /\ \/ G!Shown' = Append(G!Shown, G!Line)
            \/ /\ Len(G!Shown) = MaxKept /\ Len(G!Shown') = MaxKept
               /\ \A i \in 1..Len(G!Shown') : G!Shown'[i] = Append(G!Shown, G!Line)[i + 1]
<1>. DEFINE a == Append(logs, G!Line)
<1>0. /\ logs \in Seq(G!Lines) /\ Len(logs) \in Nat /\ sessions \in Nat /\ written \in Nat
      /\ Len(logs) <= MaxKept /\ MaxKept \in Nat \ {0} /\ logFile = logs
      /\ session = sessions /\ session # 0 /\ written < MaxRecords /\ MaxRecords \in Nat
  BY LogAssumption DEF LogFiles, G!FileIsMemory, G!Appends
<1>1. /\ written' = written + 1 /\ logs' = G!LastKept(a) /\ UNCHANGED <<session, sessions, tail>>
      /\ logFile' = IF Len(logs) = MaxKept THEN logs' ELSE a
  BY <1>0 DEF G!Appends, G!Persists
<1>2. G!Line \in G!Lines /\ G!Line.id = written + 1 /\ G!Line.session = session
  BY <1>0 DEF G!Line, G!Lines
<1>3. /\ a \in Seq(G!Lines) /\ Len(a) = Len(logs) + 1 /\ a[Len(logs) + 1] = G!Line
      /\ \A i \in 1..Len(logs) : a[i] = logs[i]
  BY <1>0, <1>2, AppendProperties
<1>. HIDE DEF a
<1>4. \A i \in 1..Len(a) : i \in 1..Len(logs) \/ i = Len(logs) + 1
  BY <1>0, <1>3
<1>5. /\ \A i, j \in 1..Len(a) : i < j => a[i].id < a[j].id /\ a[i].session <= a[j].session
      /\ \A i \in 1..Len(a) : a[i].id <= written' /\ a[i].session <= sessions
  <2>1. \A i \in 1..Len(logs) : /\ logs[i].id \in Nat /\ logs[i].session \in Nat
                                /\ logs[i].id <= written /\ logs[i].session <= sessions
    <3>1. \A i \in 1..Len(logs) : logs[i] \in G!Lines
      BY <1>0
    <3>. QED
      BY <3>1 DEF LogsInOrder, G!Lines
  <2>2. ASSUME NEW i \in 1..Len(a), NEW j \in 1..Len(a), i < j
        PROVE  a[i].id < a[j].id /\ a[i].session <= a[j].session
    <3>1. i \in 1..Len(logs)
      BY <1>0, <1>3, <2>2
    <3>2. CASE j \in 1..Len(logs)
      BY <1>3, <2>2, <3>1, <3>2 DEF LogsInOrder
    <3>3. CASE j = Len(logs) + 1
      BY <1>0, <1>2, <1>3, <2>1, <3>1, <3>3
    <3>. QED
      BY <1>4, <3>2, <3>3
  <2>3. ASSUME NEW i \in 1..Len(a) PROVE a[i].id <= written' /\ a[i].session <= sessions
    BY <1>0, <1>1, <1>2, <1>3, <1>4, <2>1
  <2>. QED
    BY <2>2, <2>3
<1>6. G!Those(a, G!OfSession) = Append(G!Those(logs, G!OfSession), G!Line)
  BY <1>0, <1>2, ThoseAppended DEF G!OfSession, a
<1>7. G!Shown = G!Those(logs, G!OfSession) /\ G!Shown' = G!Those(logs', G!OfSession)
  BY <1>0, <1>1 DEF G!Shown, G!OfSession
<1>8. CASE Len(logs) # MaxKept
  <2>1. Len(a) <= MaxKept /\ logs' = a /\ logFile' = a
    BY <1>0, <1>1, <1>3, <1>8 DEF G!LastKept
  <2>2. LogFiles'
    BY <1>0, <1>1, <1>3, <2>1 DEF LogFiles, G!FileIsMemory
  <2>3. LogsInOrder'
    BY <1>1, <1>5, <2>1 DEF LogsInOrder
  <2>. QED
    BY <1>2, <1>6, <1>7, <2>1, <2>2, <2>3
<1>9. CASE Len(logs) = MaxKept
  <2>1. logs' = SubSeq(a, 2, MaxKept + 1) /\ logFile' = logs'
    <3>1. Len(a) > MaxKept /\ Len(a) - MaxKept + 1 = 2 /\ Len(a) = MaxKept + 1
      BY <1>0, <1>3, <1>9
    <3>. QED
      BY <1>1, <1>9, <3>1 DEF G!LastKept
  <2>2. /\ logs' \in Seq(G!Lines) /\ Len(logs') = MaxKept
        /\ \A i \in 1..MaxKept : logs'[i] = a[i + 1]
    <3>. DEFINE n == MaxKept + 1
                m == 2
                t == SubSeq(a, m, n)
    <3>1. n \in Int /\ m \in Int /\ \A i \in m..n : a[i] \in G!Lines
      BY <1>0, <1>3, <1>9
    <3>2. n = MaxKept + 1 /\ m = 2 /\ logs' = t
      BY <2>1
    <3>. HIDE DEF n, m
    <3>3. t \in Seq(G!Lines)
      BY <3>1, SubSeqProperties
    <3>4. Len(t) = IF m <= n THEN n - m + 1 ELSE 0
      BY <3>1, SubSeqProperties
    <3>5. \A i \in 1..(n - m + 1) : t[i] = a[m + i - 1]
      BY <3>1, SubSeqProperties
    <3>. HIDE DEF t
    <3>6. m <= n /\ n - m + 1 = MaxKept /\ \A i \in 1..MaxKept : m + i - 1 = i + 1
      BY <1>0, <3>2
    <3>7. Len(t) = MaxKept
      BY <3>4, <3>6
    <3>8. \A i \in 1..MaxKept : t[i] = a[i + 1]
      BY <3>5, <3>6
    <3>. QED
      BY <3>2, <3>3, <3>7, <3>8
  <2>3. LogFiles'
    BY <1>0, <1>1, <2>1, <2>2 DEF LogFiles, G!FileIsMemory
  <2>4. LogsInOrder'
    <3>1. \A i \in 1..MaxKept : i + 1 \in 1..Len(a)
      BY <1>0, <1>3, <1>9
    <3>2. \A i, j \in 1..MaxKept : i < j => i + 1 < j + 1
      BY <1>0
    <3>. QED
      BY <1>1, <1>5, <2>2, <3>1, <3>2 DEF LogsInOrder
  <2>5. 1 \in 1..Len(logs) /\ a[1] = logs[1]
    BY <1>0, <1>3, <1>9
  <2>6. CASE logs[1] \notin G!OfSession
    <3>1. G!Those(logs', G!OfSession) = G!Those(a, G!OfSession)
      BY <1>3, <1>9, <2>2, <2>5, <2>6, ThoseWithoutFirst
    <3>. QED
      BY <1>2, <1>6, <1>7, <2>3, <2>4, <3>1
  <2>7. CASE logs[1] \in G!OfSession
    <3>1. \A i \in 1..Len(logs) : logs[i] \in G!OfSession
      <4>. SUFFICES ASSUME NEW i \in 1..Len(logs) PROVE logs[i] \in G!OfSession
        OBVIOUS
      <4>0. logs[i] \in G!Lines
        BY <1>0
      <4>1. logs[i].session \in Nat /\ logs[i].session <= sessions
        BY <4>0 DEF LogsInOrder, G!Lines
      <4>2. logs[1].session = session
        BY <2>7 DEF G!OfSession
      <4>3. i = 1 \/ 1 < i
        OBVIOUS
      <4>4. logs[1].session <= logs[i].session
        BY <1>0, <2>5, <4>2, <4>3 DEF LogsInOrder
      <4>. QED
        BY <1>0, <4>0, <4>1, <4>2, <4>4 DEF G!OfSession
    <3>2. G!Shown = logs
      BY <1>0, <1>7, <3>1, ThoseAreAll
    <3>3. \A i \in 1..Len(logs') : logs'[i] \in G!OfSession
      <4>1. \A i \in 1..Len(a) : a[i] \in G!OfSession
        BY <1>2, <1>3, <1>4, <3>1 DEF G!OfSession
      <4>. QED
        BY <1>0, <1>3, <1>9, <2>2, <4>1
    <3>4. G!Shown' = logs'
      BY <1>7, <2>2, <3>3, ThoseAreAll
    <3>. QED
      BY <1>2, <1>9, <2>2, <2>3, <2>4, <3>2, <3>4 DEF a
  <2>. QED
    BY <2>6, <2>7
<1>. QED
  BY <1>8, <1>9

---------------------------------------------------------------------------

LEMMA LogStart == G!LogsInit => LogInv
<1>. SUFFICES ASSUME G!LogsInit PROVE LogInv
  OBVIOUS
<1>1. /\ session = 0 /\ sessions = 0 /\ written = 0 /\ logs = <<>> /\ logFile = <<>>
      /\ tail = [c \in Clients |-> G!Follower]
  BY DEF G!LogsInit
<1>2. <<>> \in Seq(G!Lines) /\ Len(<<>>) = 0 /\ 1..0 = {}
  OBVIOUS
<1>3. LogFiles
  BY <1>1, <1>2, LogAssumption DEF LogFiles, G!FileIsMemory
<1>4. tail \in [Clients -> Streams]
  BY <1>1, <1>2, LogAssumption DEF Streams, G!Follower
<1>5. G!Shown = <<>> /\ LogsInOrder
  BY <1>1, <1>2 DEF G!Shown, LogsInOrder
<1>6. G!TailsAreInOrder
  BY <1>1 DEF G!TailsAreInOrder, G!Follower
<1>7. StreamsAhead /\ StreamsFit
  BY <1>1, <1>2, <1>5 DEF StreamsAhead, StreamsFit, G!Follower
<1>. QED
  BY <1>3, <1>4, <1>5, <1>6, <1>7 DEF LogInv

\* A launch begins a session.
LEMMA SessionBegun == LogInv /\ G!BeginsSession => LogInv'
<1>. SUFFICES ASSUME LogInv, G!BeginsSession PROVE LogInv'
  OBVIOUS
<1>0. /\ LogFiles /\ tail \in [Clients -> Streams]
      /\ LogsInOrder /\ G!TailsAreInOrder /\ StreamsAhead /\ StreamsFit
  BY DEF LogInv
<1>1. /\ sessions' = sessions + 1 /\ session' = sessions + 1 /\ sessions \in Nat /\ sessions < MaxSessions
      /\ UNCHANGED <<logs, logFile, written, tail>> /\ logs \in Seq(G!Lines)
  BY <1>0 DEF G!BeginsSession, LogFiles
<1>2. LogFiles' /\ LogsInOrder'
  <2>1. \A i \in 1..Len(logs) : logs[i].session \in Nat
    <3>1. \A i \in 1..Len(logs) : logs[i] \in G!Lines
      BY <1>1
    <3>. QED
      BY <3>1 DEF G!Lines
  <2>2. sessions + 1 <= MaxSessions
    BY <1>1, LogAssumption
  <2>. QED
    BY <1>0, <1>1, <2>1, <2>2 DEF LogFiles, LogsInOrder, G!FileIsMemory
<1>3. G!Shown' = <<>>
  <2>1. \A i \in 1..Len(logs) : logs[i] \notin G!OfSession'
    <3>1. \A i \in 1..Len(logs) : logs[i] \in G!Lines
      BY <1>1
    <3>2. \A i \in 1..Len(logs) : logs[i].session \in Nat /\ logs[i].session <= sessions
      BY <1>0, <3>1 DEF LogsInOrder, G!Lines
    <3>. QED
      BY <1>1, <3>2 DEF G!OfSession
  <2>2. G!Those(logs, G!OfSession') = <<>>
    BY <1>1, <2>1, ThoseAreNone
  <2>3. session' # 0 /\ G!Shown' = G!Those(logs, G!OfSession')
    BY <1>1 DEF G!Shown
  <2>. QED
    BY <2>2, <2>3
<1>4. G!TailsAreInOrder' /\ (tail \in [Clients -> Streams])'
  BY <1>0, <1>1 DEF G!TailsAreInOrder
<1>5. StreamsAhead'
  <2>1. 1..Len(G!Shown') = {}
    BY <1>3
  <2>. QED
    BY <1>0, <1>1, <2>1 DEF StreamsAhead
<1>6. StreamsFit'
  <2>. SUFFICES ASSUME NEW c \in Clients
                PROVE  tail[c].session <= sessions + 1 /\ ~(tail[c].session # 0 /\ tail[c].session = sessions + 1)
    BY <1>1, <1>3 DEF StreamsFit
  <2>1. tail[c].session \in Nat /\ tail[c].session <= sessions
    BY <1>0 DEF StreamsFit, Streams
  <2>. QED
    BY <1>1, <2>1
<1>. QED
  BY <1>2, <1>4, <1>5, <1>6 DEF LogInv

\* A record goes to the memory and the file.
LEMMA RecordWritten == LogInv /\ G!Appends => LogInv'
<1>. SUFFICES ASSUME LogInv, G!Appends PROVE LogInv'
  OBVIOUS
<1>0. /\ LogFiles /\ tail \in [Clients -> Streams]
      /\ LogsInOrder /\ G!TailsAreInOrder /\ StreamsAhead /\ StreamsFit
  BY DEF LogInv
<1>1. /\ written' = written + 1 /\ written \in Nat /\ UNCHANGED <<session, sessions, tail>>
      /\ session # 0 /\ session \in Nat /\ G!Line.id = written + 1 /\ G!Line.session = session
      /\ MaxKept \in Nat \ {0}
  BY <1>0, LogAssumption DEF G!Appends, LogFiles, G!Line
<1>2. /\ G!Line \in G!Lines /\ LogFiles' /\ LogsInOrder'
      /\ \/ G!Shown' = Append(G!Shown, G!Line)
         \/ /\ Len(G!Shown) = MaxKept /\ Len(G!Shown') = MaxKept
            /\ \A i \in 1..Len(G!Shown') : G!Shown'[i] = Append(G!Shown, G!Line)[i + 1]
  BY <1>0, Appended
<1>3. /\ G!Shown \in Seq(G!Lines) /\ Len(G!Shown) \in Nat /\ Len(G!Shown) <= MaxKept
      /\ \A k \in 1..Len(G!Shown) : G!Shown[k].session = session /\ G!Shown[k].id \in Nat
  BY <1>0, <1>1, Shows DEF ShownOK
<1>4. /\ G!Shown' \in Seq(G!Lines) /\ Len(G!Shown') \in Nat /\ Len(G!Shown') <= MaxKept
      /\ \A k \in 1..Len(G!Shown') : G!Shown'[k].session = session
      /\ First' = 0 <=> G!Shown' = <<>>
  <2>1. ShownOK'
    BY <1>2, Shows, PTL
  <2>. QED
    BY <1>1, <2>1 DEF ShownOK
<1>. DEFINE a == Append(G!Shown, G!Line)
<1>5. /\ Len(a) = Len(G!Shown) + 1 /\ a[Len(G!Shown) + 1] = G!Line
      /\ \A i \in 1..Len(G!Shown) : a[i] = G!Shown[i]
  BY <1>2, <1>3, AppendProperties
<1>6. \/ G!Shown' = a
      \/ Len(G!Shown) = MaxKept /\ Len(G!Shown') = MaxKept /\ \A i \in 1..Len(G!Shown') : G!Shown'[i] = a[i + 1]
  BY <1>2
<1>. HIDE DEF a
<1>7. G!Shown' # <<>> /\ Len(G!Shown') >= 1 /\ Len(G!Shown') >= Len(G!Shown) /\ 1 \in 1..Len(G!Shown') /\ First' = session
  <2>1. Len(G!Shown') >= 1 /\ Len(G!Shown') >= Len(G!Shown)
    BY <1>1, <1>3, <1>5, <1>6
  <2>2. G!Shown' # <<>> /\ 1 \in 1..Len(G!Shown')
    BY <1>4, <2>1
  <2>. QED
    BY <1>4, <2>1, <2>2 DEF First
<1>8. \A i \in 1..Len(G!Shown') :
        \/ G!Shown'[i] = G!Line
        \/ \E k \in 1..Len(G!Shown) : i <= k /\ G!Shown'[i] = G!Shown[k]
  <2>. SUFFICES ASSUME NEW i \in 1..Len(G!Shown'), G!Shown'[i] # G!Line
                PROVE  \E k \in 1..Len(G!Shown) : i <= k /\ G!Shown'[i] = G!Shown[k]
    OBVIOUS
  <2>1. CASE G!Shown' = a
    <3>1. i \in 1..Len(G!Shown)
      BY <1>3, <1>5, <2>1
    <3>. QED
      BY <1>5, <2>1, <3>1
  <2>2. CASE Len(G!Shown) = MaxKept /\ Len(G!Shown') = MaxKept /\ \A j \in 1..Len(G!Shown') : G!Shown'[j] = a[j + 1]
    <3>1. i + 1 \in 1..Len(G!Shown)
      BY <1>3, <1>5, <2>2
    <3>. QED
      BY <1>5, <2>2, <3>1
  <2>. QED
    BY <1>6, <2>1, <2>2
<1>9. G!TailsAreInOrder' /\ (tail \in [Clients -> Streams])'
  BY <1>0, <1>1 DEF G!TailsAreInOrder
<1>10. StreamsAhead'
  <2>. SUFFICES ASSUME NEW c \in Clients, NEW i \in 1..Len(tail[c].got)
                PROVE  /\ tail[c].got[i].id <= written + 1
                       /\ \A j \in 1..Len(G!Shown') :
                            G!Rewound(tail[c], First', G!Shown') < j => tail[c].got[i].id < G!Shown'[j].id
    BY <1>1 DEF StreamsAhead
  <2>1. tail[c] \in Streams /\ tail[c].got[i] \in G!Lines
    BY <1>0 DEF Streams
  <2>2. tail[c].got[i].id \in Nat /\ tail[c].got[i].id <= written
    BY <1>0, <2>1 DEF StreamsAhead, G!Lines
  <2>3. ASSUME NEW j \in 1..Len(G!Shown'), G!Rewound(tail[c], First', G!Shown') < j
        PROVE  tail[c].got[i].id < G!Shown'[j].id
    <3>1. CASE G!Shown'[j] = G!Line
      BY <1>1, <2>2, <3>1
    <3>2. CASE \E k \in 1..Len(G!Shown) : j <= k /\ G!Shown'[j] = G!Shown[k]
      <4>1. PICK k \in 1..Len(G!Shown) : j <= k /\ G!Shown'[j] = G!Shown[k]
        BY <3>2
      <4>2. First = session
        <5>1. G!Shown # <<>> /\ 1 \in 1..Len(G!Shown)
          BY <1>3, <4>1
        <5>. QED
          BY <1>3, <5>1 DEF First
      <4>3. G!Rewound(tail[c], First, G!Shown) < k
        <5>1. tail[c].sent \in Nat
          BY <2>1 DEF Streams
        <5>2. G!Rewound(tail[c], First, G!Shown) <= G!Rewound(tail[c], First', G!Shown')
          BY <1>3, <1>4, <1>7, <4>2, <5>1 DEF G!Rewound
        <5>3. G!Rewound(tail[c], First, G!Shown) \in Nat /\ G!Rewound(tail[c], First', G!Shown') \in Nat
          BY <5>1 DEF G!Rewound
        <5>. QED
          BY <1>3, <1>4, <2>3, <4>1, <5>2, <5>3
      <4>. QED
        BY <1>0, <4>1, <4>3 DEF StreamsAhead
    <3>. QED
      BY <1>8, <3>1, <3>2
  <2>. QED
    BY <1>1, <2>2, <2>3
<1>11. StreamsFit'
  <2>. SUFFICES ASSUME NEW c \in Clients
                PROVE  /\ tail[c].session <= sessions
                       /\ tail[c].session = session =>
                            /\ 1 <= tail[c].sent /\ tail[c].sent <= Len(G!Shown')
                            /\ Len(G!Shown') # MaxKept =>
                                 /\ tail[c].got # <<>>
                                 /\ tail[c].got[Len(tail[c].got)] = G!Shown'[tail[c].sent]
    BY <1>1, <1>4, <1>7 DEF StreamsFit
  <2>0. tail[c].sent \in Nat /\ tail[c].session <= sessions
    BY <1>0 DEF Streams, StreamsFit
  <2>. SUFFICES ASSUME tail[c].session = session
                PROVE  /\ 1 <= tail[c].sent /\ tail[c].sent <= Len(G!Shown')
                       /\ Len(G!Shown') # MaxKept =>
                            /\ tail[c].got # <<>>
                            /\ tail[c].got[Len(tail[c].got)] = G!Shown'[tail[c].sent]
    BY <2>0
  <2>1. G!Shown # <<>>
    BY <1>0, <1>1 DEF StreamsFit
  <2>2. G!Shown[1].session = session
    BY <1>3, <2>1, EmptySeq
  <2>3. /\ 1 <= tail[c].sent /\ tail[c].sent <= Len(G!Shown)
        /\ Len(G!Shown) # MaxKept =>
             tail[c].got # <<>> /\ tail[c].got[Len(tail[c].got)] = G!Shown[tail[c].sent]
    BY <1>0, <2>1, <2>2 DEF StreamsFit
  <2>4. ASSUME Len(G!Shown') # MaxKept
        PROVE  tail[c].got # <<>> /\ tail[c].got[Len(tail[c].got)] = G!Shown'[tail[c].sent]
    <3>1. G!Shown' = a
      BY <1>6, <2>4
    <3>2. Len(G!Shown) # MaxKept /\ tail[c].sent \in 1..Len(G!Shown)
      BY <1>3, <1>4, <1>5, <2>0, <2>3, <2>4, <3>1
    <3>. QED
      BY <1>5, <2>3, <3>1, <3>2
  <2>. QED
    BY <1>3, <1>4, <1>7, <2>0, <2>3, <2>4
<1>. QED
  BY <1>2, <1>9, <1>10, <1>11 DEF LogInv

\* A service that starts reads the file back.
LEMMA LogLoaded == LogInv /\ G!ServiceRestarts => LogInv'
<1>. SUFFICES ASSUME LogInv, G!ServiceRestarts PROVE LogInv'
  OBVIOUS
<1>0. /\ LogFiles /\ tail \in [Clients -> Streams]
      /\ LogsInOrder /\ G!TailsAreInOrder /\ StreamsAhead /\ StreamsFit
  BY DEF LogInv
<1>1. logs \in Seq(G!Lines) /\ Len(logs) <= MaxKept /\ logFile = logs
  BY <1>0 DEF LogFiles, G!FileIsMemory
<1>2. G!Those(logs, G!Lines) = logs
  BY <1>1, ThoseAreAll
<1>3. G!Those(Append(logs, G!Cut), G!Lines) = logs
  <2>1. logs \in Seq(G!Lines \cup {G!Cut}) /\ G!Cut \in G!Lines \cup {G!Cut} /\ G!Cut \notin G!Lines
    <3>1. G!Cut \notin G!Lines
      BY DEF G!Cut, G!Lines
    <3>2. \A i \in 1..Len(logs) : logs[i] \in G!Lines \cup {G!Cut}
      BY <1>1
    <3>. QED
      BY <1>1, <3>1, <3>2
  <2>2. G!Those(Append(logs, G!Cut), G!Lines) =
          IF G!Cut \in G!Lines THEN Append(G!Those(logs, G!Lines), G!Cut) ELSE G!Those(logs, G!Lines)
    BY <2>1, ThoseAppended
  <2>. QED
    BY <1>2, <2>1, <2>2
<1>4. PICK lines \in {logs, Append(logs, G!Cut)} : G!LoadsLogs(lines)
  BY <1>1 DEF G!ServiceRestarts
<1>5. /\ logs' = logs /\ logFile' = logs /\ session' = 0
      /\ tail' = [c \in Clients |-> G!Follower] /\ UNCHANGED <<sessions, written>>
  <2>1. G!Those(lines, G!Lines) = logs
    BY <1>2, <1>3, <1>4
  <2>2. G!LastKept(logs) = logs
    <3>1. ~(Len(logs) > MaxKept)
      BY <1>1, LogAssumption
    <3>. QED
      BY <3>1 DEF G!LastKept
  <2>. QED
    BY <1>4, <2>1, <2>2 DEF G!LoadsLogs
<1>6. LogFiles' /\ LogsInOrder' /\ G!Shown' = logs
  BY <1>0, <1>5 DEF LogFiles, LogsInOrder, G!FileIsMemory, G!Shown
<1>7. <<>> \in Seq(G!Lines) /\ Len(<<>>) = 0 /\ 1..0 = {}
  OBVIOUS
<1>8. (tail \in [Clients -> Streams])'
  BY <1>5, <1>7, LogAssumption DEF Streams, G!Follower
<1>9. \A c \in Clients : tail'[c].got = <<>> /\ tail'[c].session = 0
  BY <1>5 DEF G!Follower
<1>10. G!TailsAreInOrder' /\ StreamsAhead'
  BY <1>7, <1>9 DEF G!TailsAreInOrder, StreamsAhead
<1>11. StreamsFit'
  <2>1. logs # <<>> => logs[1].session # 0
    <3>1. logs # <<>> => logs[1] \in G!Lines
      BY <1>1, EmptySeq
    <3>. QED
      BY <3>1 DEF G!Lines
  <2>. QED
    BY <1>0, <1>5, <1>6, <1>9, <2>1 DEF StreamsFit, LogFiles
<1>. QED
  BY <1>6, <1>8, <1>10, <1>11 DEF LogInv

\* A stream sends what is shown from its count on, or begins again.
LEMMA StreamFollowed == ASSUME NEW c \in Clients, LogInv, G!Follows(c) PROVE LogInv'
<1>0. /\ LogFiles /\ tail \in [Clients -> Streams]
      /\ LogsInOrder /\ G!TailsAreInOrder /\ StreamsAhead /\ StreamsFit
  BY DEF LogInv
<1>1. /\ G!Shown \in Seq(G!Lines) /\ Len(G!Shown) \in Nat /\ Len(G!Shown) <= MaxKept
      /\ \A k, l \in 1..Len(G!Shown) : k < l => G!Shown[k].id < G!Shown[l].id
      /\ \A k \in 1..Len(G!Shown) : G!Shown[k].id \in Nat /\ G!Shown[k].id <= written
      /\ First \in Nat /\ First <= sessions /\ (First = 0 <=> G!Shown = <<>>)
  BY <1>0, Shows DEF ShownOK
<1>. DEFINE t == tail[c]
            from == G!Rewound(t, First, G!Shown)
            more == SubSeq(G!Shown, from + 1, Len(G!Shown))
<1>2. t \in Streams /\ t.got \in Seq(G!Lines) /\ t.sent \in Nat /\ Len(t.got) \in Nat
  BY <1>0 DEF Streams
<1>3. /\ tail' = [tail EXCEPT ![c] = [sent |-> Len(G!Shown), session |-> First, got |-> t.got \o more]]
      /\ UNCHANGED <<session, sessions, logs, logFile, written>>
  BY DEF G!Follows, First
<1>4. from \in Nat /\ from <= Len(G!Shown)
  BY <1>1, <1>2 DEF G!Rewound
<1>5. /\ more \in Seq(G!Lines) /\ Len(more) = Len(G!Shown) - from
      /\ \A i \in 1..Len(more) : from + i \in 1..Len(G!Shown) /\ more[i] = G!Shown[from + i]
  <2>. DEFINE m == from + 1
              n == Len(G!Shown)
  <2>1. m \in Int /\ n \in Int /\ \A i \in m..n : G!Shown[i] \in G!Lines
    BY <1>1, <1>4
  <2>2. m = from + 1 /\ n = Len(G!Shown) /\ more = SubSeq(G!Shown, m, n)
    OBVIOUS
  <2>. HIDE DEF m, n, more
  <2>3. /\ more \in Seq(G!Lines)
        /\ Len(more) = IF m <= n THEN n - m + 1 ELSE 0
    BY <2>1, <2>2, SubSeqProperties
  <2>4. \A i \in 1..(n - m + 1) : more[i] = G!Shown[m + i - 1]
    BY <2>1, <2>2, SubSeqProperties
  <2>. HIDE DEF from
  <2>5. Len(more) = Len(G!Shown) - from
    BY <1>1, <1>4, <2>2, <2>3
  <2>6. n - m + 1 = Len(more) /\ \A i \in 1..Len(more) : m + i - 1 = from + i /\ from + i \in 1..Len(G!Shown)
    BY <1>1, <1>4, <2>2, <2>5
  <2>. QED
    BY <2>3, <2>4, <2>5, <2>6
<1>. DEFINE got == t.got \o more
<1>6. /\ got \in Seq(G!Lines) /\ Len(got) = Len(t.got) + Len(more)
      /\ \A i \in 1..Len(t.got) : got[i] = t.got[i]
      /\ \A i \in 1..Len(more) : got[Len(t.got) + i] = more[i]
  <2>. HIDE DEF more, t
  <2>1. /\ got \in Seq(G!Lines) /\ Len(got) = Len(t.got) + Len(more)
        /\ \A i \in 1..(Len(t.got) + Len(more)) : got[i] = IF i <= Len(t.got) THEN t.got[i] ELSE more[i - Len(t.got)]
    BY <1>2, <1>5, ConcatProperties
  <2>2. Len(more) \in Nat /\ Len(t.got) \in Nat
    BY <1>2, <1>5
  <2>. HIDE DEF got
  <2>3. \A i \in 1..Len(t.got) : i \in 1..(Len(t.got) + Len(more)) /\ i <= Len(t.got)
    BY <2>2
  <2>4. \A i \in 1..Len(more) : /\ Len(t.got) + i \in 1..(Len(t.got) + Len(more)) /\ ~(Len(t.got) + i <= Len(t.got))
                                /\ (Len(t.got) + i) - Len(t.got) = i
    BY <2>2
  <2>. QED
    BY <2>1, <2>3, <2>4
<1>7. /\ tail'[c] = [sent |-> Len(G!Shown), session |-> First, got |-> got]
      /\ \A d \in Clients \ {c} : tail'[d] = tail[d]
      /\ G!Shown' = G!Shown /\ First' = First
  BY <1>0, <1>3 DEF G!Shown, First, G!OfSession
<1>8. \A i \in 1..Len(got) : i \in 1..Len(t.got) \/ \E k \in 1..Len(more) : i = Len(t.got) + k
  <2>. HIDE DEF got, more, t
  <2>. SUFFICES ASSUME NEW i \in 1..Len(got), i \notin 1..Len(t.got)
                PROVE  \E k \in 1..Len(more) : i = Len(t.got) + k
    OBVIOUS
  <2>1. Len(more) \in Nat /\ Len(t.got) \in Nat
    BY <1>2, <1>5
  <2>2. i - Len(t.got) \in 1..Len(more) /\ i = Len(t.got) + (i - Len(t.got))
    BY <1>6, <2>1
  <2>. QED
    BY <2>2
<1>9. (tail \in [Clients -> Streams])'
  <2>1. [sent |-> Len(G!Shown), session |-> First, got |-> got] \in Streams
    <3>. HIDE DEF got
    <3>. QED
      BY <1>1, <1>6, LogAssumption DEF Streams
  <2>. QED
    BY <1>0, <1>3, <2>1
<1>. HIDE DEF got, more, from
<1>10. LogFiles' /\ LogsInOrder'
  BY <1>0, <1>3 DEF LogFiles, LogsInOrder, G!FileIsMemory
<1>11. ASSUME NEW i \in 1..Len(t.got), NEW k \in 1..Len(more) PROVE t.got[i].id < more[k].id
  <2>1. from < from + k /\ from + k \in 1..Len(G!Shown) /\ more[k] = G!Shown[from + k]
    BY <1>4, <1>5
  <2>. QED
    BY <1>0, <2>1 DEF StreamsAhead, from
<1>12. G!TailsAreInOrder'
  <2>1. ASSUME NEW i \in 1..Len(got), NEW j \in 1..Len(got), i < j PROVE got[i].id < got[j].id
    <3>1. CASE i \in 1..Len(t.got) /\ j \in 1..Len(t.got)
      <4>1. 1..Len(t.got) = DOMAIN t.got
        BY <1>2
      <4>. QED
        BY <1>0, <1>6, <2>1, <3>1, <4>1 DEF G!TailsAreInOrder
    <3>2. ASSUME i \in 1..Len(t.got), NEW l \in 1..Len(more), j = Len(t.got) + l
          PROVE  got[i].id < got[j].id
      BY <1>6, <1>11, <3>2
    <3>3. ASSUME NEW k \in 1..Len(more), NEW l \in 1..Len(more), i = Len(t.got) + k, j = Len(t.got) + l
          PROVE  got[i].id < got[j].id
      <4>. DEFINE n == Len(t.got)
      <4>0. n \in Nat /\ k \in Nat /\ l \in Nat /\ from \in Nat /\ n + k < n + l
        BY <1>2, <1>4, <1>5, <2>1, <3>3
      <4>1. k < l /\ from + k < from + l
        <5>. HIDE DEF n
        <5>. QED
          BY <4>0
      <4>2. got[i] = more[k] /\ got[j] = more[l]
        BY <1>6, <3>3
      <4>3. more[k] = G!Shown[from + k] /\ more[l] = G!Shown[from + l]
        BY <1>5
      <4>4. from + k \in 1..Len(G!Shown) /\ from + l \in 1..Len(G!Shown)
        BY <1>5
      <4>5. G!Shown[from + k].id < G!Shown[from + l].id
        BY <1>1, <4>1, <4>4
      <4>. QED
        BY <4>2, <4>3, <4>5
    <3>4. ASSUME j \in 1..Len(t.got), NEW k \in 1..Len(more), i = Len(t.got) + k PROVE FALSE
      BY <1>2, <1>5, <2>1, <3>4
    <3>. QED
      BY <1>8, <3>1, <3>2, <3>3, <3>4
  <2>2. DOMAIN got = 1..Len(got)
    BY <1>6
  <2>. QED
    BY <1>0, <1>7, <2>1, <2>2 DEF G!TailsAreInOrder
<1>13. G!Rewound(tail'[c], First, G!Shown) = Len(G!Shown)
  BY <1>1, <1>7 DEF G!Rewound
<1>14. StreamsAhead'
  <2>1. \A i \in 1..Len(got) : got[i].id <= written
    <3>. SUFFICES ASSUME NEW i \in 1..Len(got) PROVE got[i].id <= written
      OBVIOUS
    <3>1. CASE i \in 1..Len(t.got)
      BY <1>0, <1>6, <3>1 DEF StreamsAhead
    <3>2. ASSUME NEW k \in 1..Len(more), i = Len(t.got) + k PROVE got[i].id <= written
      BY <1>1, <1>5, <1>6, <3>2
    <3>. QED
      BY <1>8, <3>1, <3>2
  <2>2. \A j \in 1..Len(G!Shown) : ~(G!Rewound(tail'[c], First, G!Shown) < j)
    BY <1>1, <1>13
  <2>3. tail'[c].got = got
    BY <1>7
  <2>. SUFFICES ASSUME NEW d \in Clients
                PROVE  /\ \A i \in 1..Len(tail'[d].got) : tail'[d].got[i].id <= written
                       /\ \A i \in 1..Len(tail'[d].got), j \in 1..Len(G!Shown) :
                            G!Rewound(tail'[d], First, G!Shown) < j => tail'[d].got[i].id < G!Shown[j].id
    BY <1>3, <1>7 DEF StreamsAhead
  <2>4. CASE d = c
    BY <2>1, <2>2, <2>3, <2>4
  <2>5. CASE d # c
    BY <1>0, <1>7, <2>5 DEF StreamsAhead
  <2>. QED
    BY <2>4, <2>5
<1>15. StreamsFit'
  <2>1. /\ tail'[c].session <= sessions
        /\ tail'[c].session # 0 => G!Shown # <<>>
        /\ G!Shown # <<>> => 1 <= tail'[c].sent /\ tail'[c].sent <= Len(G!Shown)
    <3>1. G!Shown # <<>> => 1 <= Len(G!Shown)
      BY <1>1, EmptySeq
    <3>2. tail'[c].session = First /\ tail'[c].sent = Len(G!Shown)
      BY <1>7
    <3>. QED
      BY <1>1, <3>1, <3>2
  <2>2. ASSUME G!Shown # <<>>, First = G!Shown[1].session, Len(G!Shown) # MaxKept
        PROVE  got # <<>> /\ got[Len(got)] = G!Shown[Len(G!Shown)]
    <3>1. Len(got) # 0 => got # <<>>
      BY <1>6
    <3>2. CASE from # Len(G!Shown)
      <4>1. Len(more) \in 1..Len(more) /\ from + Len(more) = Len(G!Shown)
        BY <1>1, <1>4, <1>5, <3>2
      <4>2. got[Len(t.got) + Len(more)] = more[Len(more)] /\ more[Len(more)] = G!Shown[from + Len(more)]
        BY <1>5, <1>6, <4>1
      <4>3. Len(got) # 0
        BY <1>2, <1>6, <4>1
      <4>. QED
        BY <1>6, <3>1, <4>1, <4>2, <4>3
    <3>3. CASE from = Len(G!Shown)
      <4>1. Len(G!Shown) # 0
        BY <1>1, <2>2, EmptySeq
      <4>2. First = t.session /\ t.sent = Len(G!Shown)
        BY <1>1, <1>2, <3>3, <4>1 DEF from, G!Rewound
      <4>3. t.got # <<>> /\ t.got[Len(t.got)] = G!Shown[Len(G!Shown)]
        BY <1>0, <2>2, <4>2 DEF StreamsFit
      <4>4. Len(more) = 0 /\ Len(t.got) \in 1..Len(t.got)
        BY <1>1, <1>2, <1>5, <3>3, <4>3, EmptySeq
      <4>5. Len(got) = Len(t.got) /\ got[Len(t.got)] = t.got[Len(t.got)] /\ Len(got) # 0
        BY <1>2, <1>6, <4>4
      <4>. QED
        BY <3>1, <4>3, <4>5
    <3>. QED
      BY <3>2, <3>3
  <2>3. tail'[c].got = got /\ tail'[c].sent = Len(G!Shown) /\ tail'[c].session = First
    BY <1>7
  <2>. SUFFICES ASSUME NEW d \in Clients
                PROVE  /\ tail'[d].session <= sessions
                       /\ tail'[d].session # 0 /\ tail'[d].session = session => G!Shown # <<>>
                       /\ G!Shown # <<>> /\ tail'[d].session = G!Shown[1].session =>
                            /\ 1 <= tail'[d].sent /\ tail'[d].sent <= Len(G!Shown)
                            /\ Len(G!Shown) # MaxKept =>
                                 /\ tail'[d].got # <<>>
                                 /\ tail'[d].got[Len(tail'[d].got)] = G!Shown[tail'[d].sent]
    BY <1>3, <1>7 DEF StreamsFit
  <2>4. CASE d = c
    BY <2>1, <2>2, <2>3, <2>4
  <2>5. CASE d # c
    BY <1>0, <1>7, <2>5 DEF StreamsFit
  <2>. QED
    BY <2>4, <2>5
<1>. QED
  BY <1>9, <1>10, <1>12, <1>14, <1>15 DEF LogInv

LEMMA LogPreserved == LogInv /\ [G!LogsNext]_(G!logVars) => LogInv'
<1>. SUFFICES ASSUME LogInv, [G!LogsNext]_(G!logVars) PROVE LogInv'
  OBVIOUS
<1>1. CASE UNCHANGED G!logVars
  <2>1. UNCHANGED <<session, sessions, logs, logFile, written, tail, G!Shown, First>>
    BY <1>1 DEF G!logVars, G!Shown, First, G!OfSession
  <2>. QED
    BY <2>1 DEF LogInv, LogFiles, LogsInOrder, G!FileIsMemory, G!TailsAreInOrder, StreamsAhead, StreamsFit
<1>. QED
  BY <1>1, SessionBegun, RecordWritten, LogLoaded, StreamFollowed DEF G!LogsNext

LEMMA LogHolds == LogInv => G!LogTypesOK /\ G!FileIsMemory /\ G!TailsAreInOrder /\ G!TailsAreComplete
<1>. SUFFICES ASSUME LogInv PROVE G!LogTypesOK /\ G!FileIsMemory /\ G!TailsAreInOrder /\ G!TailsAreComplete
  OBVIOUS
<1>0. /\ LogFiles /\ tail \in [Clients -> Streams]
      /\ LogsInOrder /\ G!TailsAreInOrder /\ StreamsAhead /\ StreamsFit
  BY DEF LogInv
<1>1. G!LogTypesOK
  <2>1. /\ session \in 0..sessions /\ sessions \in 0..MaxSessions /\ written \in 0..MaxRecords
        /\ Len(logs) <= MaxKept
    BY <1>0, LogAssumption DEF LogFiles
  <2>2. \A i \in DOMAIN logs : logs[i].session \in 1..sessions
    <3>1. \A i \in DOMAIN logs : i \in 1..Len(logs) /\ logs[i] \in G!Lines
      BY <1>0 DEF LogFiles
    <3>. QED
      BY <1>0, <3>1 DEF LogsInOrder, LogFiles, G!Lines
  <2>3. \A c \in Clients : tail[c].sent \in 0..MaxKept
    BY <1>0 DEF Streams
  <2>. QED
    BY <2>1, <2>2, <2>3 DEF G!LogTypesOK
<1>2. G!TailsAreComplete
  <2>. SUFFICES ASSUME NEW c \in Clients, G!Shown # <<>>, ~G!Filled, tail[c].session = G!Shown[1].session,
                       tail[c].sent = Len(G!Shown)
                PROVE  tail[c].got # <<>> /\ tail[c].got[Len(tail[c].got)] = G!Shown[Len(G!Shown)]
    BY DEF G!TailsAreComplete
  <2>. QED
    BY <1>0 DEF StreamsFit, G!Filled
<1>. QED
  BY <1>0, <1>1, <1>2 DEF LogFiles

---------------------------------------------------------------------------
(* The desktop window *)

Callbacks == [show : {"recovery", "stopped", "ready"}, build : D!Builds \cup {0}]

WindowTypes ==
    /\ page \in {"none", "starting", "stopping", "stopped", "recovery", "console"}
    /\ known \in D!Builds \cup {0} /\ server \in D!Builds \cup {0} /\ package \in D!Builds
    /\ thread \in [Threads -> [op : {"none", "wait", "start", "restart", "stop"},
                               at : {"free", "command", "asked", "waiting"}]]
    /\ posted \in Seq(Callbacks) /\ dialogs \in Seq(D!Builds \cup {0})
    /\ kept \subseteq D!Builds
    /\ job \in [op : {"none", "wait", "start", "restart", "stop"}, done : BOOLEAN]
    /\ crossed \in BOOLEAN /\ unanswered \in BOOLEAN

\* A window that waits has a thread, a callback or an open question whose end it shows.
WaitsForOne ==
    page \in {"starting", "stopping"} =>
        \/ D!Busy # {} \/ posted # <<>> \/ unanswered
        \/ \E i \in 1..Len(dialogs) : dialogs[i] # 0

\* Where threads did not cross there is one thread or one callback, and a window that shows or
\* will show "stopped" has neither beside it.
OneAtATime ==
    ~crossed =>
        /\ \A t, u \in D!Busy : t = u
        /\ D!Busy # {} => posted = <<>>
        /\ Len(posted) <= 1
        /\ page = "stopped" => D!Busy = {} /\ posted = <<>> /\ job.op = "stop" /\ job.done
        /\ \A i \in 1..Len(posted) : posted[i].show = "stopped" => job.op = "stop" /\ job.done

StopsServer == job.op = "stop" /\ job.done => server = 0

WindowInv == WindowTypes /\ WaitsForOne /\ D!OldBuildsAreKept /\ OneAtATime /\ StopsServer

---------------------------------------------------------------------------
(* The desktop window: what the actions have in common *)

\* A click or a callback that starts a thread.
LEMMA Began ==
  ASSUME WindowInv, NEW op \in {"wait", "start", "restart", "stop"},
         NEW shown \in {"starting", "stopping"}, D!Begins(op, shown),
         known' \in D!Builds \cup {0}, dialogs' \in Seq(D!Builds \cup {0})
  PROVE  WindowInv'
<1>0. WindowTypes /\ WaitsForOne /\ D!OldBuildsAreKept /\ OneAtATime /\ StopsServer
  BY DEF WindowInv
<1>. PICK t \in Threads \ D!Busy :
       thread' = [thread EXCEPT ![t] = [op |-> op, at |-> IF op = "wait" THEN "waiting" ELSE "command"]]
  BY DEF D!Begins
<1>1. /\ page' = shown /\ page' # "stopped" /\ page' # "console"
      /\ crossed' = (crossed \/ D!Busy # {} \/ posted # <<>>)
      /\ UNCHANGED <<posted, kept, seen, unanswered, package, server, job>>
  BY DEF D!Begins
<1>2. thread' \in [Threads -> [op : {"none", "wait", "start", "restart", "stop"},
                               at : {"free", "command", "asked", "waiting"}]]
  BY <1>0 DEF WindowTypes
<1>3. D!Busy' = D!Busy \cup {t}
  BY <1>0 DEF WindowTypes, D!Busy, D!Free
<1>4. WindowTypes'
  BY <1>0, <1>1, <1>2 DEF WindowTypes
<1>5. WaitsForOne'
  BY <1>3 DEF WaitsForOne
<1>6. D!OldBuildsAreKept'
  BY <1>1 DEF D!OldBuildsAreKept
<1>7. OneAtATime'
  <2>. SUFFICES ASSUME ~crossed' PROVE OneAtATime'
    BY DEF OneAtATime
  <2>1. posted' = <<>> /\ D!Busy' = {t}
    BY <1>1, <1>3
  <2>. QED
    BY <1>1, <2>1 DEF OneAtATime
<1>8. StopsServer'
  BY <1>0, <1>1 DEF StopsServer
<1>. QED
  BY <1>4, <1>5, <1>6, <1>7, <1>8 DEF WindowInv

\* A thread that ends posts one callback.
LEMMA Posted ==
  ASSUME WindowInv, NEW t \in D!Busy, NEW callback \in Callbacks, D!Posts(t, callback),
         callback.show = "stopped" => job.op = "stop" /\ job.done
  PROVE  WindowInv'
<1>0. WindowTypes /\ WaitsForOne /\ D!OldBuildsAreKept /\ OneAtATime /\ StopsServer
  BY DEF WindowInv
<1>1. /\ thread' = [thread EXCEPT ![t] = D!Free]
      /\ posted' = Append(posted, callback)
      /\ UNCHANGED <<page, known, dialogs, kept, seen, crossed, unanswered, package, server, job>>
  BY DEF D!Posts
<1>2. posted' \in Seq(Callbacks) /\ posted' # <<>>
  BY <1>0, <1>1 DEF WindowTypes
<1>3. thread' \in [Threads -> [op : {"none", "wait", "start", "restart", "stop"},
                               at : {"free", "command", "asked", "waiting"}]]
  BY <1>0, <1>1 DEF WindowTypes, D!Free
<1>4. D!Busy' = D!Busy \ {t}
  BY <1>0, <1>1 DEF WindowTypes, D!Busy
<1>5. WindowTypes'
  BY <1>0, <1>1, <1>2, <1>3 DEF WindowTypes
<1>6. WaitsForOne'
  BY <1>2 DEF WaitsForOne
<1>7. D!OldBuildsAreKept'
  BY <1>0, <1>1 DEF D!OldBuildsAreKept, D!Outdated
<1>8. OneAtATime'
  <2>. SUFFICES ASSUME ~crossed PROVE OneAtATime'
    BY <1>1 DEF OneAtATime
  <2>1. posted' = <<callback>> /\ D!Busy' = {} /\ page # "stopped"
    <3>1. posted = <<>> /\ D!Busy = {t} /\ page # "stopped"
      BY <1>0 DEF OneAtATime
    <3>2. Append(<<>>, callback) = <<callback>>
      OBVIOUS
    <3>. QED
      BY <1>1, <1>4, <3>1, <3>2
  <2>2. Len(posted') = 1 /\ posted'[1] = callback
    BY <2>1
  <2>. QED
    BY <1>1, <2>1, <2>2 DEF OneAtATime
<1>9. StopsServer'
  BY <1>0, <1>1 DEF StopsServer
<1>. QED
  BY <1>5, <1>6, <1>7, <1>8, <1>9 DEF WindowInv

\* An answer removes the last question only.
LEMMA Dismissed ==
  ASSUME WindowInv, dialogs # <<>>
  PROVE  /\ D!Question \in D!Builds \cup {0} /\ D!OtherQuestions \in Seq(D!Builds \cup {0})
         /\ Len(D!OtherQuestions) = Len(dialogs) - 1
         /\ \A i \in 1..(Len(dialogs) - 1) : D!OtherQuestions[i] = dialogs[i]
<1>1. dialogs \in Seq(D!Builds \cup {0}) /\ Len(dialogs) \in Nat \ {0}
  BY DEF WindowInv, WindowTypes
<1>2. \A i \in 1..(Len(dialogs) - 1) : dialogs[i] \in D!Builds \cup {0}
  BY <1>1
<1>3. /\ D!OtherQuestions \in Seq(D!Builds \cup {0})
      /\ Len(D!OtherQuestions) = IF 1 <= Len(dialogs) - 1 THEN Len(dialogs) - 1 - 1 + 1 ELSE 0
      /\ \A i \in 1..(Len(dialogs) - 1 - 1 + 1) : D!OtherQuestions[i] = dialogs[1 + i - 1]
  <2>1. Len(dialogs) - 1 \in Int
    BY <1>1
  <2>. QED
    BY ONLY <1>2, <2>1, SubSeqProperties, 1 \in Int DEF D!OtherQuestions
<1>4. D!Question \in D!Builds \cup {0}
  BY <1>1 DEF D!Question
<1>5. Len(dialogs) - 1 - 1 + 1 = Len(dialogs) - 1 /\ \A i \in 1..(Len(dialogs) - 1) : 1 + i - 1 = i
  BY <1>1
<1>6. Len(D!OtherQuestions) = Len(dialogs) - 1
  <2>. DEFINE n == Len(dialogs)
              m == Len(D!OtherQuestions)
  <2>1. n \in Nat /\ n # 0 /\ m = IF 1 <= n - 1 THEN n - 1 - 1 + 1 ELSE 0
    BY <1>1, <1>3
  <2>. HIDE DEF n, m
  <2>2. m = n - 1
    BY <2>1
  <2>. QED
    BY <2>2 DEF n, m
<1>. QED
  BY <1>3, <1>4, <1>5, <1>6

---------------------------------------------------------------------------

LEMMA WindowPreserved == WindowInv /\ [D!DesktopNext]_(D!desktopVars) => WindowInv'
<1>. SUFFICES ASSUME WindowInv, [D!DesktopNext]_(D!desktopVars) PROVE WindowInv'
  OBVIOUS
<1>0. WindowTypes /\ WaitsForOne /\ D!OldBuildsAreKept /\ OneAtATime /\ StopsServer
  BY DEF WindowInv

<1>1. CASE D!Activates
  <2>1. CASE known' = package /\ UNCHANGED dialogs /\ D!StartsInBackground(FALSE)
    BY <1>0, <2>1, Began DEF D!StartsInBackground, WindowTypes
  <2>2. CASE /\ known' = 0 /\ page' = "recovery"
             /\ UNCHANGED <<development, thread, posted, dialogs, kept, seen, clicks, crossed,
                            unanswered, package, server, job>>
    <3>1. WindowTypes' /\ WaitsForOne' /\ D!OldBuildsAreKept' /\ StopsServer'
      BY <1>0, <2>2 DEF WindowTypes, WaitsForOne, D!OldBuildsAreKept, StopsServer
    <3>2. OneAtATime'
      BY <1>0, <2>2 DEF OneAtATime, D!Busy
    <3>. QED
      BY <3>1, <3>2 DEF WindowInv
  <2>. QED
    BY <1>1, <2>1, <2>2 DEF D!Activates
<1>2. CASE D!Retries
  BY <1>2, <1>0, Began DEF D!Retries, D!StartsInBackground, WindowTypes
<1>3. CASE D!Restarts
  BY <1>3, <1>0, Began DEF D!Restarts, D!StartsInBackground, WindowTypes
<1>4. CASE D!AsksWhetherToStop
  <2>1. WindowTypes'
    BY <1>0, <1>4 DEF D!AsksWhetherToStop, WindowTypes, D!Builds, Callbacks
  <2>2. WaitsForOne'
    BY <1>0, <1>4 DEF D!AsksWhetherToStop, WindowTypes, WaitsForOne, D!Busy
  <2>3. D!OldBuildsAreKept'
    BY <1>0, <1>4 DEF D!AsksWhetherToStop, WindowTypes, D!OldBuildsAreKept, D!Outdated
  <2>4. OneAtATime'
    BY <1>0, <1>4 DEF D!AsksWhetherToStop, WindowTypes, OneAtATime, D!Busy
  <2>5. StopsServer'
    BY <1>0, <1>4 DEF D!AsksWhetherToStop, WindowTypes, StopsServer
  <2>. QED
    BY <2>1, <2>2, <2>3, <2>4, <2>5 DEF WindowInv
<1>5. CASE D!ConfirmsStop
  BY <1>5, <1>0, Began, Dismissed DEF D!ConfirmsStop, WindowTypes
<1>6. CASE D!ConfirmsRestart
  BY <1>6, <1>0, Began, Dismissed DEF D!ConfirmsRestart, D!StartsInBackground, WindowTypes
<1>7. CASE D!Keeps

  <2>a. /\ dialogs # <<>> /\ dialogs' = D!OtherQuestions
        /\ UNCHANGED <<known, thread, posted, crossed, unanswered, package, server, job>>
        /\ \/ D!Question = 0 /\ UNCHANGED <<page, kept, seen>>
           \/ D!Question # 0 /\ kept' = kept \cup {D!Question} /\ seen' = D!Question /\ page' = "console"
    BY <1>7 DEF D!Keeps
  <2>b. D!Question \in D!Builds \cup {0} /\ D!OtherQuestions \in Seq(D!Builds \cup {0})
    BY <2>a, Dismissed
  <2>1. WindowTypes'
    BY <1>0, <2>a, <2>b DEF WindowTypes
  <2>2. WaitsForOne'

    <3>1. CASE D!Question = 0
      <4>1. ASSUME NEW i \in 1..Len(dialogs), dialogs[i] # 0
            PROVE  i \in 1..Len(dialogs') /\ dialogs'[i] # 0
        <5>1. Len(dialogs) \in Nat /\ i # Len(dialogs)
          BY <1>0, <3>1, <4>1 DEF WindowTypes, D!Question
        <5>2. i \in 1..(Len(dialogs) - 1)
          BY <5>1
        <5>3. Len(dialogs') = Len(dialogs) - 1 /\ dialogs'[i] = dialogs[i]
          BY <2>a, <5>2, Dismissed
        <5>. QED
          BY <4>1, <5>2, <5>3
      <4>2. UNCHANGED <<page, posted, unanswered, D!Busy>>
        BY <2>a, <3>1 DEF D!Busy
      <4>. QED
        BY <1>0, <4>1, <4>2 DEF WaitsForOne
    <3>2. CASE D!Question # 0
      BY <2>a, <3>2 DEF WaitsForOne
    <3>. QED
      BY <3>1, <3>2
  <2>3. D!OldBuildsAreKept'
    BY <1>0, <2>a DEF D!OldBuildsAreKept, D!Outdated
  <2>4. OneAtATime'
    BY <1>0, <2>a DEF OneAtATime, D!Busy
  <2>5. StopsServer'
    BY <1>0, <1>7 DEF D!Keeps, D!OtherQuestions, D!Question, WindowTypes, StopsServer
  <2>. QED
    BY <2>1, <2>2, <2>3, <2>4, <2>5 DEF WindowInv
<1>8. CASE D!Runs

  <2>. DEFINE c == Head(posted)
  <2>a. /\ posted # <<>> /\ posted' = Tail(posted)
        /\ UNCHANGED <<known, thread, kept, crossed, unanswered, package, server, job>>
    BY <1>8 DEF D!Runs
  <2>b. \/ c.show = "ready" /\ D!Outdated(c.build) /\ dialogs' = Append(dialogs, c.build) /\ UNCHANGED <<page, seen>>
        \/ /\ ~(c.show = "ready" /\ D!Outdated(c.build))
           /\ page' = IF c.show = "ready" THEN "console" ELSE c.show
           /\ seen' = c.build /\ UNCHANGED dialogs
    BY <1>8 DEF D!Runs
  <2>c. c \in Callbacks /\ c = posted[1] /\ posted' \in Seq(Callbacks) /\ Len(posted') = Len(posted) - 1
    BY <1>0, <2>a DEF WindowTypes
  <2>d. /\ c.show \in {"recovery", "stopped", "ready"} /\ c.build \in D!Builds \cup {0}
        /\ D!Outdated(c.build) => c.build # 0 /\ c.build \in D!Builds
    BY <2>c DEF Callbacks, D!Outdated
  <2>. HIDE DEF c
  <2>e. (page' \in {page, "console", "recovery", "stopped"} /\ page' # "starting") \/ page' = page
    BY <2>b, <2>d
  <2>1. WindowTypes'

    <3>0. dialogs \in Seq(D!Builds \cup {0})
      BY <1>0 DEF WindowTypes
    <3>1. dialogs' \in Seq(D!Builds \cup {0})
      <4>1. CASE c.build \in D!Builds /\ dialogs' = Append(dialogs, c.build)
        BY <3>0, <4>1, AppendProperties
      <4>2. CASE dialogs' = dialogs
        BY <3>0, <4>2
      <4>. QED
        BY <2>b, <2>d, <4>1, <4>2
    <3>2. page' \in {"none", "starting", "stopping", "stopped", "recovery", "console"}
      BY <1>0, <2>b, <2>d DEF WindowTypes
    <3>. QED
      BY <1>0, <2>a, <2>c, <3>1, <3>2 DEF WindowTypes
  <2>2. WaitsForOne'

    <3>1. CASE D!Outdated(c.build) /\ dialogs' = Append(dialogs, c.build)
      <4>1. Len(dialogs) + 1 \in 1..Len(dialogs') /\ dialogs'[Len(dialogs) + 1] # 0
        BY <1>0, <2>d, <3>1 DEF WindowTypes
      <4>. QED
        BY <4>1 DEF WaitsForOne
    <3>2. CASE page' = IF c.show = "ready" THEN "console" ELSE c.show
      BY <2>d, <3>2 DEF WaitsForOne
    <3>. QED
      BY <2>b, <3>1, <3>2
  <2>3. D!OldBuildsAreKept'

    <3>1. D!Outdated(seen)' <=> (known # 0 /\ seen' \notin {0, known})
      BY <2>a DEF D!Outdated
    <3>2. page' = "console" /\ page' # page => c.show = "ready" /\ ~D!Outdated(c.build) /\ seen' = c.build
      BY <2>b, <2>d
    <3>3. UNCHANGED <<page, seen>> \/ (~(c.show = "ready" /\ D!Outdated(c.build)) /\ seen' = c.build /\ (page' = "console" => c.show = "ready"))
      BY <2>b, <2>d
    <3>. QED
      BY <1>0, <2>a, <3>1, <3>3 DEF D!OldBuildsAreKept, D!Outdated
  <2>4. OneAtATime'

    <3>. SUFFICES ASSUME ~crossed PROVE OneAtATime'
      BY <2>a DEF OneAtATime
    <3>1. Len(posted) = 1 /\ D!Busy = {} /\ posted' = <<>> /\ D!Busy' = {}
      <4>1. Len(posted) <= 1 /\ D!Busy = {}
        BY <1>0, <2>a DEF OneAtATime
      <4>2. Len(posted) \in Nat \ {0} /\ Len(posted') = Len(posted) - 1
        BY <1>0, <2>a, <2>c, EmptySeq DEF WindowTypes
      <4>3. Len(posted') = 0
        BY <4>1, <4>2
      <4>. QED
        BY <2>a, <2>c, <4>1, <4>2, <4>3, EmptySeq DEF D!Busy
    <3>2. page' = "stopped" => c.show = "stopped" \/ page = "stopped"
      BY <2>b, <2>d
    <3>3. page' = "stopped" => job.op = "stop" /\ job.done
      BY <1>0, <2>c, <3>1, <3>2 DEF OneAtATime
    <3>4. 1..Len(posted') = {}
      BY <3>1
    <3>. QED
      BY <2>a, <3>1, <3>3, <3>4 DEF OneAtATime
  <2>5. StopsServer'
    BY <1>0, <1>8 DEF D!Runs, D!Outdated, WindowTypes, StopsServer
  <2>. QED
    BY <2>1, <2>2, <2>3, <2>4, <2>5 DEF WindowInv
<1>9. CASE D!Closes
  <2>1. WindowTypes'

    <3>1. /\ page' = "none" /\ thread' = [t \in Threads |-> D!Free] /\ posted' = <<>> /\ dialogs' = <<>>
          /\ kept' = {} /\ known' = 0 /\ crossed' = FALSE /\ unanswered' = FALSE
          /\ UNCHANGED <<package, server, job>>
      BY <1>9 DEF D!Closes
    <3>2. <<>> \in Seq(Callbacks) /\ <<>> \in Seq(D!Builds \cup {0})
      OBVIOUS
    <3>3. thread' \in [Threads -> [op : {"none", "wait", "start", "restart", "stop"},
                                   at : {"free", "command", "asked", "waiting"}]]
      BY <3>1 DEF D!Free
    <3>. QED
      BY <1>0, <3>1, <3>2, <3>3 DEF WindowTypes
  <2>2. WaitsForOne'
    BY <1>0, <1>9 DEF D!Closes, D!Free, WindowTypes, WaitsForOne, D!Busy
  <2>3. D!OldBuildsAreKept'
    BY <1>0, <1>9 DEF D!Closes, D!Free, WindowTypes, D!OldBuildsAreKept, D!Outdated
  <2>4. OneAtATime'
    BY <1>0, <1>9 DEF D!Closes, D!Free, WindowTypes, OneAtATime, D!Busy
  <2>5. StopsServer'
    BY <1>0, <1>9 DEF D!Closes, D!Free, WindowTypes, StopsServer
  <2>. QED
    BY <2>1, <2>2, <2>3, <2>4, <2>5 DEF WindowInv
<1>10. ASSUME NEW t \in Threads, D!Commands(t) PROVE WindowInv'

  <2>a. /\ thread[t].at = "command" /\ thread' = [thread EXCEPT ![t].at = "asked"]
        /\ job' = [op |-> thread[t].op, done |-> FALSE]
        /\ UNCHANGED <<page, known, posted, dialogs, kept, seen, crossed, unanswered, package, server>>
    BY <1>10 DEF D!Commands
  <2>b. t \in D!Busy /\ D!Busy' = D!Busy
    BY <1>0, <2>a DEF WindowTypes, D!Busy, D!Free
  <2>1. WindowTypes'
    BY <1>0, <1>10 DEF D!Commands, WindowTypes, D!Builds, Callbacks
  <2>2. WaitsForOne'
    BY <1>0, <2>a, <2>b DEF WaitsForOne
  <2>3. D!OldBuildsAreKept'
    BY <1>0, <1>10 DEF D!Commands, WindowTypes, D!OldBuildsAreKept, D!Outdated
  <2>4. OneAtATime'
    BY <1>0, <2>a, <2>b DEF OneAtATime, WindowTypes
  <2>5. StopsServer'
    BY <1>0, <1>10 DEF D!Commands, WindowTypes, StopsServer
  <2>. QED
    BY <2>1, <2>2, <2>3, <2>4, <2>5 DEF WindowInv
<1>11. ASSUME NEW t \in Threads, D!CommandReturns(t) PROVE WindowInv'
  <2>0. t \in D!Busy /\ thread[t].at = "asked" /\ job.op = thread[t].op /\ job.done
    BY <1>11 DEF D!CommandReturns, D!Busy, D!Free, D!Finished
  <2>1. CASE thread[t].op = "stop"
    <3>. DEFINE c == [show |-> "stopped", build |-> 0]
    <3>1. D!Posts(t, c) /\ c \in Callbacks
      BY <1>11, <2>1 DEF D!CommandReturns, Callbacks
    <3>. HIDE DEF c
    <3>. QED
      BY <2>0, <2>1, <3>1, Posted
  <2>2. CASE thread[t].op # "stop"
    <3>1. /\ thread' = [thread EXCEPT ![t].at = "waiting"]
          /\ UNCHANGED <<development, page, known, posted, dialogs, kept, seen, clicks, crossed,
                         unanswered, package, server, job>>
      BY <1>11, <2>2 DEF D!CommandReturns
    <3>2. WindowTypes' /\ D!Busy' = D!Busy
      BY <1>0, <2>0, <3>1 DEF WindowTypes, D!Busy, D!Free
    <3>3. WaitsForOne' /\ OneAtATime'
      BY <1>0, <3>1, <3>2 DEF WaitsForOne, OneAtATime
    <3>. QED
      BY <1>0, <3>1, <3>2, <3>3 DEF WindowInv, D!OldBuildsAreKept, D!Outdated, StopsServer
  <2>. QED
    BY <2>1, <2>2
<1>12. ASSUME NEW t \in Threads, D!CommandFails(t) PROVE WindowInv'
  <2>1. t \in D!Busy /\ D!Recovery \in Callbacks /\ D!Recovery.show # "stopped" /\ D!Posts(t, D!Recovery)
    BY <1>12 DEF D!CommandFails, D!Busy, D!Free, D!Recovery, Callbacks
  <2>. QED
    BY <2>1, Posted
<1>13. ASSUME NEW t \in Threads, D!BecomesReady(t) PROVE WindowInv'
  <2>. PICK build \in {server, 0} : D!Posts(t, [show |-> "ready", build |-> build])
    BY <1>13 DEF D!BecomesReady
  <2>. DEFINE c == [show |-> "ready", build |-> build]
  <2>1. t \in D!Busy /\ c \in Callbacks /\ c.show # "stopped" /\ D!Posts(t, c)
    BY <1>13, <1>0 DEF D!BecomesReady, D!Busy, D!Free, Callbacks, WindowTypes
  <2>. HIDE DEF c
  <2>. QED
    BY <2>1, Posted
<1>14. ASSUME NEW t \in Threads, D!TimesOut(t) PROVE WindowInv'
  <2>1. t \in D!Busy /\ D!Recovery \in Callbacks /\ D!Recovery.show # "stopped" /\ D!Posts(t, D!Recovery)
    BY <1>14 DEF D!TimesOut, D!Busy, D!Free, D!Recovery, Callbacks
  <2>. QED
    BY <2>1, Posted
<1>15. ASSUME NEW t \in Threads, D!AnswerBreaksOff(t) PROVE WindowInv'
  <2>1. WindowTypes'
    BY <1>0, <1>15 DEF D!AnswerBreaksOff, D!Free, WindowTypes, D!Builds, Callbacks
  <2>2. WaitsForOne'
    BY <1>0, <1>15 DEF D!AnswerBreaksOff, D!Free, WindowTypes, WaitsForOne, D!Busy
  <2>3. D!OldBuildsAreKept'
    BY <1>0, <1>15 DEF D!AnswerBreaksOff, D!Free, WindowTypes, D!OldBuildsAreKept, D!Outdated
  <2>4. OneAtATime'
    BY <1>0, <1>15 DEF D!AnswerBreaksOff, D!Free, WindowTypes, OneAtATime, D!Busy
  <2>5. StopsServer'
    BY <1>0, <1>15 DEF D!AnswerBreaksOff, D!Free, WindowTypes, StopsServer
  <2>. QED
    BY <2>1, <2>2, <2>3, <2>4, <2>5 DEF WindowInv
<1>16. CASE D!SystemdActs
  <2>1. WindowTypes'
    BY <1>0, <1>16 DEF D!SystemdActs, WindowTypes, D!Builds, Callbacks
  <2>2. WaitsForOne'
    BY <1>0, <1>16 DEF D!SystemdActs, WindowTypes, WaitsForOne, D!Busy
  <2>3. D!OldBuildsAreKept'
    BY <1>0, <1>16 DEF D!SystemdActs, WindowTypes, D!OldBuildsAreKept, D!Outdated
  <2>4. OneAtATime'
    BY <1>0, <1>16 DEF D!SystemdActs, WindowTypes, OneAtATime, D!Busy
  <2>5. StopsServer'
    BY <1>0, <1>16 DEF D!SystemdActs, WindowTypes, StopsServer
  <2>. QED
    BY <2>1, <2>2, <2>3, <2>4, <2>5 DEF WindowInv
<1>17. CASE D!Upgrades
  <2>1. WindowTypes'
    BY <1>0, <1>17 DEF D!Upgrades, WindowTypes, D!Builds, Callbacks
  <2>2. WaitsForOne'
    BY <1>0, <1>17 DEF D!Upgrades, WindowTypes, WaitsForOne, D!Busy
  <2>3. D!OldBuildsAreKept'
    BY <1>0, <1>17 DEF D!Upgrades, WindowTypes, D!OldBuildsAreKept, D!Outdated
  <2>4. OneAtATime'
    BY <1>0, <1>17 DEF D!Upgrades, WindowTypes, OneAtATime, D!Busy
  <2>5. StopsServer'
    BY <1>0, <1>17 DEF D!Upgrades, WindowTypes, StopsServer
  <2>. QED
    BY <2>1, <2>2, <2>3, <2>4, <2>5 DEF WindowInv
<1>18. CASE D!ServerDies
  <2>1. WindowTypes'
    BY <1>0, <1>18 DEF D!ServerDies, WindowTypes, D!Builds, Callbacks
  <2>2. WaitsForOne'
    BY <1>0, <1>18 DEF D!ServerDies, WindowTypes, WaitsForOne, D!Busy
  <2>3. D!OldBuildsAreKept'
    BY <1>0, <1>18 DEF D!ServerDies, WindowTypes, D!OldBuildsAreKept, D!Outdated
  <2>4. OneAtATime'
    BY <1>0, <1>18 DEF D!ServerDies, WindowTypes, OneAtATime, D!Busy
  <2>5. StopsServer'
    BY <1>0, <1>18 DEF D!ServerDies, WindowTypes, StopsServer
  <2>. QED
    BY <2>1, <2>2, <2>3, <2>4, <2>5 DEF WindowInv
<1>19. CASE UNCHANGED D!desktopVars
  BY <1>19 DEF D!desktopVars, WindowInv, WindowTypes, WaitsForOne, D!OldBuildsAreKept, OneAtATime, StopsServer,
     D!Busy, D!Outdated
<1>. QED
  BY <1>1, <1>2, <1>3, <1>4, <1>5, <1>6, <1>7, <1>8, <1>9, <1>10, <1>11, <1>12, <1>13, <1>14, <1>15, <1>16,
     <1>17, <1>18, <1>19 DEF D!DesktopNext

LEMMA WindowStart == D!DesktopInit => WindowInv
<1>. SUFFICES ASSUME D!DesktopInit PROVE WindowInv
  OBVIOUS
<1>1. /\ page = "none" /\ known = 0 /\ posted = <<>> /\ dialogs = <<>> /\ kept = {} /\ crossed = FALSE
      /\ unanswered = FALSE /\ package = 1 /\ job = [op |-> "none", done |-> TRUE] /\ server \in {0, 1}
  BY DEF D!DesktopInit
<1>2. thread \in [Threads -> [op : {"none", "wait", "start", "restart", "stop"},
                              at : {"free", "command", "asked", "waiting"}]] /\ D!Busy = {}
  BY DEF D!DesktopInit, D!Free, D!Busy
<1>3. WindowTypes
  <2>1. <<>> \in Seq(Callbacks) /\ <<>> \in Seq(D!Builds \cup {0})
    OBVIOUS
  <2>2. job \in [op : {"none", "wait", "start", "restart", "stop"}, done : BOOLEAN]
    BY <1>1
  <2>. QED
    BY <1>1, <1>2, <2>1, <2>2 DEF WindowTypes, D!Builds
<1>4. OneAtATime
  BY <1>1, <1>2 DEF OneAtATime
<1>. QED
  BY <1>1, <1>3, <1>4 DEF WindowInv, WaitsForOne, D!OldBuildsAreKept, StopsServer

LEMMA WindowHolds ==
  WindowInv => D!DesktopTypesOK /\ D!WindowsSettle /\ D!OldBuildsAreKept /\ D!StoppedIsTrue
<1>. SUFFICES ASSUME WindowInv
              PROVE  D!DesktopTypesOK /\ D!WindowsSettle /\ D!OldBuildsAreKept /\ D!StoppedIsTrue
  OBVIOUS
<1>0. WindowTypes /\ WaitsForOne /\ D!OldBuildsAreKept /\ OneAtATime /\ StopsServer
  BY DEF WindowInv
<1>1. D!DesktopTypesOK
  BY <1>0 DEF WindowTypes, D!DesktopTypesOK
<1>2. D!WindowsSettle
  <2>1. dialogs = <<>> => ~ \E i \in 1..Len(dialogs) : dialogs[i] # 0
    OBVIOUS
  <2>. QED
    BY <1>0, <2>1 DEF WindowTypes, WaitsForOne, D!WindowsSettle, D!AtRest
<1>3. D!StoppedIsTrue
  BY <1>0 DEF WindowTypes, OneAtATime, StopsServer, D!StoppedIsTrue
<1>. QED
  BY <1>0, <1>1, <1>2, <1>3

---------------------------------------------------------------------------
(* The host *)

HostInv == LaunchInv /\ ManifestInv /\ Q4Inv /\ TrialInv /\ StateInv /\ LogInv /\ WindowInv

\* All of it holds at first.
LEMMA HostStart == HostInit => HostInv
<1>. SUFFICES ASSUME HostInit PROVE HostInv
  OBVIOUS
<1>1. LaunchInv /\ ManifestInv
  BY LaunchStart, ManifestsInitially, ManifestsAreDistinct DEF HostInit
<1>2. Q4Inv /\ TrialInv
  BY Q4Start, TrialStart DEF HostInit
<1>3. StateInv /\ LogInv /\ WindowInv
  BY StateStart, LogStart, WindowStart DEF HostInit
<1>. QED
  BY <1>1, <1>2, <1>3 DEF HostInv

\* A step of the host is a step of each part, or leaves it alone.
LEMMA HostSteps ==
  ASSUME [HostNext]_hostVars
  PROVE  /\ [W!LaunchesNext]_(W!launchVars) /\ [M!ManifestNext]_(M!manifestVars)
         /\ [Q!Q4Next]_(Q!q4Vars) /\ [T!TrialNext]_(T!trialVars) /\ [S!StateNext]_(S!stateVars)
         /\ [G!LogsNext]_(G!logVars) /\ [D!DesktopNext]_(D!desktopVars)
<1>1. [W!LaunchesNext]_(W!launchVars)
  BY DEF HostNext, LaunchesStep, ManifestsStep, ReleaseStep, TrialStep, StateStep, LogStep, DesktopStep,
         hostVars, launches, W!launchVars
<1>2. [M!ManifestNext]_(M!manifestVars)
  BY DEF HostNext, LaunchesStep, ManifestsStep, ReleaseStep, TrialStep, StateStep, LogStep, DesktopStep,
         hostVars, manifests, M!manifestVars, M!directory
<1>3. [Q!Q4Next]_(Q!q4Vars)
  BY DEF HostNext, LaunchesStep, ManifestsStep, ReleaseStep, TrialStep, StateStep, LogStep, DesktopStep,
         hostVars, release, Q!q4Vars
<1>4. [T!TrialNext]_(T!trialVars)
  BY DEF HostNext, LaunchesStep, ManifestsStep, ReleaseStep, TrialStep, StateStep, LogStep, DesktopStep,
         hostVars, trial, T!trialVars
<1>5. [S!StateNext]_(S!stateVars)
  BY DEF HostNext, LaunchesStep, ManifestsStep, ReleaseStep, TrialStep, StateStep, LogStep, DesktopStep,
         hostVars, state, S!stateVars
<1>6. [G!LogsNext]_(G!logVars)
  BY DEF HostNext, LaunchesStep, ManifestsStep, ReleaseStep, TrialStep, StateStep, LogStep, DesktopStep,
         hostVars, log, G!logVars
<1>7. [D!DesktopNext]_(D!desktopVars)
  BY DEF HostNext, LaunchesStep, ManifestsStep, ReleaseStep, TrialStep, StateStep, LogStep, DesktopStep,
         hostVars, desktop, D!desktopVars
<1>. QED
  BY <1>1, <1>2, <1>3, <1>4, <1>5, <1>6, <1>7

\* The invariants of the parts are one of the host, for every interleaving of their steps.
THEOREM HostInvariant == HostSpec => []HostInv
<1>1. HostInv /\ [HostNext]_hostVars => HostInv'
  <2>. SUFFICES ASSUME HostInv, [HostNext]_hostVars PROVE HostInv'
    OBVIOUS
  <2>1. /\ [W!LaunchesNext]_(W!launchVars) /\ [M!ManifestNext]_(M!manifestVars)
        /\ [Q!Q4Next]_(Q!q4Vars) /\ [T!TrialNext]_(T!trialVars) /\ [S!StateNext]_(S!stateVars)
        /\ [G!LogsNext]_(G!logVars) /\ [D!DesktopNext]_(D!desktopVars)
    BY HostSteps
  <2>2. LaunchInv'
    BY <2>1, LaunchPreserved, LaunchSame DEF HostInv
  <2>3. ManifestInv' /\ Q4Inv' /\ TrialInv'
    BY <2>1, ManifestPreserved, Q4Preserved, TrialPreserved DEF HostInv
  <2>4. StateInv' /\ LogInv' /\ WindowInv'
    BY <2>1, StatePreserved, LogPreserved, WindowPreserved DEF HostInv
  <2>. QED
    BY <2>2, <2>3, <2>4 DEF HostInv
<1>. QED
  BY <1>1, HostStart, PTL DEF HostSpec

\* Every directory, row, file and window is in a state that the code can read.
THEOREM HostIsTyped == HostSpec => []HostTypesOK
<1>1. HostInv => HostTypesOK
  BY Q4Holds, TrialHolds, StateHolds, LogHolds, WindowHolds DEF HostInv, ManifestInv, HostTypesOK
<1>. QED
  BY <1>1, HostInvariant, PTL

\* A Worker runs under a reviewed thinking policy, one that was accepted can be started (the
\* builders of build_worker_launch) and provides its capability; the service loads approved
\* manifests, installations stay and refusals have a cause, whatever processes died
\* (_trusted_local_registrations), with the exceptions that the properties name.
THEOREM LaunchesAreAlwaysTrusted == HostSpec => []LaunchesAreTrusted
<1>1. HostInv => LaunchesAreTrusted
  BY LaunchHolds DEF HostInv, ManifestInv, LaunchesAreTrusted
<1>. QED
  BY <1>1, HostInvariant, PTL

\* What inspect_q4_release accepts, and what a Worker was created from, was written by a build
\* that ended, of shards from one conversion, unless tools ran beside each other or resumed.
THEOREM ReleasesAreAlwaysWhole == HostSpec => []ReleasesAreWhole
<1>1. HostInv => ReleasesAreWhole
  BY Q4Holds DEF HostInv, ReleasesAreWhole
<1>. QED
  BY <1>1, HostInvariant, PTL

\* No attempt after an abort is a success, one Worker is loaded at a time, a run that says its
\* cleanup worked leaves none, and the journal is a prefix of the schedule (run_trial).
THEOREM TrialsAreAlwaysSafe == HostSpec => []TrialsAreSafe
<1>1. HostInv => TrialsAreSafe
  BY TrialHolds DEF HostInv, TrialsAreSafe
<1>. QED
  BY <1>1, HostInvariant, PTL

\* No state of the data directory is lost, an activation survives upgrades and imports, what an
\* import placed is whole (import_state); a log's file is its memory and a follower has the
\* records in order and complete; a window that rests shows the truth (desktop/app.py).
THEOREM RecordsAreAlwaysKept == HostSpec => []RecordsAreKept
<1>1. HostInv => RecordsAreKept
  BY StateHolds, LogHolds, WindowHolds DEF HostInv, RecordsAreKept
<1>. QED
  BY <1>1, HostInvariant, PTL
=============================================================================
