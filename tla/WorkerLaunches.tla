---------------------------- MODULE WorkerLaunches ----------------------------
(***************************************************************************)
(* From a cached Model to the command line of its Worker.  Five tables     *)
(* have to agree: the trusted implementations (runtime_trust.py), the      *)
(* packaged templates, the capabilities and the templates they list        *)
(* (capabilities.py), what the cache scan says of a Model (hf_cache.py),   *)
(* and the launch builders (supervisor/service.py), each of which has a    *)
(* last word of its own.  Between them come restarts with other local      *)
(* templates and approvals of candidates: a Worker that was created is     *)
(* launched from its document, without another look at its template.       *)
(***************************************************************************)
EXTENDS Naturals

CONSTANTS
    LocalTemplates,  \* templates of manifests an operator may have installed
    Revisions,       \* revisions of the Qwen3.5 repository whose candidates are approved
    None

VARIABLES
    registrations,   \* runtime_registrations of the running service
    approved,        \* the revision in the candidate's manifest, or None
    worker,          \* the definition of a Worker, or None
    process,         \* what its process was launched with, or None
    reapproved       \* ghost: revisions whose manifest another revision's replaced

launchVars == <<registrations, approved, worker, process, reapproved>>

---------------------------------------------------------------------------
(* Tables.  Traits and settings are those that a decision looks at. *)

Chat == {"chat", "completions"}
Scene == {"image_input", "structured_output"}
Diffusion == {"iterative_refinement", "intermediate_frames"}
Speech == {"audio_input", "audio_output", "full_duplex"}

Impl(runtime, families, cache, traits, settings) ==
    [runtime |-> runtime, families |-> families, cache |-> cache, traits |-> traits, settings |-> settings]

TransformersImplementations == {
    Impl("transformers-rocm", {"autoregressive", "embedding"}, "cache_root",
        Chat \cup {"top_k_trace", "embeddings"}, {}),
    Impl("vision-language-transformers-rocm", {"vision-language"}, "cache_root", Scene \cup {"chat"}, {}),
    Impl("gemma4-general-chat-transformers-rocm", {"vision-language"}, "cache_root",
        {"chat", "image_input"}, {"thinking"}),
    Impl("qwen35-vision-language-transformers-rocm", {"vision-language"}, "cache_root",
        Scene \cup {"chat"}, {}) }

QwenImplementations == {
    Impl("qwen35-chat-transformers-rocm", {"autoregressive"}, "cache_root", Chat, {"thinking"}),
    Impl("qwen38-fp8-vision-language-transformers-rocm", {"vision-language"}, "cache_root",
        Scene \cup {"chat"}, {}),
    Impl("qwen38-fp8-chat-transformers-rocm", {"autoregressive"}, "cache_root", Chat, {"thinking"}),
    Impl("text-diffusion-transformers-rocm", {"text-diffusion"}, "cache_root", Diffusion, {}),
    Impl("text-diffusion-gptq-rocm", {"text-diffusion"}, "q4_checkpoint_dir", Diffusion, {}) }

OtherImplementations == {
    Impl("llama-vulkan", {"autoregressive"}, "artifact_path", Chat, {}),
    Impl("qwen35-llamacpp-vulkan", {"autoregressive"}, "artifact_path", Chat, {"thinking", "profile"}),
    Impl("qwen38-llamacpp-vulkan", {"autoregressive"}, "artifact_path", Chat \cup Scene,
        {"thinking", "profile"}),
    Impl("moshiko-rocm", {"speech-conversation"}, "cache_root", Speech, {}),
    Impl("marian-transformers-cpu", {"text-translation"}, "cache_root", {"translation"}, {}),
    Impl("qwen3-tts-rocm", {"speech-synthesis"}, "cache_root", {"speech_synthesis", "audio_output"}, {}),
    Impl("whisper-small-en-rocm", {"speech-recognition"}, "cache_root",
        {"speech_recognition", "audio_input"}, {}) }

TRUSTED_RUNTIME_IMPLEMENTATIONS ==
    TransformersImplementations \cup QwenImplementations \cup OtherImplementations

Template(id, runtime, family, cache, thinking, profile, traits) ==
    [id |-> id, runtime |-> runtime, family |-> family, cache |-> cache,
     thinking |-> thinking, profile |-> profile, traits |-> traits]

\* RuntimeTemplate.trusted_runtime
TrustedRuntime(t) ==
    \E i \in TRUSTED_RUNTIME_IMPLEMENTATIONS :
        /\ t.runtime = i.runtime
        /\ t.family \in i.families /\ t.cache = i.cache /\ t.traits \subseteq i.traits
        /\ t.thinking # None => "thinking" \in i.settings
        /\ t.profile # None => "profile" \in i.settings

Plain(id, runtime, family, traits) == Template(id, runtime, family, "cache_root", None, None, traits)
Gguf(id, runtime, thinking, profile, traits) ==
    Template(id, runtime, "autoregressive", "artifact_path", thinking, profile, traits)

Packaged == {
    Plain("autoregressive-transformers", "transformers-rocm", "autoregressive", Chat \cup {"top_k_trace"}),
    Plain("embedding-transformers", "transformers-rocm", "embedding", {"embeddings"}),
    Plain("scenechat-gemma4", "vision-language-transformers-rocm", "vision-language", Scene),
    [Plain("gemma4-general-chat-rocm", "gemma4-general-chat-transformers-rocm", "vision-language",
        {"chat", "image_input"}) EXCEPT !.thinking = "disabled"],
    [Plain("gemma4-general-chat-rocm-adaptive", "gemma4-general-chat-transformers-rocm", "vision-language",
        {"chat", "image_input"}) EXCEPT !.thinking = "adaptive"],
    Plain("scenechat-qwen35", "qwen35-vision-language-transformers-rocm", "vision-language", Scene),
    [Plain("qwen35-chat-transformers-rocm", "qwen35-chat-transformers-rocm", "autoregressive", Chat)
        EXCEPT !.thinking = "disabled"],
    Plain("scenechat-qwen38-fp8", "qwen38-fp8-vision-language-transformers-rocm", "vision-language", Scene),
    [Plain("qwen38-fp8-chat-transformers-rocm", "qwen38-fp8-chat-transformers-rocm", "autoregressive", Chat)
        EXCEPT !.thinking = "disabled"],
    Plain("diffusiongemma-transformers", "text-diffusion-transformers-rocm", "text-diffusion", Diffusion),
    Template("diffusiongemma-modeldeck-q4", "text-diffusion-gptq-rocm", "text-diffusion",
        "q4_checkpoint_dir", None, None, Diffusion),
    Gguf("gpt-oss-llama-vulkan", "llama-vulkan", None, None, Chat),
    Gguf("qwen35-llamacpp-q8-vulkan", "qwen35-llamacpp-vulkan", "disabled", "qwen35-4b-q8-vulkan", Chat),
    Gguf("qwen35-llamacpp-q8-vulkan-adaptive", "qwen35-llamacpp-vulkan", "adaptive", "qwen35-4b-q8-vulkan", Chat),
    Gguf("qwen35-local-q8-vulkan", "qwen35-llamacpp-vulkan", "disabled", "qwen35-approved-q8-vulkan", Chat),
    Gguf("qwen35-local-q8-vulkan-adaptive", "qwen35-llamacpp-vulkan", "adaptive", "qwen35-approved-q8-vulkan", Chat),
    Gguf("qwen38-llamacpp-q8-mtp-vulkan", "qwen38-llamacpp-vulkan", "adaptive", "qwen38-q8-mtp-vulkan", Chat \cup Scene),
    Gguf("qwen38-llamacpp-q8-mtp-vulkan-no-thinking", "qwen38-llamacpp-vulkan", "disabled",
        "qwen38-q8-mtp-vulkan", Chat \cup Scene),
    Plain("moshiko-speech", "moshiko-rocm", "speech-conversation", Speech),
    Plain("opus-translation-cpu", "marian-transformers-cpu", "text-translation", {"translation"}),
    Plain("qwen3-tts-rocm", "qwen3-tts-rocm", "speech-synthesis", {"speech_synthesis", "audio_output"}),
    Plain("whisper-small-en-rocm", "whisper-small-en-rocm", "speech-recognition",
        {"speech_recognition", "audio_input"}) }
PackagedIds == {t.id : t \in Packaged}

\* The templates a family of GGUF or Qwen Models may choose between.
Qwen35Packaged == {"qwen35-llamacpp-q8-vulkan", "qwen35-llamacpp-q8-vulkan-adaptive"}
Qwen35Local == {"qwen35-local-q8-vulkan", "qwen35-local-q8-vulkan-adaptive"}
Qwen38 == {"qwen38-llamacpp-q8-mtp-vulkan", "qwen38-llamacpp-q8-mtp-vulkan-no-thinking"}
Gemma4 == {"gemma4-general-chat-rocm", "gemma4-general-chat-rocm-adaptive"}
QwenText == {"qwen35-chat-transformers-rocm", "qwen38-fp8-chat-transformers-rocm"}
Completing == {"autoregressive-transformers", "gpt-oss-llama-vulkan"} \cup Qwen35Packaged \cup Qwen35Local
              \cup Qwen38 \cup QwenText

Capabilities == {
    "general-chat", "text-completion", "autoregressive-trace", "embeddings", "general-image-chat",
    "video-understanding", "scene-analysis", "text-refinement", "speech-conversation",
    "translation-en-fr", "translation-en-de", "speech-synthesis", "speech-recognition"}

\* The templates a capability lists.
CAPABILITY_DEFINITIONS(c) ==
    CASE c = "general-chat" -> Completing \cup Gemma4
      [] c = "text-completion" -> Completing
      [] c = "autoregressive-trace" -> {"autoregressive-transformers"}
      [] c = "embeddings" -> {"embedding-transformers"}
      [] c = "general-image-chat" -> Gemma4 \cup Qwen38
      [] c = "scene-analysis" -> {"scenechat-gemma4", "scenechat-qwen35", "scenechat-qwen38-fp8"}
      [] c = "text-refinement" -> {"diffusiongemma-transformers", "diffusiongemma-modeldeck-q4"}
      [] c = "speech-conversation" -> {"moshiko-speech"}
      [] c \in {"translation-en-fr", "translation-en-de"} -> {"opus-translation-cpu"}
      [] c = "speech-synthesis" -> {"qwen3-tts-rocm"}
      [] c = "speech-recognition" -> {"whisper-small-en-rocm"}
      [] OTHER -> {}

Text == {"general-chat", "text-completion"}
Images == {"general-image-chat", "scene-analysis"}

\* Nothing where a support or a capability has no entry.
QWEN_TEXT_CAPABILITY_TEMPLATES(support, c) ==
    CASE support = "qwen35-local-q8-vulkan" /\ c \in Text -> Qwen35Local
      [] support = "qwen35-llamacpp-q8-vulkan" /\ c \in Text -> Qwen35Packaged
      [] support = "qwen38-llamacpp-q8-mtp-vulkan" /\ c \in Text \cup {"general-image-chat"} -> Qwen38
      [] support = "scenechat-qwen35" /\ c \in Text -> {"qwen35-chat-transformers-rocm"}
      [] support = "scenechat-qwen35" /\ c \in Images -> {"scenechat-qwen35"}
      [] support = "scenechat-gemma4" /\ c \in {"general-chat", "general-image-chat"} -> Gemma4
      [] support = "scenechat-gemma4" /\ c = "scene-analysis" -> {"scenechat-gemma4"}
      [] support = "scenechat-qwen38-fp8" /\ c \in Text -> QwenText
      [] support = "scenechat-qwen38-fp8" /\ c \in Images -> {"scenechat-qwen35", "scenechat-qwen38-fp8"}
      [] OTHER -> {}

Families == {"autoregressive", "embedding", "vision-language", "text-diffusion", "speech-conversation",
             "text-translation", "speech-synthesis", "speech-recognition"}

FAMILY_CAPABILITIES(f) ==
    CASE f = "autoregressive" -> Text \cup {"autoregressive-trace"}
      [] f = "embedding" -> {"embeddings"}
      [] f = "vision-language" -> {"general-image-chat"}
      [] f = "text-diffusion" -> {"text-refinement"}
      [] f \in {"speech-conversation", "speech-synthesis", "speech-recognition"} -> {f}
      [] OTHER -> {}

CAPABILITY_GENERATION_FAMILIES(c) ==
    CASE c = "scene-analysis" -> "vision-language"
      [] c \in {"translation-en-fr", "translation-en-de"} -> "text-translation"
      [] c = "video-understanding" -> None
      [] OTHER -> CHOOSE f \in Families : c \in FAMILY_CAPABILITIES(f)

\* _required_worker_traits
RequiredTraits(c) ==
    CASE c = "general-chat" -> {"chat"}
      [] c = "text-completion" -> {"completions"}
      [] c = "autoregressive-trace" -> {"top_k_trace"}
      [] c = "embeddings" -> {"embeddings"}
      [] c = "general-image-chat" -> {"chat", "image_input"}
      [] c = "scene-analysis" -> Scene
      [] c = "text-refinement" -> Diffusion
      [] c = "speech-conversation" -> Speech
      [] c \in {"translation-en-fr", "translation-en-de"} -> {"translation"}
      [] c = "speech-synthesis" -> {"speech_synthesis", "audio_output"}
      [] c = "speech-recognition" -> {"speech_recognition", "audio_input"}
      [] OTHER -> {}

---------------------------------------------------------------------------
(* Models in the cache *)

Model(id, family, support) ==
    [id |-> id, revision |-> None, family |-> family, support |-> support, artefact |-> FALSE]

\* One Model for each branch of _configuration_support and _generation_family.
FixedModels == {
    Model("plain", "autoregressive", "autoregressive-transformers"),
    Model("Qwen/Qwen3-Embedding-0.6B", "embedding", "embedding-transformers"),
    Model("gemma4", "vision-language", "scenechat-gemma4"),
    Model("Qwen/Qwen3.5-4B", "vision-language", "scenechat-qwen35"),
    Model("Qwen/Qwen3.8-27B-FP8", "vision-language", "scenechat-qwen38-fp8"),
    Model("diffusiongemma", "text-diffusion", "diffusiongemma-transformers"),
    Model("q4-release", "text-diffusion", "diffusiongemma-modeldeck-q4"),
    Model("kyutai/moshiko-pytorch-bf16", "speech-conversation", "moshiko-speech"),
    Model("opus-mt-en-fr", "text-translation", "opus-translation-cpu"),
    Model("opus-mt-en-de", "text-translation", "opus-translation-cpu"),
    Model("Qwen3-TTS", "speech-synthesis", "qwen3-tts-rocm"),
    Model("whisper-small.en", "speech-recognition", "whisper-small-en-rocm") }
GgufModels == {[m EXCEPT !.artefact = TRUE] : m \in {
    Model("gpt-oss-120b-GGUF", "autoregressive", "gpt-oss-llama-vulkan"),
    Model("bartowski/Qwen_Qwen3.5-4B-GGUF", "autoregressive", "qwen35-llamacpp-q8-vulkan"),
    Model("ggml-org/Qwen3.8-27B-GGUF", "autoregressive", "qwen38-llamacpp-q8-mtp-vulkan") }}

Candidate(r) ==
    [Model("bartowski/Qwen_Qwen3.5-9B-GGUF", "autoregressive", "qwen35-local-q8-vulkan")
        EXCEPT !.revision = r, !.artefact = TRUE]

\* A bug: one approval counts for the whole repository.
Discovered_AnyRevision ==
    FixedModels \cup GgufModels \cup {Candidate(r) : r \in IF approved = None THEN {} ELSE Revisions}

\* discover_huggingface_models: a revision of another Qwen3.5 repository is supported
\* while its candidate is approved.
Discovered ==
    FixedModels \cup GgufModels \cup {Candidate(r) : r \in {approved} \ {None}}

\* REVIEWED_MODEL_SPECS
ReviewedCapabilities(m) ==
    IF m.support \in {"scenechat-qwen35", "scenechat-qwen38-fp8"}
    THEN {"general-chat", "text-completion", "general-image-chat", "video-understanding", "scene-analysis"}
    ELSE {}

\* capability_candidates
CapabilityCandidates(m) ==
    FAMILY_CAPABILITIES(m.family) \cup ReviewedCapabilities(m) \cup
    {c \in Capabilities :
        m.support \in CAPABILITY_DEFINITIONS(c) \/ QWEN_TEXT_CAPABILITY_TEMPLATES(m.support, c) # {}}

\* A bug: the traits the capability needs are not looked at.
CompatibleTemplates_AnyTraits(c, support) ==
    CASE QWEN_TEXT_CAPABILITY_TEMPLATES(support, c) # {} ->
            {t \in registrations : t.id \in QWEN_TEXT_CAPABILITY_TEMPLATES(support, c)}
      [] OTHER -> {t \in registrations :
                    t.family = CAPABILITY_GENERATION_FAMILIES(c)
                    /\ \E baseline \in registrations : baseline.id = support /\ t.cache = baseline.cache}

\* compatible_runtime_template_ids; base identities go with the cache of a release.
CompatibleTemplates(c, support) ==
    CASE support = "gpt-oss-llama-vulkan" /\ c \in {"general-chat", "text-completion"} ->
            {t \in registrations : t.id = support}
      [] QWEN_TEXT_CAPABILITY_TEMPLATES(support, c) # {} ->
            {t \in registrations : t.id \in QWEN_TEXT_CAPABILITY_TEMPLATES(support, c)}
      [] OTHER ->
            {t \in registrations :
                /\ CAPABILITY_DEFINITIONS(c) # {}
                /\ t.family = CAPABILITY_GENERATION_FAMILIES(c)
                /\ RequiredTraits(c) \subseteq t.traits
                /\ \E baseline \in registrations :
                      /\ baseline.id = support
                      /\ t.family = baseline.family /\ t.cache = baseline.cache}

---------------------------------------------------------------------------
(* Launches: one operator for each group of builders, in an environment that has every
   interpreter.  *)

\* expected_thinking_mode, by the id of the Worker's template.
PolicyOf(w) == {t.thinking : t \in {t \in Packaged : t.runtime = w.runtime /\ t.id = w.template}}

CacheLaunch(w) == w.path = "cache_root"
TransformersLaunch(w) == w.family = "autoregressive" \/ (w.family = "embedding" /\ CacheLaunch(w))
SceneLaunch(w) == CacheLaunch(w)
SpeechLaunch(w) == CacheLaunch(w)
GemmaLaunch(w) == CacheLaunch(w) /\ w.thinking \in PolicyOf(w)

\* A bug: a local template of the runtime brings its own policy.
QwenChatLaunch_AnyPolicy(w) == CacheLaunch(w)

QwenChatLaunch(w) == CacheLaunch(w) /\ w.thinking = "disabled"
Fp8Launch(w) == w.model = "Qwen/Qwen3.8-27B-FP8" /\ (w.family = "autoregressive" => QwenChatLaunch(w))
DiffusionLaunch(w) == w.path \in {"cache_root", "q4_checkpoint_dir"}
TranslationLaunch(w) == CacheLaunch(w) /\ w.direction \in {"en-fr", "en-de"}
LlamaLaunch(w) == w.path = "artifact_path"

Qwen38LlamaLaunch(w) ==
    /\ LlamaLaunch(w) /\ w.thinking \in PolicyOf(w)
    /\ w.model = "ggml-org/Qwen3.8-27B-GGUF"
    /\ w.profile \in {"qwen38-q8-mtp-vulkan", "qwen38-q4-mtp-vulkan"}

\* load_candidate: the manifest with the Worker's candidate id is of its revision.
CandidateMatches(w) == approved # None /\ w.revision = approved

Qwen35LlamaLaunch(w) ==
    /\ LlamaLaunch(w) /\ w.thinking \in PolicyOf(w)
    /\ \/ w.profile = "qwen35-4b-q8-vulkan" /\ w.model = "bartowski/Qwen_Qwen3.5-4B-GGUF"
       \/ w.profile = "qwen35-approved-q8-vulkan" /\ CandidateMatches(w)

\* build_worker_launch and TRUSTED_LAUNCH_BUILDERS
Launchable(w) ==
    CASE w.runtime = "transformers-rocm" -> TransformersLaunch(w)
      [] w.runtime \in {"vision-language-transformers-rocm", "qwen35-vision-language-transformers-rocm"} ->
            SceneLaunch(w)
      [] w.runtime = "gemma4-general-chat-transformers-rocm" -> GemmaLaunch(w)
      [] w.runtime = "qwen35-chat-transformers-rocm" -> QwenChatLaunch(w)
      [] w.runtime \in {"qwen38-fp8-vision-language-transformers-rocm",
                        "qwen38-fp8-chat-transformers-rocm"} -> Fp8Launch(w)
      [] w.runtime \in {"text-diffusion-transformers-rocm", "text-diffusion-gptq-rocm"} -> DiffusionLaunch(w)
      [] w.runtime = "marian-transformers-cpu" -> TranslationLaunch(w)
      [] w.runtime = "llama-vulkan" -> LlamaLaunch(w)
      [] w.runtime = "qwen38-llamacpp-vulkan" -> Qwen38LlamaLaunch(w)
      [] w.runtime = "qwen35-llamacpp-vulkan" -> Qwen35LlamaLaunch(w)
      [] w.runtime \in {"moshiko-rocm", "qwen3-tts-rocm", "whisper-small-en-rocm"} -> SpeechLaunch(w)
      [] OTHER -> FALSE  \* no builder

\* capabilities_for_worker and _worker_matches_capability
Provides(w, c) ==
    /\ RequiredTraits(c) \subseteq w.traits
    /\ c = "translation-en-fr" => w.direction = "en-fr"
    /\ c = "translation-en-de" => w.direction = "en-de"

---------------------------------------------------------------------------
LaunchesInit ==
    /\ registrations = Packaged
    /\ approved = None /\ reapproved = {}
    /\ worker = None /\ process = None

\* The service starts with the local templates that are valid and have ids of their own.
StartsWith(locals) ==
    /\ \A t \in locals : TrustedRuntime(t) /\ t.id \notin PackagedIds
    /\ \A s, t \in locals : s.id = t.id => s = t
    /\ registrations' = Packaged \cup locals
    /\ process' = None
    /\ UNCHANGED <<approved, worker, reapproved>>

\* approve_candidate: the manifest's name comes from the file's digest, which revisions of
\* a repository may have in common.
Approves(r) ==
    /\ approved' = r
    /\ reapproved' = reapproved \cup ({approved} \ {None, r})
    /\ UNCHANGED <<registrations, worker, process>>

\* The direction of a pinned translation Model (SPEECHSHIFT_MODEL_SPECS).
Direction(m) == CASE m.id = "opus-mt-en-fr" -> "en-fr" [] m.id = "opus-mt-en-de" -> "en-de" [] OTHER -> None

\* create_local_profile refuses these: a candidate's runtime without the candidate, and
\* Models that are not in the speech tables.
Configurable(m, t) ==
    /\ t.cache = "artifact_path" => m.artefact
    /\ t.profile = "qwen35-approved-q8-vulkan" => m.support = "qwen35-local-q8-vulkan"
    /\ t.family = "text-translation" => Direction(m) # None
    /\ t.family = "speech-recognition" => m.id = "whisper-small.en"

\* What the definition keeps of the template; the capability is only remembered here.
Definition(m, c, t) ==
    [model |-> m.id, revision |-> m.revision, capability |-> c, template |-> t.id, runtime |-> t.runtime,
     family |-> t.family, path |-> t.cache, thinking |-> t.thinking, profile |-> t.profile, traits |-> t.traits,
     direction |-> IF t.family = "text-translation" THEN Direction(m) ELSE None]

CreatesWorker ==
    /\ worker = None
    /\ \E m \in Discovered : \E c \in CapabilityCandidates(m) :
        \E t \in CompatibleTemplates(c, m.support) :
            Configurable(m, t) /\ worker' = Definition(m, c, t)
    /\ UNCHANGED <<registrations, approved, process, reapproved>>

\* A start whose builder raises leaves the Worker failed, without a process.
LaunchesWorker ==
    /\ worker # None /\ process = None
    /\ Launchable(worker)
    /\ process' = worker
    /\ UNCHANGED <<registrations, approved, worker, reapproved>>

StopsWorker ==
    /\ process # None
    /\ process' = None
    /\ UNCHANGED <<registrations, approved, worker, reapproved>>

ArchivesWorker ==
    /\ worker # None /\ process = None
    /\ worker' = None
    /\ UNCHANGED <<registrations, approved, process, reapproved>>

LaunchesNext ==
    \/ \E locals \in SUBSET LocalTemplates : StartsWith(locals)
    \/ \E r \in Revisions : Approves(r)
    \/ CreatesWorker \/ LaunchesWorker \/ StopsWorker \/ ArchivesWorker

LaunchesSpec == LaunchesInit /\ [][LaunchesNext]_launchVars

---------------------------------------------------------------------------
(* Properties *)

\* A process of a runtime whose thinking policy was reviewed runs under the policy a packaged
\* template states for it, whatever local templates were installed before or since
\* (the builders' "requires an allowlisted thinking policy").
PoliciesAreReviewed ==
    process # None =>
        \A i \in TRUSTED_RUNTIME_IMPLEMENTATIONS :
            i.runtime = process.runtime /\ "thinking" \in i.settings =>
                \E t \in Packaged : t.runtime = process.runtime /\ t.thinking = process.thinking

\* A Worker that create_worker accepted with a packaged template can be started, now and after
\* restarts, but for the FP8 chat runtime, which is offered to any causal language model, and
\* for a candidate whose manifest was replaced by that of another revision.
OfferedWorkersStart ==
    worker # None /\ worker.template \in PackagedIds =>
        \/ Launchable(worker)
        \/ worker.template = "qwen38-fp8-chat-transformers-rocm" /\ worker.model = "plain"
        \/ worker.revision \in reapproved

\* A Worker created for a capability counts as providing it, but for the translation directions
\* and the image chat of the scene runtimes, which are accepted and never provided.
WorkersProvideTheirCapability ==
    worker # None =>
        \/ Provides(worker, worker.capability)
        \/ worker.family = "text-translation"
        \/ worker.capability = "general-image-chat"
            /\ worker.template \in {"scenechat-qwen35", "scenechat-qwen38-fp8"}
=============================================================================
