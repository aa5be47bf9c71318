------------------------------- MODULE MCHost -------------------------------
(* The parts of a host one at a time: the part that the variable names steps. *)
EXTENDS Host, TLC

VARIABLE part

Local(id, runtime, family, thinking, traits) ==
    [id |-> id, runtime |-> runtime, family |-> family, cache |-> "cache_root",
     thinking |-> thinking, profile |-> None, traits |-> traits]

\* Local templates that are valid, of which two bring a policy nobody reviewed, and one
\* whose family its runtime does not have.
MCTemplates == {
    Local("local-chat", "transformers-rocm", "autoregressive", None, {"chat"}),
    Local("local-gemma", "gemma4-general-chat-transformers-rocm", "vision-language", "adaptive",
          {"chat", "image_input"}),
    Local("local-qwen", "qwen35-chat-transformers-rocm", "autoregressive", "adaptive",
          {"chat", "completions"}),
    Local("local-speech", "moshiko-rocm", "autoregressive", None, {"chat"}) }
MCRevisions == {"r1", "r2"}

\* Two contents of one version; a later version with the same template id, another package, and
\* one that reuses an id of the packaged templates.
MCManifests == {"m1", "m1x", "m2", "n", "c"}
MCFileOf == ("m1" :> "m-1.json") @@ ("m1x" :> "m-1.json") @@ ("m2" :> "m-2.json") @@ ("n" :> "n-1.json")
            @@ ("c" :> "c-1.json")
MCIdsOf == ("m1" :> {"t"}) @@ ("m1x" :> {"t"}) @@ ("m2" :> {"t"}) @@ ("n" :> {"u"}) @@ ("c" :> {"core"})

\* Two requests to one Worker and one to another.
MCSchedule == <<"a", "a", "b">>

\* Two installers beside each other, with two contents of one version.
TwoInstallers ==
    /\ \A i \in Installers : installer'[i].pc # "idle" => installer'[i].manifest \in {"m1", "m1x"}
    /\ touched' \subseteq {"m-1.json"}

\* One installer at a time, with three packages: two and one that has a template id in common
\* with another or with the packaged templates.
OneInstaller ==
    /\ installer'[2].pc = "idle"
    /\ installer'[1].pc # "idle" => installer'[1].manifest # "m1x"
    /\ \E f \in {"m-2.json", "c-1.json"} : file'[f] = None /\ fileTmp'[f] = None

MCInit ==
    /\ part \in {"launches", "together", "alone", "release", "beside", "trial", "state", "logs",
                "desktop"}
    /\ HostInit
    /\ part # "trial" => path = "worker"
    /\ part # "state" => data = None /\ archive = None
    /\ part # "desktop" => server = 0 /\ ~development

\* Releases: one tool at a time with two materialisations, or tools beside each other with one.
MCNext ==
    /\ UNCHANGED part
    /\ \/ part = "launches" /\ LaunchesStep
       \/ part = "together" /\ ManifestsStep /\ TwoInstallers
       \/ part = "alone" /\ ManifestsStep /\ OneInstaller
       \/ part = "release" /\ ReleaseStep /\ ~together'
       \/ part = "beside" /\ ReleaseStep /\ materialised' <= 1
       \/ part = "trial" /\ TrialStep
       \/ part = "state" /\ StateStep
       \/ part = "logs" /\ LogStep
       \/ part = "desktop" /\ DesktopStep

MCSpec == MCInit /\ [][MCNext]_<<part, hostVars>>
=============================================================================
