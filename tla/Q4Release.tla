------------------------------ MODULE Q4Release ------------------------------
(***************************************************************************)
(* The DiffusionGemma Q4 checkpoint from its conversion to a Worker: four  *)
(* tools that read and write the files of a directory, each of which may   *)
(* die at any step and be run again, also beside another.  The conversion  *)
(* writes one shard of expert weights per layer; the materialiser adds the *)
(* other weights and the runtime's files, in the same directory or in one  *)
(* of its own, whose shards are hard links or copies; the evaluation       *)
(* writes a report; the packager checks all that, hashes it and signs it   *)
(* off; the management application verifies a downloaded release before it *)
(* creates a Worker.  The bytes of a file are the number of the run that   *)
(* wrote it: shards of a layer have one size whichever conversion wrote    *)
(* them, and only a torn one has another.                                  *)
(***************************************************************************)
EXTENDS Integers

CONSTANTS
    Layers,           \* the number of expert shards
    MaxConversions,   \* bounds on the runs of each tool
    MaxMaterialised,
    MaxBuilds,
    Together,         \* FALSE: a bound, only one of the tools that write is at work
    None

Shards == 1..Layers
Dirs == {"source", "output"}
Absent == 0
Torn == -1

\* What an evaluation reports: a result the packager accepts, or one that fails a gate or
\* misses a constraint, which the evaluation's own gate allows.
Results == {"passed", "refused"}

VARIABLES
    dir,           \* the files of each directory
    linked,        \* shards of "output" that are the same file as those of "source"
    report,        \* var/q4-quality-evaluation.json, or None
    converter, materialiser, packager,   \* the tools at work
    evaluating,    \* TRUE while an evaluation runs
    conversions, materialised, builds,   \* counters behind the contents
    published,     \* the files of the release on the hub, or None
    worker,        \* the files of the snapshot a Worker was created from, or None
    built,         \* ghost: inventories of builds that ended
    mixed,         \* ghost: a shard of another conversion was kept, or rewritten through a link
    overlapped     \* ghost: two of the tools that write ran at once

q4Vars == <<dir, linked, report, converter, materialiser, packager, evaluating, conversions,
            materialised, builds, published, worker, built, mixed, overlapped>>

Off == [pc |-> "off"]
EmptyDir == [expert |-> [l \in Shards |-> Absent], weights |-> Absent, runtime |-> Absent,
          manifest |-> None, report |-> None, release |-> None, sums |-> None]

Q4TypesOK ==
    /\ \A d \in Dirs :
        /\ dir[d].expert \in [Shards -> Torn..MaxConversions]
        /\ dir[d].weights \in 0..MaxMaterialised /\ dir[d].runtime \in 0..MaxMaterialised
        /\ dir[d].report \in Results \cup {None}
    /\ linked \subseteq Shards /\ report \in Results \cup {"torn", None}
    /\ mixed \in BOOLEAN /\ overlapped \in BOOLEAN

Q4Init ==
    /\ dir = [d \in Dirs |-> EmptyDir] /\ linked = {} /\ report = None
    /\ converter = Off /\ materialiser = Off /\ packager = Off /\ evaluating = FALSE
    /\ conversions = 0 /\ materialised = 0 /\ builds = 0
    /\ published = None /\ worker = None
    /\ built = {} /\ mixed = FALSE /\ overlapped = FALSE

Busy == {t \in {converter, materialiser, packager} : t # Off}
Starts ==
    /\ Together \/ Busy = {}
    /\ overlapped' = (overlapped \/ Busy # {})

---------------------------------------------------------------------------
(* The conversion, q4_full_model_smoke.py --checkpoint-dir *)

\* The manifest of an expert delta: version 1 names no other files.
Delta(layers, state) ==
    [state |-> state, layers |-> layers, version |-> 1, weights |-> Absent, runtime |-> Absent]

\* A bug: the manifest is written when the first layer is done.
BeginsConversion_Later ==
    /\ converter = Off /\ conversions < MaxConversions
    /\ conversions' = conversions + 1
    /\ converter' = [pc |-> "layer", next |-> 1]
    /\ Starts
    /\ UNCHANGED <<dir, linked, report, materialiser, packager, evaluating, materialised, builds,
                   published, worker, built, mixed>>

\* The manifest says "converting" before a shard is written.
BeginsConversion ==
    /\ converter = Off /\ conversions < MaxConversions
    /\ conversions' = conversions + 1
    /\ dir' = [dir EXCEPT !["source"].manifest = Delta(0, "converting")]
    /\ converter' = [pc |-> "layer", next |-> 1]
    /\ Starts
    /\ UNCHANGED <<linked, report, materialiser, packager, evaluating, materialised, builds,
                   published, worker, built, mixed>>

\* save_file truncates and fills the file, for both directories if they share it.
WritesShard(content) ==
    LET l == converter.next IN
    /\ dir' = [d \in Dirs |-> IF d = "source" \/ l \in linked
                              THEN [dir[d] EXCEPT !.expert[l] = content] ELSE dir[d]]
    /\ mixed' = (mixed \/ (l \in linked /\ dir["output"].expert[l] # content))

OpensShard ==
    /\ converter.pc = "layer" /\ converter.next \in Shards
    /\ WritesShard(Torn)
    /\ converter' = [converter EXCEPT !.pc = "filled"]
    /\ UNCHANGED <<linked, report, materialiser, packager, evaluating, conversions, materialised,
                   builds, published, worker, built, overlapped>>

FillsShard ==
    /\ converter.pc = "filled"
    /\ WritesShard(conversions)
    /\ converter' = [converter EXCEPT !.pc = "record"]
    /\ UNCHANGED <<linked, report, materialiser, packager, evaluating, conversions, materialised,
                   builds, published, worker, built, overlapped>>

RecordsLayer ==
    /\ converter.pc = "record"
    /\ dir' = [dir EXCEPT !["source"].manifest = Delta(converter.next, "converting")]
    /\ converter' = [pc |-> "layer", next |-> converter.next + 1]
    /\ UNCHANGED <<linked, report, materialiser, packager, evaluating, conversions, materialised,
                   builds, published, worker, built, mixed, overlapped>>

EndsConversion ==
    /\ converter.pc = "layer" /\ converter.next > Layers
    /\ dir' = [dir EXCEPT !["source"].manifest = Delta(Layers, "complete")]
    /\ converter' = Off
    /\ UNCHANGED <<linked, report, materialiser, packager, evaluating, conversions, materialised,
                   builds, published, worker, built, mixed, overlapped>>

ConverterDies ==
    /\ converter # Off /\ converter' = Off
    /\ UNCHANGED <<dir, linked, report, materialiser, packager, evaluating, conversions,
                   materialised, builds, published, worker, built, mixed, overlapped>>

---------------------------------------------------------------------------
(* materialize_diffusiongemma_q4.py *)

Complete(m) == m # None /\ m.state = "complete" /\ m.layers = Layers

\* validate_source_manifest; what it read is what it will write.
BeginsMaterialising(d) ==
    /\ materialiser = Off /\ materialised < MaxMaterialised
    /\ Complete(dir["source"].manifest)
    /\ materialised' = materialised + 1
    /\ materialiser' = [pc |-> IF d = "source" THEN "runtime" ELSE "copy", to |-> d, next |-> 1,
                        manifest |-> dir["source"].manifest, run |-> materialised + 1]
    /\ Starts
    /\ UNCHANGED <<dir, linked, report, converter, packager, evaluating, conversions, builds,
                   published, worker, built, mixed>>

MaterialiserStays == UNCHANGED <<report, converter, packager, evaluating, conversions, materialised,
                                 builds, published, worker, built, overlapped>>
NextShard == materialiser' = [materialiser EXCEPT !.next = @ + 1,
                                                  !.pc = IF materialiser.next = Layers THEN "runtime" ELSE "copy"]
SameSize(a, b) == (a = Torn) = (b = Torn)

\* A shard that is there already is kept if its size is right.
CopiesShard(link) ==
    LET l == materialiser.next
        from == dir["source"].expert[l]
        to == dir["output"].expert[l] IN
    /\ materialiser.pc = "copy"
    /\ IF to # Absent
       THEN /\ IF SameSize(from, to) THEN NextShard ELSE materialiser' = Off
            /\ mixed' = (mixed \/ from # to)
            /\ UNCHANGED <<dir, linked>>
       ELSE /\ dir' = [dir EXCEPT !["output"].expert[l] = from]
            /\ linked' = IF link THEN linked \cup {l} ELSE linked
            /\ NextShard /\ UNCHANGED mixed
    /\ MaterialiserStays

\* The files were written to a staging directory and are moved in the order of their names.
MovesRuntimeFiles ==
    /\ materialiser.pc = "runtime"
    /\ dir' = [dir EXCEPT ![materialiser.to].runtime = materialiser.run]
    /\ materialiser' = [materialiser EXCEPT !.pc = "weights"]
    /\ MaterialiserStays /\ UNCHANGED <<linked, mixed>>

MovesWeights ==
    /\ materialiser.pc = "weights"
    /\ dir' = [dir EXCEPT ![materialiser.to].weights = materialiser.run]
    /\ materialiser' = [materialiser EXCEPT !.pc = "manifest"]
    /\ MaterialiserStays /\ UNCHANGED <<linked, mixed>>

EndsMaterialising ==
    /\ materialiser.pc = "manifest"
    /\ dir' = [dir EXCEPT ![materialiser.to].manifest =
                  [materialiser.manifest EXCEPT !.version = 2, !.weights = materialiser.run,
                                                !.runtime = materialiser.run]]
    /\ materialiser' = Off
    /\ MaterialiserStays /\ UNCHANGED <<linked, mixed>>

\* While it copies, it leaves a part of a shard.
MaterialiserDies ==
    /\ materialiser # Off /\ materialiser' = Off
    /\ \/ UNCHANGED dir
       \/ /\ materialiser.pc = "copy" /\ dir["output"].expert[materialiser.next] = Absent
          /\ dir' = [dir EXCEPT !["output"].expert[materialiser.next] = Torn]
    /\ MaterialiserStays /\ UNCHANGED <<linked, mixed>>

---------------------------------------------------------------------------
(* evaluate_diffusiongemma_q4.py *)

\* load_diffusiongemma_q4: all files are there; their digests are not looked at.
Loads(files) ==
    /\ Complete(files.manifest)
    /\ \A l \in Shards : files.expert[l] \notin {Absent, Torn}
    /\ files.manifest.version = 2 => files.weights # Absent /\ files.runtime # Absent

BeginsEvaluation ==
    /\ ~evaluating /\ \E d \in Dirs : Loads(dir[d])
    /\ evaluating' = TRUE
    /\ UNCHANGED <<dir, linked, report, converter, materialiser, packager, conversions, materialised,
                   builds, published, worker, built, mixed, overlapped>>

\* Both suites ended, or the script stopped, while it wrote the report or before.
EndsEvaluation ==
    /\ evaluating /\ evaluating' = FALSE
    /\ report' \in Results \cup {"torn", report}
    /\ UNCHANGED <<dir, linked, converter, materialiser, packager, conversions, materialised, builds,
                   published, worker, built, mixed, overlapped>>

---------------------------------------------------------------------------
(* package_diffusiongemma_q4_release.py *)

\* validate_checkpoint: expert shards by size, the other files by digest.
Valid(files) ==
    /\ Complete(files.manifest)
    /\ \A l \in Shards : files.expert[l] \notin {Absent, Torn}
    /\ files.manifest.version = 2 =>
        files.weights = files.manifest.weights /\ files.runtime = files.manifest.runtime

\* validate_evaluation: a report that passed and missed no constraint.
Accepted(r) == r = "passed"

PackagerStays == UNCHANGED <<linked, report, converter, materialiser, evaluating, conversions,
                             materialised, published, worker, mixed>>

\* The files whose digests the release lists.
Inventory(files) == [expert |-> files.expert, weights |-> files.weights, runtime |-> files.runtime,
                     manifest |-> files.manifest, report |-> files.report]

BeginsPackaging(d) ==
    /\ packager = Off /\ builds < MaxBuilds
    /\ Valid(dir[d]) /\ Accepted(report)
    /\ builds' = builds + 1
    /\ dir' = [dir EXCEPT ![d].report = report]
    /\ packager' = [pc |-> "hash", of |-> d]
    /\ Starts
    /\ PackagerStays /\ UNCHANGED built

HashesFiles ==
    /\ packager.pc = "hash"
    /\ packager' = [pc |-> "release", of |-> packager.of, inventory |-> Inventory(dir[packager.of])]
    /\ PackagerStays /\ UNCHANGED <<dir, builds, built, overlapped>>

WritesRelease ==
    /\ packager.pc = "release"
    /\ dir' = [dir EXCEPT ![packager.of].release = [inventory |-> packager.inventory, build |-> builds]]
    /\ packager' = [packager EXCEPT !.pc = "sums"]
    /\ PackagerStays /\ UNCHANGED <<builds, built, overlapped>>

\* SHA256SUMS covers the files and the release manifest.
WritesSums ==
    /\ packager.pc = "sums"
    /\ dir' = [dir EXCEPT ![packager.of].sums = dir[packager.of].release]
    /\ built' = built \cup {packager.inventory}
    /\ packager' = Off
    /\ PackagerStays /\ UNCHANGED <<builds, overlapped>>

PackagerDies ==
    /\ packager # Off /\ packager' = Off
    /\ PackagerStays /\ UNCHANGED <<dir, builds, built, overlapped>>

\* A bug: SHA256SUMS is not compared with the release manifest.
Verifies_NoSums(files) ==
    /\ files.release # None
    /\ files.release.inventory = Inventory(files)
    /\ Valid(files) /\ Accepted(files.report)

\* verify_release
Verifies(files) ==
    /\ files.release # None
    /\ files.release.inventory = Inventory(files)
    /\ files.sums = files.release
    /\ Valid(files) /\ Accepted(files.report)

---------------------------------------------------------------------------
(* The release on the hub and in the cache *)

Publishes ==
    /\ published = None /\ published' = dir["source"] /\ dir["source"].sums # None
    /\ UNCHANGED <<dir, linked, report, converter, materialiser, packager, evaluating, conversions,
                   materialised, builds, worker, built, mixed, overlapped>>

\* inspect_modeldeck_q4_release: a self-contained version and all files.
Inspects(files) ==
    /\ files.release # None /\ files.sums # None /\ files.report # None
    /\ Complete(files.manifest) /\ files.manifest.version = 2
    /\ \A l \in Shards : files.expert[l] \notin {Absent, Torn}
    /\ files.weights # Absent /\ files.runtime # Absent

\* create_worker: verify_modeldeck_q4_release on a snapshot that may lack a file.
CreatesWorker(snapshot) ==
    /\ worker = None
    /\ Inspects(snapshot)
    /\ snapshot.release.inventory = Inventory(snapshot)
    /\ snapshot.sums = snapshot.release
    /\ worker' = snapshot
    /\ UNCHANGED <<dir, linked, report, converter, materialiser, packager, evaluating, conversions,
                   materialised, builds, published, built, mixed, overlapped>>

Snapshots(files) ==
    {files, [files EXCEPT !.weights = Absent], [files EXCEPT !.runtime = Absent], [files EXCEPT !.sums = None]}
        \cup {[files EXCEPT !.expert[l] = Absent] : l \in Shards}

Q4Next ==
    \/ BeginsConversion \/ OpensShard \/ FillsShard \/ RecordsLayer \/ EndsConversion \/ ConverterDies
    \/ \E d \in Dirs : BeginsMaterialising(d) \/ BeginsPackaging(d)
    \/ \E link \in BOOLEAN : CopiesShard(link)
    \/ MovesRuntimeFiles \/ MovesWeights \/ EndsMaterialising \/ MaterialiserDies
    \/ BeginsEvaluation \/ EndsEvaluation
    \/ HashesFiles \/ WritesRelease \/ WritesSums \/ PackagerDies
    \/ Publishes
    \/ published # None /\ \E snapshot \in Snapshots(published) : CreatesWorker(snapshot)

Q4Spec == Q4Init /\ [][Q4Next]_q4Vars

---------------------------------------------------------------------------
(* Properties *)

OneConversion(files) == \A l \in Shards : files.expert[l] = files.expert[1]

\* What verify_release accepts is what a build that ended had listed, whatever tool died
\* since or ran beside it.
VerifiedWasBuilt == \A d \in Dirs : Verifies(dir[d]) => Inventory(dir[d]) \in built

\* A checkpoint that the packager accepts has the shards of one conversion, unless a shard of an
\* earlier one was kept for its size or was rewritten through its link (the output directory), or
\* two tools were at work at once.
AcceptedIsOneConversion ==
    ~overlapped =>
        /\ Valid(dir["source"]) => OneConversion(dir["source"])
        /\ Valid(dir["output"]) /\ ~mixed => OneConversion(dir["output"])

\* A Worker's snapshot is a whole release whose build ended, however the download went.
WorkerHasARelease == worker # None => Inventory(worker) \in built
=============================================================================
