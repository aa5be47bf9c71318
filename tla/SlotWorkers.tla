---------------------------- MODULE SlotWorkers ----------------------------
(***************************************************************************)
(* The Workers that have one slot for requests.  Synthesis                 *)
(* (workers/tts_worker.py), translation (workers/translation_worker.py)    *)
(* and scene analysis (workers/scenechat_worker.py, for SceneChat and for  *)
(* the general chat Workers built on it) compute in a thread of the Worker *)
(* and refuse a second request; recognition                                *)
(* (workers/speech_recognition_worker.py) does it in a process it starts   *)
(* for each request; embedding (workers/embedding_worker.py) lets a second *)
(* request wait.  They differ in who can interrupt the work, in what       *)
(* happens when it does not stop, and in the state they then show.  The    *)
(* smoke tests of the speech and the translation Worker compute beside the *)
(* slot; those of the others claim it, or are ordinary requests.           *)
(*                                                                         *)
(* slot_guard and _process_lock are only held without awaiting, so a claim *)
(* and a release are one step.                                             *)
(***************************************************************************)
EXTENDS Naturals, FiniteSets

CONSTANTS
    Requests,   \* requests, and the smoke tests that claim the slot as a request does
    Smokes,     \* smoke tests that do not: those of a speech and of a translation Worker
    None

ASSUME SlotAssumption == None \notin Requests

VARIABLES
    worker,     \* which of the five Workers this is
    workerState,
    start,      \* how far the start is
    ready,      \* app.state.ready
    active,     \* active_request_id: the request in the slot
    cancelled,  \* the requests with a cancellation event set, or in cancelled_requests
    asked,      \* the requests /cancel named, whose limits were reached or that met a shutdown
    pc,         \* where each request is, or its answer
    work,       \* where its computation is, or its result
    smokes      \* the smoke tests that compute

slotVars == <<worker, workerState, start, ready, active, cancelled, asked, pc, work, smokes>>

Kinds == {"synthesis", "translation", "recognition", "scenes", "embedding"}

\* Those that give a thread up that does not stop within the grace period.
GivesUp == {"synthesis", "translation"}

\* Those whose smoke test computes in a thread of its own, without the slot.
SmokesAside == {"synthesis", "translation"}

Working == {r \in Requests : work[r] \in {"spawning", "running"}}

SlotTypeOK ==
    /\ worker \in Kinds
    /\ workerState \in {"LOADING", "WARMING", "READY", "BUSY", "STOPPING", "FAILED"}
    /\ start \in {"loading", "loaded", "warming", "done", "failed"}
    /\ ready \in BOOLEAN
    /\ active \in Requests \cup {None}
    /\ cancelled \subseteq Requests /\ asked \subseteq Requests
    /\ pc \in [Requests -> {"new", "running", "stopping", "expired", "complete", "cancelled", "failed", "refused"}]
    /\ work \in [Requests -> {"none", "spawning", "running", "complete", "cancelled", "failed"}]
    /\ smokes \subseteq Smokes

SlotInit ==
    /\ worker \in Kinds
    /\ workerState = "LOADING" /\ start = "loading" /\ ready = FALSE
    /\ active = None
    /\ cancelled = {} /\ asked = {}
    /\ pc = [r \in Requests |-> "new"]
    /\ work = [r \in Requests |-> "none"]
    /\ smokes = {}

requestVars == <<active, cancelled, asked, pc, work, smokes>>

---------------------------------------------------------------------------
(* Start-up *)

LoadEnds ==
    /\ start = "loading"
    /\ \/ start' = "loaded" /\ workerState' = "WARMING"
       \/ start' = "failed" /\ workerState' = "FAILED"
    /\ UNCHANGED <<worker, ready, requestVars>>

WarmsUp ==
    /\ start = "loaded"
    /\ start' = "warming" /\ workerState' = "WARMING"
    /\ UNCHANGED <<worker, ready, requestVars>>

\* A warm-up of a speech Worker that fails leaves the state as it is.
WarmUpDone ==
    /\ start = "warming"
    /\ \/ start' = "done" /\ ready' = TRUE /\ workerState' = "READY"
       \/ /\ start' = "failed"
          /\ workerState' = IF worker \in {"scenes", "embedding"} THEN "FAILED" ELSE workerState
          /\ UNCHANGED ready
    /\ UNCHANGED <<worker, requestVars>>

---------------------------------------------------------------------------
(* The slot *)

\* Not ready, a full slot, a request outside the contract, or a host too hot to
\* start work on.
Refused(r) ==
    /\ pc[r] = "new"
    /\ pc' = [pc EXCEPT ![r] = "refused"]
    /\ UNCHANGED <<worker, smokes, workerState, start, ready, active, cancelled, asked, work>>

\* A bug: the slot is not looked at.
Claims_AnySlot(r) ==
    /\ pc[r] = "new" /\ ready
    /\ active' = r
    /\ workerState' = "BUSY"
    /\ pc' = [pc EXCEPT ![r] = "running"]
    /\ work' = [work EXCEPT ![r] = IF worker = "recognition" THEN "spawning" ELSE "running"]
    /\ UNCHANGED <<worker, smokes, start, ready, cancelled, asked>>

\* _ensure_ready and _claim_slot, or embedding_lock; the computation starts.
Claims(r) ==
    /\ pc[r] = "new" /\ ready /\ active = None
    /\ active' = r
    /\ workerState' = "BUSY"
    /\ pc' = [pc EXCEPT ![r] = "running"]
    /\ work' = [work EXCEPT ![r] = IF worker = "recognition" THEN "spawning" ELSE "running"]
    /\ UNCHANGED <<worker, smokes, start, ready, cancelled, asked>>

\* _release_slot of the synthesis and scene Workers looks at ready, the others' do not.
ReleasedState ==
    IF ready' \/ worker \notin {"synthesis", "scenes"} THEN "READY"
    ELSE IF worker = "synthesis" THEN "FAILED" ELSE workerState

Answers(r, answer) ==
    /\ pc' = [pc EXCEPT ![r] = answer]
    /\ active' = None
    /\ workerState' = ReleasedState
    /\ UNCHANGED <<worker, smokes, start, asked, work>>
    /\ cancelled' = IF worker = "recognition" THEN cancelled \ {r} ELSE cancelled

---------------------------------------------------------------------------
(* The computation *)

\* The process of a recognition has been created: it can be terminated from here on.
Spawned(r) ==
    /\ work[r] = "spawning"
    /\ work' = [work EXCEPT ![r] = "running"]
    /\ UNCHANGED <<worker, smokes, workerState, start, ready, active, cancelled, asked, pc>>

Ends(r, result) ==
    /\ work[r] = "running"
    /\ work' = [work EXCEPT ![r] = result]
    /\ UNCHANGED <<worker, smokes, workerState, start, ready, active, cancelled, asked, pc>>

\* A generation stops at the next token when its event is set, and says so if the event
\* is set when it returns.
Generated(r) == IF r \in cancelled THEN "cancelled" ELSE "complete"

SynthesisEnds(r) == worker = "synthesis" /\ \E e \in {Generated(r), "failed"} : Ends(r, e)
TranslationEnds(r) == worker = "translation" /\ \E e \in {Generated(r), "failed"} : Ends(r, e)
SceneEnds(r) == worker = "scenes" /\ \E e \in {Generated(r), "failed"} : Ends(r, e)
EmbeddingEnds(r) == worker = "embedding" /\ \E e \in {"complete", "failed"} : Ends(r, e)
ChildExits(r) == worker = "recognition" /\ \E e \in {"complete", "failed"} : Ends(r, e)

WorkEnds(r) ==
    SynthesisEnds(r) \/ TranslationEnds(r) \/ SceneEnds(r) \/ EmbeddingEnds(r) \/ ChildExits(r)

\* runner.cancel(): nothing is terminated while the process is being created.
Terminates_Spawning(r) ==
    work' = [work EXCEPT ![r] = IF @ \in {"spawning", "running"} THEN "failed" ELSE @]

Terminates(r) ==
    work' = [work EXCEPT ![r] = IF worker = "recognition" /\ @ = "running" THEN "failed" ELSE @]

---------------------------------------------------------------------------
(* The coroutine of a request: _run_synthesis, _run_translation, _run_recognition *)

\* The computation has ended first.  A recognition that /cancel named is answered as
\* cancelled whatever it returned; a scene the model described in a form that breaks the
\* contract is an error.
Returns(r) ==
    /\ pc[r] = "running" /\ work[r] \in {"complete", "cancelled", "failed"}
    /\ UNCHANGED ready
    /\ \/ Answers(r, IF worker = "recognition" /\ r \in cancelled THEN "cancelled" ELSE work[r])
       \/ worker = "scenes" /\ work[r] = "complete" /\ Answers(r, "failed")

\* The request is given up, and its computation told to stop.
Expired(r) ==
    /\ pc[r] = "running"
    /\ pc' = [pc EXCEPT ![r] = "expired"]
    /\ asked' = asked \cup {r}
    /\ cancelled' = IF worker = "recognition" THEN cancelled ELSE cancelled \cup {r}
    /\ Terminates(r)
    /\ UNCHANGED <<worker, smokes, workerState, start, ready, active>>

\* The deadline has passed or the sensors say stop.  The two audio Workers look at the
\* sensors once more when the computation has just ended.
SynthesisExpires(r) == worker = "synthesis" /\ Expired(r)
RecognitionExpires(r) == worker = "recognition" /\ Expired(r)

\* The deadline has passed.
TranslationExpires(r) == worker = "translation" /\ work[r] = "running" /\ Expired(r)

\* The deadline has passed or the client is gone.
SceneExpires(r) == worker = "scenes" /\ work[r] = "running" /\ Expired(r)

Expires(r) ==
    SynthesisExpires(r) \/ RecognitionExpires(r) \/ TranslationExpires(r) \/ SceneExpires(r)

\* The synthesis loop sees that its event is set.
Notices(r) ==
    /\ pc[r] = "running" /\ r \in cancelled /\ worker = "synthesis"
    /\ pc' = [pc EXCEPT ![r] = "stopping"]
    /\ UNCHANGED <<worker, smokes, workerState, start, ready, active, cancelled, asked, work>>

\* The computation has stopped; a recognition and a scene are waited for without a limit.
Stops(r) ==
    /\ pc[r] \in {"stopping", "expired"} /\ work[r] \in {"complete", "cancelled", "failed"}
    /\ UNCHANGED ready
    /\ Answers(r, IF pc[r] = "expired" THEN "failed" ELSE work[r])

\* A bug: the Worker stays ready.
GraceExpires_StaysReady(r) ==
    /\ pc[r] \in {"stopping", "expired"} /\ work[r] = "running"
    /\ worker \in GivesUp
    /\ UNCHANGED ready
    /\ Answers(r, "failed")

\* A bug: a thread is waited for without a limit.
GraceExpires_Never(r) == FALSE /\ UNCHANGED slotVars

\* CANCELLATION_GRACE_SECONDS later a thread still runs: the Worker takes no more work.
GraceExpires(r) ==
    /\ pc[r] \in {"stopping", "expired"} /\ work[r] = "running"
    /\ worker \in GivesUp
    /\ ready' = FALSE
    /\ Answers(r, "failed")

---------------------------------------------------------------------------
(* Callers *)

\* A bug: the request in the slot is cancelled whichever is named.
Cancels_Active(r) ==
    /\ active # None
    /\ cancelled' = cancelled \cup {active}
    /\ asked' = asked \cup {r}
    /\ Terminates(active)
    /\ UNCHANGED <<worker, smokes, workerState, start, ready, active, pc>>

\* /cancel; the embedding Worker has none.
Cancels(r) ==
    /\ active = r /\ worker # "embedding"
    /\ cancelled' = cancelled \cup {r}
    /\ asked' = asked \cup {r}
    /\ Terminates(r)
    /\ UNCHANGED <<worker, smokes, workerState, start, ready, active, pc>>

\* A bug: a shutdown takes it for granted that a request is in the slot.
ShutsDown_Busy ==
    /\ workerState' = "STOPPING"
    /\ asked' = asked \cup {active}
    /\ UNCHANGED <<worker, smokes, start, ready, active, cancelled, pc, work>>

\* /shutdown; the process ends when the request in the slot has been answered.
ShutsDown ==
    /\ workerState' = "STOPPING"
    /\ IF active = None \/ worker = "embedding"
       THEN UNCHANGED <<cancelled, asked, work>>
       ELSE /\ asked' = asked \cup {active}
            /\ cancelled' = IF worker = "recognition" THEN cancelled ELSE cancelled \cup {active}
            /\ Terminates(active)
    /\ UNCHANGED <<worker, smokes, start, ready, active, pc>>

---------------------------------------------------------------------------
(* Smoke tests of a speech or translation Worker *)

\* /native/.../smoke looks whether the Worker is ready, not whether its slot is free.
SmokeBegins(k) ==
    /\ worker \in SmokesAside /\ ready /\ k \notin smokes
    /\ smokes' = smokes \cup {k}
    /\ UNCHANGED <<worker, workerState, start, ready, active, cancelled, asked, pc, work>>

\* Its event is nobody's, so nothing stops it: it ends or hangs.
SmokeEnds(k) ==
    /\ k \in smokes
    /\ smokes' = smokes \ {k}
    /\ UNCHANGED <<worker, workerState, start, ready, active, cancelled, asked, pc, work>>

---------------------------------------------------------------------------
SlotCoroutine(r) ==
    Returns(r) \/ Expires(r) \/ Notices(r) \/ Stops(r) \/ GraceExpires(r)

SlotNext ==
    \/ LoadEnds \/ WarmsUp \/ WarmUpDone \/ ShutsDown
    \/ \E r \in Requests :
          Refused(r) \/ Claims(r) \/ Spawned(r) \/ WorkEnds(r) \/ SlotCoroutine(r) \/ Cancels(r)
    \/ \E k \in Smokes : SmokeBegins(k) \/ SmokeEnds(k)

SlotSpec == SlotInit /\ [][SlotNext]_slotVars

\* Deadlines and grace periods pass.  A thread of the Workers that give up may hang;
\* what the others compute is assumed to end by itself if nothing stops it.
SlotFairness ==
    /\ WF_slotVars(\E r \in Requests : SlotCoroutine(r))
    /\ WF_slotVars(\E r \in Requests : Spawned(r) \/ (worker \notin GivesUp /\ WorkEnds(r)))

SlotFairSpec == SlotSpec /\ SlotFairness

---------------------------------------------------------------------------
(* Properties *)

\* The computations whose request was answered without them.
Outlived == {r \in Working : pc[r] \notin {"running", "stopping", "expired"}}

\* Two requests never compute at once, and beside a thread that has outlived its request
\* nothing starts to compute, no request although the slot is free again and no smoke
\* test: the Worker is out of service (_claim_slot, _await_cancelled_task).  A smoke test
\* of a speech or a translation Worker may compute beside a request that is under way.
OneRequestComputes ==
    /\ [](Cardinality(Working) <= 1)
    /\ [][Outlived # {} => Working' \subseteq Working /\ smokes' \subseteq smokes]_slotVars

\* The slot has come back, in the Workers that give up also when a thread hangs for ever.
SlotIsFree == active = None

SlotProtocol == INSTANCE WorkerProtocol WITH
    phase <- [r \in Requests |->
                IF pc[r] \in {"running", "stopping", "expired"} THEN "active" ELSE pc[r]]

\* These Workers keep the protocol: a request is answered as cancelled only if it
\* was named, reached its limits or met a shutdown.
SlotKeepsProtocol == SlotProtocol!Spec
============================================================================
