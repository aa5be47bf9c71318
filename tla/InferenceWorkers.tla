-------------------------- MODULE InferenceWorkers --------------------------
(***************************************************************************)
(* One Worker of each inference runtime.  A Worker is a process of its     *)
(* own: the one of the chosen runtime takes steps, the others are as they  *)
(* were started.  What the gateway may rely on whatever the runtime is     *)
(* stated here for all of them.                                            *)
(***************************************************************************)
EXTENDS SlotWorkers, Sequences

CONSTANTS
    Jobs, Subscribers, Follows, TotalSteps, MaxDrafts,    \* DiffusionJobs
    LlamaRequests, LlamaStreams, CancelCalls, MaxChildren,  \* LlamaWorker
    Streams, Ids, IdOf, Prefixes, PrefixOf                \* AutoregressiveWorker

\* A follower has a job; a request denoises in one step or more (_canonical_settings).
ASSUME JobsAssumption ==
    /\ Follows \in [Subscribers -> Jobs]
    /\ TotalSteps \in Nat \ {0}
    /\ MaxDrafts \in [Jobs -> Nat]

\* 0 is no call: it says that nobody holds the lock.
ASSUME LlamaAssumption ==
    /\ 0 \notin LlamaRequests \cup CancelCalls
    /\ MaxChildren \in Nat

ASSUME RequestsAssumption ==
    /\ IdOf \in [Requests -> Ids]
    /\ PrefixOf \in [Requests -> Prefixes \cup {None}]
    /\ None \notin Prefixes

VARIABLES
    runtime,
    state, frames, lock, stop, drafts, thread, posted, reader, seenState, batch, seen,
    life, child, process, restartLock, call, server,
    modelState, modelStart, cancellations, event, coroutine, modelThread, entry, branch, shared

J == INSTANCE DiffusionJobs

L == INSTANCE LlamaWorker WITH
    Requests <- LlamaRequests,
    Streams <- LlamaStreams,
    lock <- restartLock,
    pc <- call

\* The ids are the clients': the gateway passes a request_id on, and lets it be used
\* again when it has given the request up, although the Worker may still run it.
A == INSTANCE AutoregressiveWorker WITH
    workerState <- modelState,
    start <- modelStart,
    pc <- coroutine,
    thread <- modelThread

jobs == <<state, frames, lock, stop, drafts, thread, posted, reader, seenState, batch, seen>>
llama == <<life, child, process, restartLock, call, server>>
model == <<modelState, modelStart, cancellations, event, coroutine, modelThread, entry, branch, shared>>
vars == <<runtime, slotVars, jobs, llama, model>>

WorkersInit ==
    /\ runtime \in {"slot", "diffusion", "llama", "autoregressive"}
    /\ SlotInit /\ (runtime # "slot" => worker = "scenes")
    /\ J!JobsInit
    /\ L!LlamaInit
    /\ A!Init

WorkersNext ==
    \/ runtime = "slot" /\ SlotNext /\ UNCHANGED <<runtime, jobs, llama, model>>
    \/ runtime = "diffusion" /\ J!JobsNext /\ UNCHANGED <<runtime, slotVars, llama, model>>
    \/ runtime = "llama" /\ L!LlamaNext /\ UNCHANGED <<runtime, slotVars, jobs, model>>
    \/ runtime = "autoregressive" /\ A!Next /\ UNCHANGED <<runtime, slotVars, jobs, llama>>

WorkersSafety == WorkersInit /\ [][WorkersNext]_vars

WorkersSpec == WorkersSafety /\ SlotFairness /\ J!JobsFairness /\ L!LlamaFairness /\ A!Fairness

---------------------------------------------------------------------------
(* Properties *)

\* Types of the four modules.
WorkerTypesOK == SlotTypeOK /\ J!JobsTypeOK /\ L!LlamaTypeOK /\ A!TypeOK

\* Two threads are in a Transformers model only after a client closed its stream, and a
\* warm-up meets none (_trace_response, iterate_in_isolated_thread); there is one llama.cpp
\* server at a time, and none when its Worker has ended.
OneAtATime == A!OverlapOnlyAfterLeaving /\ L!OneServer /\ L!NothingLeftBehind

\* A cancellation by id reaches the request in flight that has it, unless it was in flight
\* together with another of the same id (cancel, _trace_response).
CancellationReaches == A!CancellationReaches

\* A request continues from the cache of its own prefix (_initial_forward); what a subscriber of
\* a diffusion job is sent is what the job's result contains.
AnswersAreTheirOwn == A!BranchesMatch /\ J!SubscribersSeeTheResult

\* The slot, the diffusion and the Transformers Workers answer as WorkerProtocol promises.
WorkersKeepProtocol == SlotKeepsProtocol /\ J!JobsKeepProtocol /\ A!KeepsProtocol

\* Again and again nobody waits: the slot is free, every subscriber was sent the end, every
\* restart ended, every accepted request was answered.
WorkersRecover ==
    []<>(SlotIsFree /\ J!SubscribersServed /\ L!RestartsEnded /\ A!RequestsAnswered)
=============================================================================
