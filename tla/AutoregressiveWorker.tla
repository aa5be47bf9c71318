------------------------ MODULE AutoregressiveWorker ------------------------
(***************************************************************************)
(* A Transformers Worker process (workers/autoregressive_worker.py): its   *)
(* generation lock, the table of requests that can be cancelled, the       *)
(* threads that run the model and the one-entry prefix cache they share.   *)
(*                                                                         *)
(* One event loop accepts requests; each accepted request runs the engine  *)
(* in a thread of its own (async_execution.py).  A loop action is the code *)
(* of one coroutine between two awaits, a thread action the code between   *)
(* two forward passes of the model.                                        *)
(***************************************************************************)

CONSTANTS
    Requests,     \* generation requests, each made once
    Streams,      \* those that ask for a stream
    Ids,          \* request ids
    IdOf,         \* the id of each request: two may have one, also at a time
    Prefixes,     \* stable prompt prefixes
    PrefixOf,     \* the prefix each request hints at, or None
    None

VARIABLES
    workerState,    \* app.state.worker_state
    start,          \* how far the start is: ready is set at the end of it
    cancellations,  \* the request whose event each id names, or None
    event,          \* the requests whose cancellation event is set
    pc,             \* where the request's coroutine is, or how it ended
    thread,         \* where the request's thread is, or how it ended
    entry,          \* the identity of the cached prefix, or None
    branch,         \* the identity of the entry each thread cloned its branch from
    shared          \* the requests that were in flight together with another of their id

loopVars == <<workerState, start, cancellations, event, pc>>
cacheVars == <<entry, branch>>
vars == <<loopVars, thread, cacheVars, shared>>

Waiting == {r \in Requests : pc[r] \in {"accepted", "waiting"}}
Running == {r \in Requests : pc[r] = "running"}
InFlight == Waiting \cup Running

\* The threads that use the model, waiting for a forward pass or between two.
Steps == {"begin", "prefill", "branch", "suffix", "full", "tokens", "decode"}
InEngine == {r \in Requests : thread[r] \in Steps}

TypeOK ==
    /\ workerState \in {"LOADING", "WARMING", "READY", "BUSY", "STOPPING", "FAILED"}
    /\ start \in {"loading", "loaded", "warming", "ready", "failed"}
    /\ cancellations \in [Ids -> Requests \cup {None}]
    /\ event \subseteq Requests
    /\ pc \in [Requests -> {"new", "accepted", "waiting", "running",
                            "complete", "cancelled", "failed", "refused", "left"}]
    /\ thread \in [Requests -> Steps \cup {"none", "complete", "cancelled", "failed"}]
    /\ entry \in Prefixes \cup {None}
    /\ branch \in [Requests -> Prefixes \cup {None}]
    /\ shared \subseteq Requests

\* lifespan
Init ==
    /\ workerState = "LOADING" /\ start = "loading"
    /\ cancellations = [i \in Ids |-> None]
    /\ event = {}
    /\ pc = [r \in Requests |-> "new"]
    /\ thread = [r \in Requests |-> "none"]
    /\ entry = None
    /\ branch = [r \in Requests |-> None]
    /\ shared = {}

---------------------------------------------------------------------------
(* Start-up, shutdown and the cache route *)

\* _load_engine
Loads ==
    /\ start = "loading"
    /\ \/ start' = "loaded" /\ workerState' = "WARMING"
       \/ start' = "failed" /\ workerState' = "FAILED"
    /\ UNCHANGED <<cancellations, event, pc, thread, cacheVars, shared>>

\* /warmup, called once by the supervisor: its thread does not take the lock.
WarmUpBegins ==
    /\ start = "loaded"
    /\ start' = "warming" /\ workerState' = "WARMING"
    /\ UNCHANGED <<cancellations, event, pc, thread, cacheVars, shared>>

WarmUpEnds ==
    /\ start = "warming"
    /\ \/ start' = "ready" /\ workerState' = "READY"
       \/ start' = "failed" /\ workerState' = "FAILED"
    /\ UNCHANGED <<cancellations, event, pc, thread, cacheVars, shared>>

\* /shutdown: every request that can be cancelled is, and the cache is dropped.
Shutdown ==
    /\ workerState' = "STOPPING"
    /\ event' = event \cup {cancellations[i] : i \in {j \in Ids : cancellations[j] # None}}
    /\ entry' = None
    /\ UNCHANGED <<start, cancellations, pc, thread, branch, shared>>

\* /prefix-cache/clear is refused while the lock is held.
ClearCache ==
    /\ Running = {}
    /\ entry' = None
    /\ UNCHANGED <<loopVars, thread, branch, shared>>

---------------------------------------------------------------------------
(* The coroutine of a request: _trace_response and _stream_trace *)

Goto(r, label) == pc' = [pc EXCEPT ![r] = label]
\* The entry of the id is removed, whichever request it names by now.
Forget(r) == cancellations' = [cancellations EXCEPT ![IdOf[r]] = None]

\* Not ready, malformed, or more tokens than the context holds.
Refuse(r) ==
    /\ pc[r] = "new"
    /\ Goto(r, "refused")
    /\ UNCHANGED <<workerState, start, cancellations, event, thread, cacheVars, shared>>

\* r is accepted while others of its id are in flight, or alone.
Namesakes(r) == {q \in InFlight : IdOf[q] = IdOf[r]}
Shares(r) == shared' = IF Namesakes(r) = {} THEN shared ELSE shared \cup Namesakes(r) \cup {r}

\* A bug: an entry the id still has is kept.
Accept_KeepsEntry(r) ==
    /\ pc[r] = "new" /\ start = "ready"
    /\ cancellations' = [cancellations EXCEPT ![IdOf[r]] = IF @ = None THEN r ELSE @]
    /\ Goto(r, IF r \in Streams THEN "accepted" ELSE "waiting")
    /\ Shares(r)
    /\ UNCHANGED <<workerState, start, event, thread, cacheVars>>

\* The event is registered before the lock is asked for, in place of any other the id
\* names.  The body of a stream is first iterated when its headers are sent.
Accept(r) ==
    /\ pc[r] = "new" /\ start = "ready"
    /\ cancellations' = [cancellations EXCEPT ![IdOf[r]] = r]
    /\ Goto(r, IF r \in Streams THEN "accepted" ELSE "waiting")
    /\ Shares(r)
    /\ UNCHANGED <<workerState, start, event, thread, cacheVars>>

Iterates(r) ==
    /\ pc[r] = "accepted"
    /\ Goto(r, "waiting")
    /\ UNCHANGED <<workerState, start, cancellations, event, thread, cacheVars, shared>>

\* A bug: the thread is started without the lock.
Begin_NoLock(r) ==
    /\ pc[r] = "waiting"
    /\ Goto(r, "running")
    /\ workerState' = "BUSY"
    /\ thread' = [thread EXCEPT ![r] = "begin"]
    /\ UNCHANGED <<start, cancellations, event, cacheVars, shared>>

\* The request gets generation_lock, in any order, and starts its thread.
Begin(r) ==
    /\ pc[r] = "waiting" /\ Running = {}
    /\ Goto(r, "running")
    /\ workerState' = "BUSY"
    /\ thread' = [thread EXCEPT ![r] = "begin"]
    /\ UNCHANGED <<start, cancellations, event, cacheVars, shared>>

\* The finally blocks write READY whatever the state was.
Finally(r) ==
    /\ Forget(r)
    /\ workerState' = "READY"

\* The thread has ended: the coroutine is given its last event or its exception.
ThreadEnded(r) == pc[r] = "running" /\ thread[r] \notin Steps

\* An answer with malformed or missing tool calls is an error.
FinishResponse(r) ==
    /\ r \notin Streams /\ ThreadEnded(r)
    /\ \E answer \in {thread[r]} \cup (IF thread[r] = "complete" THEN {"failed"} ELSE {}) : Goto(r, answer)
    /\ Finally(r)
    /\ UNCHANGED <<start, event, thread, cacheVars, shared>>

FinishStream(r) ==
    /\ r \in Streams /\ ThreadEnded(r)
    /\ Goto(r, thread[r])
    /\ Finally(r)
    /\ event' = event \cup {r}
    /\ UNCHANGED <<start, thread, cacheVars, shared>>

\* The client closes a stream before it runs: its finally block is never reached.
LeavesEarly(r) ==
    /\ r \in Streams /\ pc[r] \in {"accepted", "waiting"}
    /\ Goto(r, "left")
    /\ UNCHANGED <<workerState, start, cancellations, event, thread, cacheVars, shared>>

\* The client closes a stream that runs: its thread is told to stop, and the lock is
\* free before it has.
Leaves(r) ==
    /\ r \in Streams /\ pc[r] = "running"
    /\ Goto(r, "left")
    /\ Finally(r)
    /\ event' = event \cup {r}
    /\ UNCHANGED <<start, thread, cacheVars, shared>>

\* /cancel
Cancel(i) ==
    /\ cancellations[i] # None
    /\ event' = event \cup {cancellations[i]}
    /\ UNCHANGED <<workerState, start, cancellations, pc, thread, cacheVars, shared>>

---------------------------------------------------------------------------
(* The thread of a request: trace, _initial_forward, _model_forward *)

Moves(r, label) == thread' = [thread EXCEPT ![r] = label]

\* The thread sees its event before the next forward pass.
Stopped(r) ==
    /\ r \in event
    /\ Moves(r, "cancelled")
    /\ UNCHANGED cacheVars

\* A forward pass raises: when the accelerator is out of memory the cache is dropped.
Raises(r) ==
    /\ Moves(r, "failed")
    /\ entry' \in {entry, None}
    /\ UNCHANGED branch

\* A bug: any entry is a hit.
Hit_AnyIdentity(r) ==
    /\ PrefixOf[r] # None /\ entry # None
    /\ Moves(r, "branch")
    /\ branch' = [branch EXCEPT ![r] = entry]
    /\ UNCHANGED entry

\* The entry has the identity of the request's prefix.
Hit(r) ==
    /\ PrefixOf[r] # None /\ entry = PrefixOf[r]
    /\ Moves(r, "branch")
    /\ branch' = [branch EXCEPT ![r] = entry]
    /\ UNCHANGED entry

\* Another entry is evicted, and the prefix prefilled.
Miss(r) ==
    /\ PrefixOf[r] # None /\ entry # PrefixOf[r]
    /\ Moves(r, IF r \in event THEN "cancelled" ELSE "prefill")
    /\ entry' = None
    /\ UNCHANGED branch

Looks(r) ==
    /\ thread[r] = "begin"
    /\ \/ Stopped(r)
       \/ Hit(r)
       \/ Miss(r)
       \/ PrefixOf[r] = None /\ Moves(r, "full") /\ UNCHANGED cacheVars
    /\ UNCHANGED <<loopVars, shared>>

\* The pass over the prefix: its cache is stored, or is too large, or is unusable and
\* the cache cleared.
Prefills(r) ==
    /\ thread[r] = "prefill"
    /\ \/ /\ entry' = PrefixOf[r]
          /\ branch' = [branch EXCEPT ![r] = PrefixOf[r]]
          /\ Moves(r, "branch")
       \/ Moves(r, "full") /\ entry' \in {entry, None} /\ UNCHANGED branch
       \/ Raises(r)
    /\ UNCHANGED <<loopVars, shared>>

\* A bug: the branch is cloned from the entry the cache holds by now.
Clones_FromCache(r) ==
    /\ Moves(r, "suffix")
    /\ branch' = [branch EXCEPT ![r] = entry]
    /\ UNCHANGED entry

\* The branch is cloned from the entry the thread looked up or stored.
Clones(r) == Moves(r, "suffix") /\ UNCHANGED cacheVars

Branches(r) ==
    /\ thread[r] = "branch"
    /\ \/ Stopped(r)
       \/ Clones(r)
       \/ /\ Moves(r, "full")
          /\ entry' = None
          /\ branch' = [branch EXCEPT ![r] = None]
    /\ UNCHANGED <<loopVars, shared>>

\* The pass over the rest of the prompt, or over all of it.
Forwards(r) ==
    /\ thread[r] \in {"suffix", "full"}
    /\ \/ thread[r] = "suffix" /\ Stopped(r)
       \/ Moves(r, "tokens") /\ UNCHANGED cacheVars
       \/ Raises(r)
    /\ UNCHANGED <<loopVars, shared>>

\* The first token, and the passes for the others: the event is looked at before
\* each of them.
Tokens(r) ==
    /\ thread[r] = "tokens"
    /\ \/ Stopped(r)
       \/ r \notin event /\ Moves(r, "complete") /\ UNCHANGED cacheVars
       \/ r \notin event /\ Moves(r, "decode") /\ UNCHANGED cacheVars
    /\ UNCHANGED <<loopVars, shared>>

Decodes(r) ==
    /\ thread[r] = "decode"
    /\ \/ Stopped(r)
       \/ Moves(r, "complete") /\ UNCHANGED cacheVars
       \/ Raises(r)
    /\ UNCHANGED <<loopVars, shared>>

---------------------------------------------------------------------------
Coroutine(r) == Iterates(r) \/ Begin(r) \/ FinishResponse(r) \/ FinishStream(r)
Thread(r) == Looks(r) \/ Prefills(r) \/ Branches(r) \/ Forwards(r) \/ Tokens(r) \/ Decodes(r)

Next ==
    \/ Loads \/ WarmUpBegins \/ WarmUpEnds \/ Shutdown \/ ClearCache
    \/ \E r \in Requests :
          Refuse(r) \/ Accept(r) \/ LeavesEarly(r) \/ Leaves(r) \/ Coroutine(r) \/ Thread(r)
    \/ \E i \in Ids : Cancel(i)

Spec == Init /\ [][Next]_vars

\* The loop runs what can run and the model computes; clients read their streams.
Fairness == \A r \in Requests : WF_vars(Coroutine(r)) /\ WF_vars(Thread(r))

FairSpec == Spec /\ Fairness

---------------------------------------------------------------------------
(* Properties *)

\* Two threads are in the model only if the client of one of them closed its stream;
\* the warm-up, which takes no lock, never meets a request.
OverlapOnlyAfterLeaving ==
    /\ \A r, q \in InEngine : r = q \/ pc[r] = "left" \/ pc[q] = "left"
    /\ start = "warming" => InEngine = {}

\* A cancellation by id reaches the request in flight that has it, also when entries of
\* requests that were left in the queue stay behind and the id is used again.  Of requests
\* that were in flight together with one id the table keeps the last, and forgets it when
\* one of them ends: they may be missed.
CancellationReaches == \A r \in InFlight \ shared : cancellations[IdOf[r]] = r

\* A request continues from the cache of its own prefix, whatever other threads stored,
\* evicted or cleared since it looked.
BranchesMatch ==
    \A r \in Requests :
        thread[r] \in {"branch", "suffix"} => branch[r] = PrefixOf[r] /\ branch[r] # None

\* The requests the Worker is asked to stop, by their clients or a shutdown.
Protocol == INSTANCE WorkerProtocol WITH
    asked <- event,
    phase <- [r \in Requests |->
                CASE pc[r] \in {"accepted", "waiting"} -> "accepted"
                  [] pc[r] = "running" -> "active"
                  [] OTHER -> pc[r]]

\* The Worker keeps the protocol: answers are final, requests run one after the other,
\* and only a request that was told to stop is reported as cancelled.
KeepsProtocol == Protocol!Spec

\* Every accepted request has been answered, or its client has left.
RequestsAnswered == InFlight = {}
=============================================================================
