--------------------------- MODULE DiffusionJobs ---------------------------
(***************************************************************************)
(* The jobs of a diffusion Worker (workers/text_diffusion_worker.py): each *)
(* is computed by a thread that hands its drafts to the event loop as      *)
(* frames, and followed by subscribers that are sent the frames as they    *)
(* come.  All subscribers of a job share one asyncio event, which each of  *)
(* them clears; the frames of the finished job replace the drafts.         *)
(***************************************************************************)
EXTENDS Naturals, Sequences, FiniteSets

CONSTANTS
    Jobs,         \* jobs, each made once
    Subscribers,  \* followers, each of one job
    Follows,      \* the job of each follower
    TotalSteps,   \* denoising_steps of each request
    MaxDrafts     \* bound: the drafts the model makes of each job

VARIABLES
    state,      \* jobs[...]["state"], or "none"
    frames,     \* jobs[...]["frames"]: the step of each draft, 0 for the terminal frame
    lock,       \* the jobs that hold generation_lock
    stop,       \* the jobs whose cancellation event is set
    drafts,     \* the drafts the thread has made
    thread,     \* "none", "running" or how the thread ended
    posted,     \* frames handed to the loop with call_soon_threadsafe
    reader,     \* where each subscriber is
    seenState,  \* the state of the job when the subscriber last looked
    batch,      \* the frames it is sending
    seen        \* the frames it has sent

jobVars == <<state, frames, lock, stop, drafts, thread, posted>>
readerVars == <<reader, seenState, batch, seen>>
jobsVars == <<jobVars, readerVars>>

Ended == {"complete", "cancelled", "failed"}

\* _finalise_frames: the terminal frame takes the place of the last of all steps.
FinalFrames(d) ==
    IF d >= TotalSteps
    THEN Append([i \in 1 .. (TotalSteps - 1) |-> i], 0)
    ELSE Append([i \in 1 .. d |-> i], 0)

JobsTypeOK ==
    /\ state \in [Jobs -> {"none", "queued", "running"} \cup Ended]
    /\ \A j \in Jobs : frames[j] \in Seq(0 .. MaxDrafts[j])
    /\ lock \subseteq Jobs /\ stop \subseteq Jobs
    /\ \A j \in Jobs : drafts[j] \in 0 .. MaxDrafts[j]
    /\ thread \in [Jobs -> {"none", "running"} \cup Ended]
    /\ \A j \in Jobs : posted[j] \in Seq(1 .. MaxDrafts[j])
    /\ reader \in [Subscribers -> {"new", "looking", "sending", "waiting", "done"}]
    /\ seenState \in [Subscribers -> {"none", "queued", "running"} \cup Ended]
    /\ \A s \in Subscribers : {batch[s], seen[s]} \subseteq Seq(0 .. MaxDrafts[Follows[s]])

JobsInit ==
    /\ state = [j \in Jobs |-> "none"]
    /\ frames = [j \in Jobs |-> << >>]
    /\ lock = {} /\ stop = {}
    /\ drafts = [j \in Jobs |-> 0]
    /\ thread = [j \in Jobs |-> "none"]
    /\ posted = [j \in Jobs |-> << >>]
    /\ reader = [s \in Subscribers |-> "new"]
    /\ seenState = [s \in Subscribers |-> "none"]
    /\ batch = [s \in Subscribers |-> << >>]
    /\ seen = [s \in Subscribers |-> << >>]

---------------------------------------------------------------------------
(* A job *)

\* /v1/diffuse
Diffuse(j) ==
    /\ state[j] = "none"
    /\ state' = [state EXCEPT ![j] = "queued"]
    /\ UNCHANGED <<frames, lock, stop, drafts, thread, posted, readerVars>>

\* run_refinement shows "running" while it waits for the lock; /v1/refine starts here.
Refine(j) ==
    /\ state[j] \in {"none", "queued"}
    /\ state' = [state EXCEPT ![j] = "running"]
    /\ UNCHANGED <<frames, lock, stop, drafts, thread, posted, readerVars>>

Locks_Shared(j) ==
    /\ state[j] = "running" /\ thread[j] = "none"
    /\ lock' = lock \cup {j}
    /\ thread' = [thread EXCEPT ![j] = "running"]
    /\ UNCHANGED <<state, frames, stop, drafts, posted, readerVars>>

Locks(j) ==
    /\ state[j] = "running" /\ thread[j] = "none" /\ lock = {}
    /\ lock' = {j}
    /\ thread' = [thread EXCEPT ![j] = "running"]
    /\ UNCHANGED <<state, frames, stop, drafts, posted, readerVars>>

\* A bug: the last draft is published too.
Published_All(d) == d <= TotalSteps

\* The last step is left to the terminal frame.
Published(d) == d < TotalSteps

\* put_draft: the frames made before the event is set are posted to the loop.
Draft(j) ==
    /\ thread[j] = "running" /\ j \notin stop /\ drafts[j] < MaxDrafts[j]
    /\ drafts' = [drafts EXCEPT ![j] = @ + 1]
    /\ posted' = IF Published(drafts'[j])
                 THEN [posted EXCEPT ![j] = Append(@, drafts'[j])] ELSE posted
    /\ UNCHANGED <<state, frames, lock, stop, thread, readerVars>>

ThreadEnds(j) ==
    /\ thread[j] = "running"
    /\ \/ thread' = [thread EXCEPT ![j] = IF j \in stop THEN "cancelled" ELSE "complete"]
       \/ thread' = [thread EXCEPT ![j] = "failed"]
    /\ UNCHANGED <<state, frames, lock, stop, drafts, posted, readerVars>>

\* The subscribers of j that wait are woken.
Wakes(j) ==
    reader' = [s \in Subscribers |-> IF Follows[s] = j /\ reader[s] = "waiting" THEN "looking" ELSE reader[s]]

\* _record_job_frame
Records(j) ==
    /\ posted[j] # << >>
    /\ posted' = [posted EXCEPT ![j] = Tail(@)]
    /\ IF state[j] \in {"queued", "running"}
       THEN /\ frames' = [frames EXCEPT ![j] = Append(@, Head(posted[j]))]
            /\ Wakes(j)
       ELSE UNCHANGED <<frames, reader>>
    /\ UNCHANGED <<state, lock, stop, drafts, thread, seenState, batch, seen>>

\* A bug: a failed job does not set the event.
Result_SilentFailure(j) ==
    /\ thread[j] \in Ended /\ state[j] = "running"
    /\ thread[j] # "failed" => posted[j] = << >>
    /\ state' = [state EXCEPT ![j] = thread[j]]
    /\ frames' = [frames EXCEPT ![j] = IF thread[j] = "failed" THEN << >> ELSE FinalFrames(drafts[j])]
    /\ lock' = lock \ {j}
    /\ IF thread[j] = "failed" THEN UNCHANGED reader ELSE Wakes(j)
    /\ UNCHANGED <<stop, drafts, thread, posted, seenState, batch, seen>>

\* The coroutine sees that the thread has ended.  A result is kept after one turn of the
\* loop, which has recorded the frames posted before; an exception is kept at once.
Result(j) ==
    /\ thread[j] \in Ended /\ state[j] = "running"
    /\ thread[j] # "failed" => posted[j] = << >>
    /\ state' = [state EXCEPT ![j] = thread[j]]
    /\ frames' = [frames EXCEPT ![j] = IF thread[j] = "failed" THEN << >> ELSE FinalFrames(drafts[j])]
    /\ lock' = lock \ {j}
    /\ Wakes(j)
    /\ UNCHANGED <<stop, drafts, thread, posted, seenState, batch, seen>>

\* /v1/jobs/{job_id}/cancel, /cancel and /shutdown: any unfinished job.
CancelJob(j) ==
    /\ state[j] \in {"queued", "running"}
    /\ stop' = stop \cup {j}
    /\ UNCHANGED <<state, frames, lock, drafts, thread, posted, readerVars>>

---------------------------------------------------------------------------
(* A subscriber: job_events *)

Subscribe(s) ==
    /\ reader[s] = "new" /\ state[Follows[s]] # "none"
    /\ reader' = [reader EXCEPT ![s] = "looking"]
    /\ UNCHANGED <<jobVars, seenState, batch, seen>>

\* The job's record and the frames not yet sent are taken once per turn.
Looks(s) ==
    /\ reader[s] = "looking"
    /\ seenState' = [seenState EXCEPT ![s] = state[Follows[s]]]
    /\ batch' = [batch EXCEPT ![s] =
           SubSeq(frames[Follows[s]], Len(seen[s]) + 1, Len(frames[Follows[s]]))]
    /\ reader' = [reader EXCEPT ![s] = "sending"]
    /\ UNCHANGED <<jobVars, seen>>

\* A bug: the job is not looked at again before waiting.
MoreToSend_Stale(s, sent) == FALSE

\* The event is cleared, and the job looked at again, without an await in between.
MoreToSend(s, sent) ==
    Len(frames[Follows[s]]) # sent \/ state[Follows[s]] \in Ended

Sends(s) ==
    /\ reader[s] = "sending"
    /\ seen' = [seen EXCEPT ![s] = @ \o batch[s]]
    /\ batch' = [batch EXCEPT ![s] = << >>]
    /\ reader' = [reader EXCEPT ![s] =
           CASE seenState[s] \in Ended -> "done"
             [] seenState[s] \notin Ended /\ MoreToSend(s, Len(seen'[s])) -> "looking"
             [] OTHER -> "waiting"]
    /\ UNCHANGED <<jobVars, seenState>>

---------------------------------------------------------------------------
JobRuns(j) == Refine(j) \/ Locks(j) \/ Records(j) \/ Result(j)
ThreadRuns(j) == Draft(j) \/ ThreadEnds(j)

JobsNext ==
    \/ \E j \in Jobs : Diffuse(j) \/ JobRuns(j) \/ ThreadRuns(j) \/ CancelJob(j)
    \/ \E s \in Subscribers : Subscribe(s) \/ Looks(s) \/ Sends(s)

JobsSpec == JobsInit /\ [][JobsNext]_jobsVars

\* The loop runs what can run, and generation ends.
JobsFairness ==
    /\ WF_jobsVars(\E j \in Jobs : state[j] # "none" /\ JobRuns(j))
    /\ WF_jobsVars(\E j \in Jobs : ThreadEnds(j))
    /\ WF_jobsVars(\E s \in Subscribers : Looks(s) \/ Sends(s))

JobsFairSpec == JobsSpec /\ JobsFairness

---------------------------------------------------------------------------
(* Properties *)

\* What a subscriber was sent, in whatever order it looked while drafts came, the job
\* was cancelled and the final frames replaced the drafts, is exactly the final frames:
\* no frame is lost, repeated or one that the result does not contain.
SubscribersSeeTheResult ==
    \A s \in Subscribers :
        LET j == Follows[s] IN
        /\ reader[s] = "done" /\ state[j] # "failed" => seen[s] = frames[j]
        /\ state[j] # "failed" => \A i \in 1 .. Len(seen[s]) : i <= Len(frames[j]) /\ frames[j][i] = seen[s][i]

\* No subscriber waits, although one subscriber's clearing of the event may
\* follow another's waking.
SubscribersServed == \A s \in Subscribers : reader[s] \in {"new", "done"}

\* Jobs run one after the other, and one ends as cancelled only if it was told to.
JobsProtocol == INSTANCE WorkerProtocol WITH
    Requests <- Jobs,
    asked <- stop,
    phase <- [j \in Jobs |->
                CASE state[j] = "none" -> "new"
                  [] state[j] \in {"queued", "running"} /\ j \notin lock -> "accepted"
                  [] j \in lock -> "active"
                  [] OTHER -> state[j]]

JobsKeepProtocol == JobsProtocol!Spec
============================================================================
