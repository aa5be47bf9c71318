-------------------------- MODULE CapabilitySetups --------------------------
(***************************************************************************)
(* Guided capability setups of the management service (v2_api.py): a       *)
(* durable document per setup, one background task per setup that runs     *)
(* under a first-in first-out lock, requests that cancel, retry and        *)
(* publish, the rollback of a publication the gateway could not serve, and *)
(* the reconciliation of interrupted setups when the service starts.       *)
(*                                                                         *)
(* The service runs one event loop.  An action is the code of one task     *)
(* between two awaits, except where it commits several SQLite              *)
(* transactions: then each is a step, nothing else in the service runs     *)
(* before the last of them, and the process may die between them.          *)
(* save_capability_setup writes the whole document, so a writer that       *)
(* awaited saves what it read before.                                      *)
(***************************************************************************)
EXTENDS RoutingProfiles, SequencesExt

CONSTANTS
    Setups,        \* setups; the Worker a setup creates has the setup's name
    NoSetup,       \* nobody holds setup_lock
    NoProfile,     \* guided_profile_id is not set
    Own,           \* the profile each setup names when none is set (uuid5)
    Wanted,        \* the public names a setup may be published under
    OperatorDocs,  \* drafts the operator writes by hand
    MaxRevision,   \* no request publishes a profile with so many revisions
    Budget         \* how often each of Costly may happen, and all together

\* What a run would otherwise repeat without end.
Costly == {"crash", "pause", "retry", "cancel", "edit", "any"}

ASSUME SetupAssumption ==
    /\ IsFiniteSet(Setups)
    /\ Setups \subseteq Workers
    /\ NoSetup \notin Setups
    /\ NoProfile \notin Profiles
    /\ Own \in [Setups -> Profiles]
    /\ Wanted \in [Setups -> SUBSET Names]
    /\ OperatorDocs \subseteq Documents
    /\ MaxRevision \in Nat
    /\ Budget \in [Costly -> Nat]

\* Setups a task is to carry on with, and what they end in.
Pausable == {"queued", "waiting-for-thermal-capacity"}
Unfinished == Pausable \cup {"creating-worker", "starting-worker", "qualifying"}
Publishing == {"publishing", "verifying-route"}
Settled == {"awaiting-publication", "failed", "cancelled", "succeeded"}
States == {"absent"} \cup Unfinished \cup Publishing \cup Settled

\* The fields of a setup's document that steer it: worker is whether worker_id is
\* recorded.  States nothing can observe before the next await or commit,
\* "applying-policy" and "verifying-identity", are left out.
Docs == [state : States, cancel : BOOLEAN, worker : BOOLEAN]

NewDoc == [state |-> "absent", cancel |-> FALSE, worker |-> FALSE]

VARIABLES
    doc,       \* capability_setups.document_json
    order,     \* setups in the order of created_at
    rows,      \* setups whose Worker has a row in workers
    guided,    \* configuration value guided_profile_id
    budget,
    up,        \* the management service runs
    queue,     \* setup tasks that wait for setup_lock
    runner,    \* the setup whose task holds it
    pc,        \* where that task is
    mem,       \* the document it works on
    copy,      \* what a cancel request that awaits the stop of the Worker read
    pub,       \* the publication in progress of each setup
    stranded   \* setups whose publication died of an exception, in either place

storeVars == <<doc, order, rows, guided>>
taskVars == <<queue, runner, pc, mem>>
requestVars == <<copy, pub, stranded>>
vars == <<routingVars, storeVars, taskVars, requestVars, up, budget>>

\* A publication: the document its request read, the profile and the name it
\* publishes, the live revisions before it, which of them the rollback has still
\* to activate, and its next step.
Steps == {"none", "draft", "revision", "guided", "record", "smoke", "restore"}

Publications ==
    [at : Steps, read : Docs, profile : Profiles \cup {NoProfile},
     after : Documents \cup {NoDraft}, previous : [Profiles -> Nat],
     todo : SUBSET Profiles]

NoPublication ==
    [at |-> "none", read |-> NewDoc, profile |-> NoProfile, after |-> NoDraft,
     previous |-> [p \in Profiles |-> 0], todo |-> {}]

TypeOK ==
    /\ RoutingTypeOK
    /\ doc \in [Setups -> Docs]
    /\ order \in Seq(Setups)
    /\ rows \subseteq Setups
    /\ guided \in Profiles \cup {NoProfile}
    /\ budget \in [Costly -> Nat]
    /\ up \in BOOLEAN
    /\ queue \in Seq(Setups)
    /\ runner \in Setups \cup {NoSetup}
    /\ pc \in {"idle", "creating", "recording", "starting", "qualifying",
               "cooling-start", "cooling-qualify", "stopping"}
    /\ mem \in Docs
    /\ copy \in [Setups -> Docs]
    /\ pub \in [Setups -> Publications]
    /\ stranded \subseteq Setups

Init ==
    /\ RoutingInit
    /\ doc = [s \in Setups |-> NewDoc]
    /\ order = << >> /\ rows = {} /\ guided = NoProfile
    /\ budget = Budget
    /\ up = TRUE
    /\ queue = << >> /\ runner = NoSetup /\ pc = "idle" /\ mem = NewDoc
    /\ copy = [s \in Setups |-> NewDoc]
    /\ pub = [s \in Setups |-> NoPublication]
    /\ stranded = {}

---------------------------------------------------------------------------
(* Helpers *)

Spend(what) ==
    /\ budget[what] > 0
    /\ budget["any"] > 0
    /\ budget' = [budget EXCEPT ![what] = @ - 1, !["any"] = @ - 1]

\* save_capability_setup
Save(s, d) == doc' = [doc EXCEPT ![s] = d]

\* transition_setup
Transition_Partial(s, d, state) == Save(s, [state |-> state])

Transition(s, d, state) == Save(s, [d EXCEPT !.state = state])

Scheduled(s) == s = runner \/ s \in Range(queue)

\* schedule_setup: a task that is not done is left alone.
Schedule(s) == queue' = IF Scheduled(s) THEN queue ELSE Append(queue, s)

\* A handler that has more to commit before it awaits.
Committing(s) == pub[s].at \in Steps \ {"none", "smoke"}
Busy == pc = "recording" \/ \E s \in Setups : Committing(s)

\* The task ends and leaves the lock to the next one.
Finish ==
    /\ runner' = NoSetup /\ pc' = "idle" /\ mem' = NewDoc
    /\ UNCHANGED queue

Goto(label) ==
    /\ pc' = label
    /\ UNCHANGED <<queue, runner>>

---------------------------------------------------------------------------
(* run_setup *)

\* The lock is free for the first task that waits for it.
TakesLock ==
    /\ up /\ ~Busy
    /\ runner = NoSetup
    /\ queue # << >>

\* What a task does with the document it read: stop the Worker of a cancelled
\* setup, or carry on.  The stop awaits only if the Worker runs.
Cancels(s, d) ==
    \/ /\ d.worker
       /\ mem' = d
       /\ Goto("stopping")
       /\ UNCHANGED doc
    \/ /\ Transition(s, d, "cancelled")
       /\ Finish

\* The setup is no longer to be run.
BeginNothing ==
    /\ TakesLock
    /\ doc[Head(queue)].state \notin Pausable
    /\ queue' = Tail(queue)
    /\ UNCHANGED <<routingVars, storeVars, requestVars, runner, pc, mem, up, budget>>

\* cancel_requested was saved while the setup waited.
BeginCancelled ==
    /\ TakesLock
    /\ LET s == Head(queue) IN
         /\ doc[s].state \in Pausable
         /\ doc[s].cancel
         /\ queue' = Tail(queue)
         /\ \/ /\ doc[s].worker
               /\ runner' = s /\ pc' = "stopping" /\ mem' = doc[s]
               /\ UNCHANGED doc
            \/ /\ Transition(s, doc[s], "cancelled")
               /\ UNCHANGED <<runner, pc, mem>>
    /\ UNCHANGED <<routingVars, order, rows, guided, requestVars, up, budget>>

\* The policy is saved; create_worker awaits the verification of a Q4 release.
Begin ==
    /\ TakesLock
    /\ LET s == Head(queue)
           state == IF doc[s].worker THEN "starting-worker" ELSE "creating-worker" IN
         /\ doc[s].state \in Pausable
         /\ ~doc[s].cancel
         /\ queue' = Tail(queue)
         /\ runner' = s
         /\ pc' = IF doc[s].worker THEN "starting" ELSE "creating"
         /\ mem' = [doc[s] EXCEPT !.state = state]
         /\ Transition(s, doc[s], state)
    /\ UNCHANGED <<routingVars, order, rows, guided, requestVars, up, budget>>

At(label) == up /\ pc = label /\ \A s \in Setups : ~Committing(s)

\* create_worker: the row is saved; a name that is taken is refused.
CreatesWorker ==
    /\ At("creating")
    /\ runner \notin rows
    /\ rows' = rows \cup {runner}
    /\ Goto("recording")
    /\ UNCHANGED <<routingVars, doc, order, guided, mem, requestVars, up, budget>>

\* worker_id is saved, then "starting-worker"; the check of cancel_requested in
\* between looks at the task's own copy, where it is never set.
RecordsWorker_Forgets ==
    /\ At("recording")
    /\ mem' = [mem EXCEPT !.state = "starting-worker"]
    /\ Save(runner, [mem' EXCEPT !.worker = TRUE])
    /\ Goto("starting")
    /\ UNCHANGED <<routingVars, order, rows, guided, requestVars, up, budget>>

RecordsWorker ==
    /\ At("recording")
    /\ mem' = [mem EXCEPT !.worker = TRUE, !.state = "starting-worker"]
    /\ Save(runner, mem')
    /\ Goto("starting")
    /\ UNCHANGED <<routingVars, order, rows, guided, requestVars, up, budget>>

\* supervisor.start returned, with the Worker ready or failed.
Started ==
    /\ At("starting")
    /\ mem' = [mem EXCEPT !.state = "qualifying"]
    /\ Save(runner, mem')
    /\ Goto("qualifying")
    /\ UNCHANGED <<routingVars, order, rows, guided, requestVars, up, budget>>

\* ThermalAdmissionError: "waiting-for-thermal-capacity" for two seconds
Pauses(from, to) ==
    /\ At(from)
    /\ Spend("pause")
    /\ mem' = [mem EXCEPT !.state = "waiting-for-thermal-capacity"]
    /\ Save(runner, mem')
    /\ Goto(to)
    /\ UNCHANGED <<routingVars, order, rows, guided, requestVars, up>>

StartRefused == Pauses("starting", "cooling-start")
QualifyRefused == Pauses("qualifying", "cooling-qualify")

\* After the pause the document is read again and tried again.
Resumes_Stale(from, to, state) ==
    /\ At(from)
    /\ ~mem.cancel
    /\ mem' = [mem EXCEPT !.state = state]
    /\ Save(runner, mem')
    /\ Goto(to)
    /\ UNCHANGED <<routingVars, order, rows, guided, requestVars, up, budget>>

Resumes(from, to, state) ==
    /\ At(from)
    /\ ~doc[runner].cancel
    /\ mem' = [doc[runner] EXCEPT !.state = state]
    /\ Save(runner, mem')
    /\ Goto(to)
    /\ UNCHANGED <<routingVars, order, rows, guided, requestVars, up, budget>>

StartAgain == Resumes("cooling-start", "starting", "starting-worker")
QualifyAgain == Resumes("cooling-qualify", "qualifying", "qualifying")

\* cancel_requested was saved during the pause.
CancelledInPause ==
    /\ At("cooling-start") \/ At("cooling-qualify")
    /\ doc[runner].cancel
    /\ Cancels(runner, doc[runner])
    /\ UNCHANGED <<routingVars, order, rows, guided, requestVars, up, budget>>

\* The stop of a cancelled setup's Worker has returned.
WorkerStopped ==
    /\ At("stopping")
    /\ Transition(runner, mem, "cancelled")
    /\ Finish
    /\ UNCHANGED <<routingVars, order, rows, guided, requestVars, up, budget>>

Qualified ==
    /\ At("qualifying")
    /\ Transition(runner, mem, "awaiting-publication")
    /\ Finish
    /\ UNCHANGED <<routingVars, order, rows, guided, requestVars, up, budget>>

\* Any other exception: create_worker refuses, the Worker does not get ready or
\* does not qualify, a stop fails.  The stored document is read again.
RunFails ==
    /\ \/ At("creating") \/ At("starting") \/ At("qualifying") \/ At("stopping")
    /\ Transition(runner, doc[runner], "failed")
    /\ Finish
    /\ UNCHANGED <<routingVars, order, rows, guided, requestVars, up, budget>>

---------------------------------------------------------------------------
(* Requests *)

Request == up /\ ~Busy

\* create_capability_setup
CreateSetup(s) ==
    /\ Request
    /\ doc[s].state = "absent"
    /\ Transition(s, NewDoc, "queued")
    /\ order' = Append(order, s)
    /\ Schedule(s)
    /\ UNCHANGED <<routingVars, rows, guided, runner, pc, mem, requestVars, up, budget>>

\* Listing or reading a setup, or creating it again with the same request id,
\* schedules a setup that waits.
Poll(s) ==
    /\ Request
    /\ doc[s].state \in Pausable
    /\ Schedule(s)
    /\ UNCHANGED <<routingVars, storeVars, runner, pc, mem, requestVars, up, budget>>

\* cancel_capability_setup of a setup whose task is to notice
CancelRequested(s) ==
    /\ Request
    /\ Spend("cancel")
    /\ doc[s].state \in Unfinished
    /\ Save(s, [doc[s] EXCEPT !.cancel = TRUE])
    /\ UNCHANGED <<routingVars, order, rows, guided, taskVars, requestVars, up>>

\* and of a setup without a task: its Worker does not run,
CancelSettled(s) ==
    /\ Request
    /\ Spend("cancel")
    /\ doc[s].state \in Settled \ {"succeeded"}
    /\ Transition(s, doc[s], "cancelled")
    /\ UNCHANGED <<routingVars, order, rows, guided, taskVars, requestVars, up>>

\* or is stopped first.  One such request per setup is considered at a time.
CancelStops(s) ==
    /\ Request
    /\ Spend("cancel")
    /\ doc[s].state \in Settled \ {"succeeded"}
    /\ doc[s].worker
    /\ copy[s] = NewDoc
    /\ copy' = [copy EXCEPT ![s] = doc[s]]
    /\ UNCHANGED <<routingVars, storeVars, taskVars, pub, stranded, up>>

CancelStopped(s) ==
    /\ Request
    /\ copy[s] # NewDoc
    /\ Transition(s, copy[s], "cancelled")
    /\ copy' = [copy EXCEPT ![s] = NewDoc]
    /\ UNCHANGED <<routingVars, order, rows, guided, taskVars, pub, stranded, up, budget>>

\* retry_capability_setup
Retry_Unscheduled(s) ==
    /\ Request
    /\ Spend("retry")
    /\ doc[s].state \in {"failed", "cancelled"}
    /\ Save(s, [doc[s] EXCEPT !.state = "queued", !.cancel = FALSE])
    /\ UNCHANGED <<routingVars, order, rows, guided, taskVars, requestVars, up>>

Retry(s) ==
    /\ Request
    /\ Spend("retry")
    /\ doc[s].state \in {"failed", "cancelled"}
    /\ Save(s, [doc[s] EXCEPT !.state = "queued", !.cancel = FALSE])
    /\ Schedule(s)
    /\ UNCHANGED <<routingVars, order, rows, guided, runner, pc, mem, requestVars, up>>

---------------------------------------------------------------------------
(* publish_capability_setup *)

\* publication_preview: the guided profile with s's Worker for the name n, from the
\* draft of the managed profile or from nothing.
Managed == guided # NoProfile /\ draft[guided] # NoDraft
Target(s) == IF Managed THEN guided ELSE Own[s]
After(s, n) ==
    LET base == IF Managed THEN draft[guided] ELSE [m \in Names |-> Nobody]
    IN  [base EXCEPT ![n] = s]

\* One publish request per setup is considered at a time.
Publish(s, n) ==
    /\ Request
    /\ doc[s].state = "awaiting-publication"
    /\ pub[s].at = "none"
    /\ Len(revs[Target(s)]) < MaxRevision
    /\ Transition(s, doc[s], "publishing")
    /\ pub' = [pub EXCEPT ![s] =
                 [at |-> "draft", read |-> doc[s], profile |-> Target(s),
                  after |-> After(s, n), previous |-> live,
                  todo |-> {p \in Profiles : live[p] # 0}]]
    /\ UNCHANGED <<routingVars, order, rows, guided, taskVars, copy, stranded, up, budget>>

\* The step a publication is at, and where it goes.
PubAt(s, step) == up /\ pub[s].at = step
PubGoto(s, step) == pub' = [pub EXCEPT ![s].at = step]
PubEnds(s) == pub' = [pub EXCEPT ![s] = NoPublication]

PublishesDraft(s) ==
    /\ PubAt(s, "draft")
    /\ SaveDraft(pub[s].profile, pub[s].after)
    /\ PubGoto(s, "revision")
    /\ UNCHANGED <<storeVars, taskVars, copy, stranded, up, budget>>

PublishesRevision(s) ==
    /\ PubAt(s, "revision")
    /\ AddRevision(pub[s].profile, pub[s].after)
    /\ PubGoto(s, "guided")
    /\ UNCHANGED <<storeVars, taskVars, copy, stranded, up, budget>>

\* A name that another live profile serves: ready for another review.
PublishConflicts(s) ==
    /\ PubAt(s, "revision")
    /\ Collides(pub[s].profile, pub[s].after)
    /\ Transition(s, pub[s].read, "awaiting-publication")
    /\ PubEnds(s)
    /\ UNCHANGED <<routingVars, order, rows, guided, taskVars, copy, stranded, up, budget>>

SetsGuided(s) ==
    /\ PubAt(s, "guided")
    /\ guided' = pub[s].profile
    /\ PubGoto(s, "record")
    /\ UNCHANGED <<routingVars, doc, order, rows, taskVars, copy, stranded, up, budget>>

\* "verifying-route": the request to the gateway awaits.
BeginsSmoke(s) ==
    /\ PubAt(s, "record")
    /\ Transition(s, pub[s].read, "verifying-route")
    /\ PubGoto(s, "smoke")
    /\ UNCHANGED <<routingVars, order, rows, guided, taskVars, copy, stranded, up, budget>>

SmokePasses(s) ==
    /\ PubAt(s, "smoke") /\ ~Busy
    /\ Transition(s, pub[s].read, "succeeded")
    /\ PubEnds(s)
    /\ UNCHANGED <<routingVars, order, rows, guided, taskVars, copy, stranded, up, budget>>

\* The route does not answer: its profile is deactivated, and what was live before
\* is activated again, one revision after the other in the order of a wall clock.
SmokeFails_KeepsLive(s) ==
    /\ PubAt(s, "smoke") /\ ~Busy
    /\ PubGoto(s, "restore")
    /\ UNCHANGED <<routingVars, storeVars, taskVars, copy, stranded, up, budget>>

SmokeFails(s) ==
    /\ PubAt(s, "smoke") /\ ~Busy
    /\ Deactivate(pub[s].profile)
    /\ PubGoto(s, "restore")
    /\ UNCHANGED <<storeVars, taskVars, copy, stranded, up, budget>>

\* The rehearsal of a route that calls tools raises IndexError for a reply without
\* choices, AttributeError for one of another shape; the handler catches
\* HTTPException only, so nothing is rolled back.
SmokeRaises(s) ==
    /\ PubAt(s, "smoke") /\ ~Busy
    /\ PubEnds(s)
    /\ stranded' = stranded \cup {s}
    /\ UNCHANGED <<routingVars, storeVars, taskVars, copy, up, budget>>

Restores_Unchecked(s, p) ==
    /\ PubAt(s, "restore")
    /\ p \in pub[s].todo
    /\ live' = [live EXCEPT ![p] = pub[s].previous[p]]
    /\ pub' = [pub EXCEPT ![s].todo = @ \ {p}]
    /\ UNCHANGED <<draft, revs, storeVars, taskVars, copy, stranded, up, budget>>

Restores(s, p) ==
    /\ PubAt(s, "restore")
    /\ p \in pub[s].todo
    /\ Activate(p, pub[s].previous[p])
    /\ pub' = [pub EXCEPT ![s].todo = @ \ {p}]
    /\ UNCHANGED <<storeVars, taskVars, copy, stranded, up, budget>>

\* The activation raises ValueError, which nothing in the handler catches.
RestoreRaises(s, p) ==
    /\ PubAt(s, "restore")
    /\ p \in pub[s].todo
    /\ Collides(p, revs[p][pub[s].previous[p]])
    /\ PubEnds(s)
    /\ stranded' = stranded \cup {s}
    /\ UNCHANGED <<routingVars, storeVars, taskVars, copy, up, budget>>

RolledBack(s) ==
    /\ PubAt(s, "restore")
    /\ pub[s].todo = {}
    /\ Transition(s, pub[s].read, "failed")
    /\ PubEnds(s)
    /\ UNCHANGED <<routingVars, order, rows, guided, taskVars, copy, stranded, up, budget>>

---------------------------------------------------------------------------
(* The operator's own changes to the Routing Profiles *)

\* A new profile of the operator's has an identifier of its own.
Edit(p) ==
    /\ Request
    /\ Spend("edit")
    /\ \/ /\ draft[p] # NoDraft \/ p \notin Range(Own)
          /\ \E d \in OperatorDocs : SaveDraft(p, d)
       \/ Len(revs[p]) < MaxRevision /\ PublishDraft(p)
       \/ \E r \in 1..Len(revs[p]) : Activate(p, r)
       \/ Deactivate(p)
       \/ DiscardDraft(p)
       \/ DeleteProfile(p)
    /\ UNCHANGED <<storeVars, taskVars, requestVars, up>>

---------------------------------------------------------------------------
(* The process *)

\* The service is killed, or shuts down: shutdown_setups cancels the tasks, and a
\* cancelled task saves nothing.
Stops ==
    /\ up
    /\ Spend("crash")
    /\ up' = FALSE
    /\ queue' = << >> /\ runner' = NoSetup /\ pc' = "idle" /\ mem' = NewDoc
    /\ copy' = [s \in Setups |-> NewDoc]
    /\ pub' = [s \in Setups |-> NoPublication]
    /\ stranded' = {}
    /\ UNCHANGED <<routingVars, storeVars>>

\* reconcile_setups
Reconciled_ForgetsRoute(s) ==
    IF doc[s].state \in Unfinished THEN "queued" ELSE doc[s].state

Reconciled(s) ==
    LET profile == IF guided = NoProfile THEN Own[s] ELSE guided
        began == draft[profile] # NoDraft /\ revs[profile] # << >>
    IN  CASE doc[s].state \in Unfinished -> "queued"
          [] doc[s].state = "publishing" ->
               IF began THEN "failed" ELSE "awaiting-publication"
          [] doc[s].state = "verifying-route" -> "failed"
          [] OTHER -> doc[s].state

\* The setups a start has to carry on with, and which of two was created later.
Backlog == {s \in Range(order) : doc[s].state \in Unfinished}
Newer(s, z) == \E i, j \in DOMAIN order : i > j /\ order[i] = s /\ order[j] = z

\* The newest setup is scheduled first: list_capability_setups is ORDER BY
\* created_at DESC.
Restarts ==
    /\ ~up
    /\ up' = TRUE
    /\ doc' = [s \in Setups |-> [doc[s] EXCEPT !.state = Reconciled(s)]]
    /\ \E q \in [1..Cardinality(Backlog) -> Backlog] :
          /\ Range(q) = Backlog
          /\ \A i, j \in DOMAIN q : i < j => Newer(q[i], q[j])
          /\ queue' = q
    /\ UNCHANGED <<routingVars, order, rows, guided, runner, pc, mem, requestVars, budget>>

---------------------------------------------------------------------------

Task ==
    \/ BeginNothing \/ BeginCancelled \/ Begin
    \/ CreatesWorker \/ RecordsWorker
    \/ Started \/ StartRefused \/ StartAgain
    \/ QualifyRefused \/ QualifyAgain \/ Qualified
    \/ CancelledInPause \/ WorkerStopped \/ RunFails

Publication(s) ==
    \/ PublishesDraft(s) \/ PublishesRevision(s) \/ PublishConflicts(s)
    \/ SetsGuided(s) \/ BeginsSmoke(s) \/ SmokePasses(s) \/ SmokeFails(s)
    \/ SmokeRaises(s)
    \/ (\E p \in Profiles : Restores(s, p) \/ RestoreRaises(s, p))
    \/ RolledBack(s)

Asked(s) ==
    \/ CreateSetup(s) \/ Poll(s) \/ Retry(s)
    \/ CancelRequested(s) \/ CancelSettled(s) \/ CancelStops(s)
    \/ \E n \in Wanted[s] : Publish(s, n)

Next ==
    \/ Task
    \/ \E s \in Setups : Asked(s) \/ CancelStopped(s) \/ Publication(s)
    \/ \E p \in Profiles : Edit(p)
    \/ Stops \/ Restarts

Spec == Init /\ [][Next]_vars

\* The task runs on, a started publication is answered (the request to the gateway
\* has a timeout), and the service is started again after it stopped.  Nobody has
\* to retry, cancel, publish or change a profile.  Fairness is strong where a
\* handler in the middle of its commits keeps the others from running: the event
\* loop runs every callback that has become ready.
FairSpec ==
    /\ Spec
    /\ SF_vars(Task)
    /\ \A s \in Setups : SF_vars(Publication(s))
    /\ WF_vars(Restarts)

---------------------------------------------------------------------------
(* Properties *)

\* The routing tables change as the store's operations allow, whoever changes
\* them: setups, rollbacks, the operator, a process that dies in between.
RoutingSafe == RoutingSpec

\* While the service runs, a setup that is to be carried on has a task, and one
\* that is being published has its request: no order of retries, cancels, stale
\* saves and restarts leaves it to nobody (schedule_setup, reconcile_setups).
\* A setup whose smoke test or rollback raised what publish_capability_setup does
\* not catch is left to nobody until the next start, and that is the only way.
UnfinishedHasRunner ==
    up => \A s \in Setups :
              /\ doc[s].state \in Unfinished => Scheduled(s)
              /\ doc[s].state \in Publishing => pub[s].at # "none" \/ s \in stranded

\* A Worker once recorded stays recorded, although the task, cancel requests and
\* publications save whole documents they read before an await: a setup that is
\* retried or resumed uses the Worker it has.
WorkerIsKept == [][\A s \in Setups : doc[s].worker => doc'[s].worker]_vars

\* A cancel that was saved while the setup waited, for the lock, for the machine to
\* cool or for the service to restart, keeps it from working on.
InPause(s) == s # runner \/ pc \in {"cooling-start", "cooling-qualify"}
CancelInPauseWins ==
    [][\A s \in Setups :
         doc[s].state \in Unfinished /\ doc[s].cancel /\ InPause(s) =>
             doc'[s].state \notin {"creating-worker", "starting-worker", "qualifying"}]_vars

\* No save over a document that was read before an await loses the Worker a setup
\* created, and a cancel that was saved in a pause keeps the setup from working on
\* (run_setup).
NothingIsForgotten == WorkerIsKept /\ CancelInPauseWins

\* When a publication that could not be verified has been rolled back ("prior
\* routing restored"), its profile is as live as it was before, and so is every
\* revision that was live then, whatever happened while the gateway was asked.
RollbackRestores ==
    [][\A s \in Setups :
         LET p == pub[s].profile IN
         pub[s].at = "restore" /\ doc'[s].state = "failed" /\ doc[s].state # "failed" =>
             /\ live'[p] = pub[s].previous[p]
             /\ \A q \in Profiles :
                    pub[s].previous[q] # 0 => live'[q] = pub[s].previous[q]]_vars

\* Every setup that was started comes to rest, unless an exception of its smoke test
\* or rollback has stranded it, which a start of the service ends (run_setup,
\* publish_capability_setup, reconcile_setups).
SetupsSettle ==
    \A s \in Setups :
        doc[s].state \in Unfinished \cup Publishing
            ~> doc[s].state \in Settled \/ s \in stranded

\* "Each profile is independently live. Replacing a revision changes only this
\* profile; all other active profiles stay exposed by the gateway."  A rollback
\* activates what was live when the publication began.
RollbackTouchesOnlyItsProfile ==
    [][\A s \in Setups : pub[s].at = "restore" =>
         \A q \in Profiles \ {pub[s].profile} : live'[q] = live[q]]_vars

\* "durable FIFO operations": of the setups nobody has retried or cancelled, the
\* oldest that waits is the next to run.
DurableFifo ==
    [][\A i, j \in DOMAIN order :
         /\ i < j
         /\ doc[order[i]].state = "queued"
         /\ doc[order[j]].state = "queued"
         /\ budget["retry"] = Budget["retry"] /\ budget["cancel"] = Budget["cancel"]
         => ~(runner # order[j] /\ runner' = order[j])]_vars

=============================================================================
