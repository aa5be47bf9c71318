---------------------------- MODULE SetupProofs ----------------------------
(***************************************************************************)
(* Capability setups, for any setups, profiles and budgets.  First, what   *)
(* they do to the routing tables: Spec implements RoutingSpec, so public   *)
(* names stay unambiguous through any publications, rollbacks, conflicts   *)
(* and crashes.  Then the service itself, with one invariant, ServiceInv:  *)
(* every setup that is to be carried on has a task or a publication, no    *)
(* stale document loses a Worker or a cancel, and a rollback restores what *)
(* was live.                                                               *)
(***************************************************************************)
EXTENDS CapabilitySetups, RoutingProofs, FiniteSetTheorems

\* What a publication in progress has to know for its rollback: its profile, its
\* document, and previous revisions that still exist.
PubOK(s) ==
    pub[s].at # "none" =>
        /\ pub[s].profile \in Profiles
        /\ pub[s].after \in Documents
        /\ \A p \in Profiles : pub[s].previous[p] \in 0..Len(revs[p])
        /\ \A p \in pub[s].todo : p \in Profiles /\ pub[s].previous[p] # 0

\* The publications as far as the proof needs their type: what a request read does
\* not matter to the tables.
PubShape(x) == x = [at |-> x.at, read |-> x.read, profile |-> x.profile, after |-> x.after,
                    previous |-> x.previous, todo |-> x.todo]

PubsShaped == pub = [s \in Setups |-> pub[s]] /\ \A s \in Setups : PubShape(pub[s])

SetupInv ==
    /\ RoutingInv
    /\ guided \in Profiles \cup {NoProfile}
    /\ PubsShaped
    /\ \A s \in Setups : PubOK(s)

LEMMA SetupInitially == Init => SetupInv
<1> SUFFICES ASSUME Init PROVE SetupInv
  OBVIOUS
<1>1. RoutingInv
  BY RoutingInitially DEF Init
<1>2. PubShape(NoPublication)
  BY DEF PubShape, NoPublication
<1>3. pub = [s \in Setups |-> NoPublication] /\ \A s \in Setups : pub[s] = NoPublication
  BY DEF Init
<1>4. \A s \in Setups : PubOK(s)
  BY <1>3 DEF PubOK, NoPublication
<1>. QED
  BY <1>1, <1>2, <1>3, <1>4 DEF SetupInv, PubsShaped, Init

\* Actions that leave the tables, guided_profile_id and the publications alone.
LEMMA Untouched ==
  ASSUME SetupInv, UNCHANGED <<routingVars, guided, pub>>
  PROVE  SetupInv'
  BY DEF SetupInv, PubOK, PubsShaped, PubShape, RoutingInv, RoutingTypeOK,
         LiveIsPublished, NoAmbiguousNames, LiveNames, Served, routingVars

LEMMA TaskUntouched == Task => UNCHANGED <<routingVars, guided, pub>>
  BY DEF Task, BeginNothing, BeginCancelled, Begin, CreatesWorker, RecordsWorker, Started,
         StartRefused, StartAgain, QualifyRefused, QualifyAgain, Qualified, Pauses,
         Resumes, CancelledInPause, WorkerStopped, RunFails, storeVars, requestVars

\* The requests that publish nothing.
LEMMA RequestUntouched ==
  ASSUME NEW s \in Setups,
         CreateSetup(s) \/ Poll(s) \/ Retry(s) \/ CancelRequested(s) \/ CancelSettled(s)
           \/ CancelStops(s) \/ CancelStopped(s)
  PROVE  UNCHANGED <<routingVars, guided, pub>>
  BY DEF CreateSetup, Poll, Retry, CancelRequested, CancelSettled, CancelStops,
         CancelStopped, storeVars, requestVars

---------------------------------------------------------------------------
(* Every step is an operation on the tables, or leaves them alone *)

\* The document a setup wants to publish.
LEMMA AfterIsDocument ==
  ASSUME SetupInv, NEW s \in Setups, NEW n \in Names
  PROVE  Target(s) \in Profiles /\ After(s, n) \in Documents
<1>1. s \in Workers /\ Own[s] \in Profiles
  BY SetupAssumption
<1>2. Managed => guided \in Profiles /\ draft[guided] \in Documents
  BY SetupAssumption DEF SetupInv, Managed, RoutingInv, RoutingTypeOK
<1>3. [m \in Names |-> Nobody] \in Documents
  BY DEF Documents
<1>. QED
  BY <1>1, <1>2, <1>3 DEF Target, After, Documents

LEMMA PublicationIsRouting ==
  ASSUME SetupInv, NEW s \in Setups, Publication(s)
  PROVE  [RoutingNext]_routingVars
<1>1. PubOK(s)
  BY DEF SetupInv
<1>2. CASE PublishesDraft(s)
  BY <1>1, <1>2 DEF PublishesDraft, PubAt, PubOK, RoutingNext
<1>3. CASE PublishesRevision(s)
  BY <1>1, <1>3 DEF PublishesRevision, PubAt, PubOK, RoutingNext
<1>4. CASE SmokeFails(s)
  BY <1>1, <1>4 DEF SmokeFails, PubAt, PubOK, RoutingNext
<1>5. ASSUME NEW p \in Profiles, Restores(s, p)
      PROVE  [RoutingNext]_routingVars
  <2>1. /\ p \in pub[s].todo /\ pub[s].at # "none"
        /\ Activate(p, pub[s].previous[p])
    BY <1>5 DEF Restores, PubAt
  <2>2. pub[s].previous[p] \in 1..Len(revs[p])
    <3>1. Len(revs[p]) \in Nat
      BY DEF SetupInv, RoutingInv, RoutingTypeOK
    <3>. QED
      BY <1>1, <2>1, <3>1 DEF PubOK
  <2>. QED
    BY <2>1, <2>2 DEF RoutingNext
<1>6. ASSUME NEW p \in Profiles, RestoreRaises(s, p)
      PROVE  UNCHANGED routingVars
  BY <1>6 DEF RestoreRaises
<1>7. CASE PublishConflicts(s) \/ SetsGuided(s) \/ BeginsSmoke(s) \/ SmokePasses(s)
             \/ SmokeRaises(s) \/ RolledBack(s)
  BY <1>7 DEF PublishConflicts, SetsGuided, BeginsSmoke, SmokePasses, SmokeRaises, RolledBack
<1>. QED
  BY <1>2, <1>3, <1>4, <1>5, <1>6, <1>7 DEF Publication

LEMMA EditIsRouting ==
  ASSUME SetupInv, NEW p \in Profiles, Edit(p)
  PROVE  [RoutingNext]_routingVars
<1>1. \A d \in OperatorDocs : SaveDraft(p, d) => RoutingNext
  BY SetupAssumption DEF RoutingNext
<1>2. PublishDraft(p) => RoutingNext
  <2>1. PublishDraft(p) => draft[p] \in Documents /\ AddRevision(p, draft[p])
    BY DEF PublishDraft, AddRevision, SetupInv, RoutingInv, RoutingTypeOK
  <2>. QED
    BY <2>1 DEF RoutingNext
<1>3. DiscardDraft(p) => RoutingNext
  <2>1. revs[p] # << >> => revs[p][Len(revs[p])] \in Documents
    BY ElementOfSeq, EmptySeq DEF SetupInv, RoutingInv, RoutingTypeOK
  <2>. QED
    BY <2>1 DEF DiscardDraft, RoutingNext
<1>4. /\ \A r \in 1..Len(revs[p]) : Activate(p, r) => RoutingNext
      /\ Deactivate(p) \/ DeleteProfile(p) => RoutingNext
  BY DEF RoutingNext
<1>. QED
  BY <1>1, <1>2, <1>3, <1>4 DEF Edit

LEMMA StepIsRouting == SetupInv /\ [Next]_vars => [RoutingNext]_routingVars
<1> SUFFICES ASSUME SetupInv, [Next]_vars
             PROVE  [RoutingNext]_routingVars
  OBVIOUS
<1>1. CASE Task
  BY <1>1, TaskUntouched
<1>2. ASSUME NEW s \in Setups, Asked(s) \/ CancelStopped(s)
      PROVE  UNCHANGED routingVars
  BY <1>2, RequestUntouched DEF Asked, Publish
<1>3. ASSUME NEW s \in Setups, Publication(s)
      PROVE  [RoutingNext]_routingVars
  BY <1>3, PublicationIsRouting
<1>4. ASSUME NEW p \in Profiles, Edit(p)
      PROVE  [RoutingNext]_routingVars
  BY <1>4, EditIsRouting
<1>5. CASE Stops \/ Restarts
  BY <1>5 DEF Stops, Restarts
<1>6. CASE UNCHANGED vars
  BY <1>6 DEF vars
<1>. QED
  BY <1>1, <1>2, <1>3, <1>4, <1>5, <1>6 DEF Next

---------------------------------------------------------------------------
(* and keeps what publications know *)

\* The publication of another setup, or the same with the fields kept.
LEMMA PubOKStays ==
  ASSUME SetupInv, [Next]_vars, NEW s \in Setups,
         pub'[s].at # "none" =>
             /\ pub[s].at # "none"
             /\ pub'[s].profile = pub[s].profile /\ pub'[s].after = pub[s].after
             /\ pub'[s].previous = pub[s].previous
             /\ pub'[s].todo \subseteq {p \in Profiles : pub[s].previous[p] # 0}
  PROVE  PubOK(s)'
<1>1. \A p \in Profiles : /\ Len(revs[p]) <= Len(revs'[p])
                          /\ Len(revs[p]) \in Nat /\ Len(revs'[p]) \in Nat
  BY StepIsRouting, RevisionsStay DEF SetupInv, RoutingInv
<1>2. PubOK(s)
  BY DEF SetupInv
<1>. QED
  BY <1>1, <1>2 DEF PubOK

LEMMA PublishKeeps ==
  ASSUME SetupInv, NEW s \in Setups, NEW n \in Names, Publish(s, n)
  PROVE  PubsShaped' /\ \A t \in Setups : PubOK(t)'
<1>. DEFINE P == [at |-> "draft", read |-> doc[s], profile |-> Target(s),
                  after |-> After(s, n), previous |-> live,
                  todo |-> {p \in Profiles : live[p] # 0}]
<1>1. pub' = [pub EXCEPT ![s] = P] /\ UNCHANGED routingVars
  BY DEF Publish
<1>2. Target(s) \in Profiles /\ After(s, n) \in Documents
  BY AfterIsDocument
<1>3. pub'[s] = P /\ \A t \in Setups \ {s} : pub'[t] = pub[t]
  BY <1>1 DEF SetupInv, PubsShaped
<1>4. PubsShaped'
  BY <1>1, <1>3 DEF SetupInv, PubsShaped, PubShape
<1>5. PubOK(s)'
  BY <1>1, <1>2, <1>3 DEF SetupInv, PubOK, RoutingInv, LiveIsPublished, routingVars
<1>6. \A t \in Setups \ {s} : PubOK(t)'
  BY <1>1, <1>3 DEF SetupInv, PubOK, routingVars
<1>. QED
  BY <1>4, <1>5, <1>6

\* A publication that goes on, keeping what it knows, or ends.
LEMMA PubKeeps ==
  ASSUME SetupInv, NEW s \in Setups, Publication(s)
  PROVE  /\ PubsShaped'
         /\ \A t \in Setups \ {s} : pub'[t] = pub[t]
         /\ pub'[s].at # "none" =>
              /\ pub[s].at # "none"
              /\ pub'[s].profile = pub[s].profile /\ pub'[s].after = pub[s].after
              /\ pub'[s].previous = pub[s].previous
              /\ pub'[s].todo \subseteq {p \in Profiles : pub[s].previous[p] # 0}
<1>. DEFINE Goal ==
         /\ PubsShaped'
         /\ \A t \in Setups \ {s} : pub'[t] = pub[t]
         /\ pub'[s].at # "none" =>
              /\ pub[s].at # "none"
              /\ pub'[s].profile = pub[s].profile /\ pub'[s].after = pub[s].after
              /\ pub'[s].previous = pub[s].previous
              /\ pub'[s].todo \subseteq {p \in Profiles : pub[s].previous[p] # 0}
<1>0. PubsShaped /\ PubShape(pub[s]) /\ PubOK(s)
  BY DEF SetupInv, PubsShaped
<1>1. ASSUME NEW step, PubGoto(s, step), pub[s].at # "none" PROVE Goal
  <2>1. pub' = [pub EXCEPT ![s] = [pub[s] EXCEPT !.at = step]]
    BY <1>1 DEF PubGoto
  <2>2. pub'[s] = [pub[s] EXCEPT !.at = step] /\ \A t \in Setups \ {s} : pub'[t] = pub[t]
    BY <1>0, <2>1 DEF PubsShaped
  <2>3. PubShape(pub'[s]) /\ pub'[s].profile = pub[s].profile
        /\ pub'[s].after = pub[s].after /\ pub'[s].previous = pub[s].previous
        /\ pub'[s].todo = pub[s].todo
    BY <1>0, <2>2 DEF PubShape
  <2>4. PubsShaped'
    BY <1>0, <2>1, <2>2, <2>3 DEF PubsShaped, PubShape
  <2>. QED
    BY <1>0, <1>1, <2>2, <2>3, <2>4 DEF PubOK
<1>2. ASSUME PubEnds(s) PROVE Goal
  <2>1. pub' = [pub EXCEPT ![s] = NoPublication]
    BY <1>2 DEF PubEnds
  <2>2. pub'[s] = NoPublication /\ \A t \in Setups \ {s} : pub'[t] = pub[t]
    BY <1>0, <2>1 DEF PubsShaped
  <2>3. PubsShaped'
    BY <1>0, <2>1, <2>2 DEF PubsShaped, PubShape, NoPublication
  <2>. QED
    BY <2>2, <2>3 DEF NoPublication
<1>3. ASSUME NEW p \in Profiles, Restores(s, p) PROVE Goal
  <2>. DEFINE P == [pub[s] EXCEPT !.todo = pub[s].todo \ {p}]
  <2>1. pub' = [pub EXCEPT ![s] = P] /\ pub[s].at # "none"
    BY <1>3, <1>0 DEF Restores, PubAt, PubsShaped
  <2>2. pub'[s] = P /\ \A t \in Setups \ {s} : pub'[t] = pub[t]
    BY <1>0, <2>1 DEF PubsShaped
  <2>3. PubShape(P) /\ P.profile = pub[s].profile
        /\ P.after = pub[s].after /\ P.previous = pub[s].previous
        /\ P.todo = pub[s].todo \ {p}
    BY <1>0 DEF PubShape
  <2>4. PubsShaped'
    BY <1>0, <2>1, <2>2, <2>3 DEF PubsShaped, PubShape
  <2>. QED
    BY <1>0, <2>1, <2>2, <2>3, <2>4 DEF PubOK
<1>4. ASSUME NEW p \in Profiles, RestoreRaises(s, p) PROVE Goal
  BY <1>2, <1>4 DEF RestoreRaises
<1>5. CASE PublishesDraft(s) \/ PublishesRevision(s) \/ SetsGuided(s) \/ BeginsSmoke(s)
             \/ SmokeFails(s)
  BY <1>1, <1>5 DEF PublishesDraft, PublishesRevision, SetsGuided, BeginsSmoke,
                    SmokeFails, PubAt
<1>6. CASE PublishConflicts(s) \/ SmokePasses(s) \/ SmokeRaises(s) \/ RolledBack(s)
  BY <1>2, <1>6 DEF PublishConflicts, SmokePasses, SmokeRaises, RolledBack
<1>. QED
  BY <1>3, <1>4, <1>5, <1>6 DEF Publication

LEMMA SetupInductive == SetupInv /\ [Next]_vars => SetupInv'
<1> SUFFICES ASSUME SetupInv, [Next]_vars PROVE SetupInv'
  OBVIOUS
<1>0. RoutingInv'
  BY StepIsRouting, RoutingInductive DEF SetupInv
<1>1. CASE Task
  BY <1>1, TaskUntouched, Untouched
<1>2. ASSUME NEW s \in Setups, Asked(s) \/ CancelStopped(s) PROVE SetupInv'
  <2>1. ASSUME NEW n \in Wanted[s], Publish(s, n) PROVE SetupInv'
    <3>1. n \in Names
      BY SetupAssumption
    <3>. QED
      BY <1>0, <2>1, <3>1, PublishKeeps DEF SetupInv, Publish
  <2>. QED
    BY <1>2, <2>1, RequestUntouched, Untouched DEF Asked
<1>3. ASSUME NEW s \in Setups, Publication(s) PROVE SetupInv'
  <2>1. PubsShaped' /\ \A t \in Setups : PubOK(t)'
    <3> SUFFICES ASSUME NEW t \in Setups PROVE PubOK(t)'
      BY <1>3, PubKeeps
    <3>1. CASE t = s
      BY <1>3, <3>1, PubKeeps, PubOKStays
    <3>2. CASE t # s
      <4>1. pub'[t] = pub[t] /\ PubOK(t)
        BY <1>3, <3>2, PubKeeps DEF SetupInv
      <4>. QED
        BY <4>1, PubOKStays DEF PubOK
    <3>. QED
      BY <3>1, <3>2
  <2>2. guided' \in Profiles \cup {NoProfile}
    BY <1>3 DEF Publication, PublishesDraft, PublishesRevision, PublishConflicts, SetsGuided,
                BeginsSmoke, SmokePasses, SmokeFails, SmokeRaises, Restores, RestoreRaises, RolledBack,
                PubAt, SetupInv, PubOK, storeVars
  <2>. QED
    BY <1>0, <2>1, <2>2 DEF SetupInv
<1>4. ASSUME NEW p \in Profiles, Edit(p) PROVE SetupInv'
  <2>1. guided' = guided /\ pub' = pub
    BY <1>4 DEF Edit, storeVars, requestVars
  <2>2. \A s \in Setups : PubOK(s)'
    BY <2>1, PubOKStays DEF SetupInv, PubOK
  <2>. QED
    BY <1>0, <2>1, <2>2 DEF SetupInv, PubsShaped, PubShape
<1>5. CASE Stops
  <2>1. pub' = [s \in Setups |-> NoPublication] /\ guided' = guided
    BY <1>5 DEF Stops, storeVars
  <2>2. \A s \in Setups : pub'[s] = NoPublication
    BY <2>1
  <2>. QED
    BY <1>0, <2>1, <2>2 DEF SetupInv, PubsShaped, PubShape, PubOK, NoPublication
<1>6. CASE Restarts \/ UNCHANGED vars
  BY <1>6, Untouched DEF Restarts, requestVars, vars, storeVars
<1>. QED
  BY <1>1, <1>2, <1>3, <1>4, <1>5, <1>6 DEF Next

---------------------------------------------------------------------------

LEMMA SetupInvariance == Spec => []SetupInv
<1>. QED
  BY SetupInitially, SetupInductive, PTL DEF Spec

\* Setups, rollbacks, operators and restarts use the tables as CompatibilityStore's
\* operations allow: the service implements the abstract routing tables.
THEOREM SetupsImplementRouting == Spec => RoutingSafe
<1>1. Init => RoutingInit
  BY DEF Init
<1>. QED
  BY <1>1, SetupInvariance, StepIsRouting, PTL DEF Spec, RoutingSafe, RoutingSpec

\* No publication, rollback, conflict or crash makes a public name ambiguous.
THEOREM SetupsKeepNamesUnambiguous == Spec => []NoAmbiguousNames
<1>. QED
  BY SetupsImplementRouting, NamesAreUnambiguous, PTL DEF RoutingSafe

\* What is live at any moment, also half-way through a rollback, was published.
THEOREM SetupsServeWhatWasPublished == Spec => []LiveIsPublished
<1>. QED
  BY SetupsImplementRouting, LiveWasPublished, PTL DEF RoutingSafe

---------------------------------------------------------------------------
(* The service: types, tasks, Workers and rollbacks *)

\* States that only the task which runs the setup writes.
Working == Unfinished \ Pausable

\* States a setup reaches only with a Worker.
Qualifieds == {"awaiting-publication", "publishing", "verifying-route", "succeeded"}

\* The places of a task whose Worker is recorded.
WithWorker == {"starting", "qualifying", "cooling-start", "cooling-qualify", "stopping"}

\* One handler at a time is in the middle of its commits, and a service that is
\* down has no tasks.
LockOK ==
    /\ runner = NoSetup <=> pc = "idle"
    /\ ~up => /\ runner = NoSetup
              /\ queue = << >>
              /\ \A s \in Setups : pub[s].at = "none" /\ copy[s] = NewDoc
    /\ pc = "recording" => \A s \in Setups : ~Committing(s)
    /\ \A s, z \in Setups : Committing(s) /\ Committing(z) => s = z

\* What is going on about s.
Concerns(s) ==
    \/ doc[s].state # "absent" \/ Scheduled(s)
    \/ pub[s].at # "none" \/ copy[s] # NewDoc

\* A setup is carried on by its task or by its publication, and is in the table.
TasksOK ==
    /\ UnfinishedHasRunner
    /\ up => \A s \in Setups : doc[s].state \in Working => s = runner
    /\ \A s \in Setups : Concerns(s) => s \in Range(order)

\* Every copy of a document that somebody may still save knows the Worker.
WorkersOK ==
    /\ pc \in WithWorker => mem.worker /\ doc[runner].worker
    /\ pc \in {"cooling-start", "cooling-qualify"} => doc[runner].state \notin Working
    /\ \A s \in Setups :
        /\ copy[s] # NewDoc => copy[s].worker /\ doc[s].worker
        /\ pub[s].at # "none" => pub[s].read.worker /\ doc[s].worker
        /\ doc[s].state \in Qualifieds => doc[s].worker
        /\ doc[s].state = "absent" => ~doc[s].worker

\* A rollback has still to do what it has not done.
RollbackOK ==
    \A s \in Setups :
        LET p == pub[s].profile
            previous == pub[s].previous
        IN
        /\ pub[s].at \notin {"none", "restore"} => pub[s].todo = {q \in Profiles : previous[q] # 0}
        /\ pub[s].at = "restore" =>
              /\ previous[p] = 0 => live[p] = 0
              /\ \A q \in Profiles \ pub[s].todo : previous[q] # 0 => live[q] = previous[q]

---------------------------------------------------------------------------
(* Helpers of the service *)

\* Appending to a queue of setups, and taking its first.
LEMMA Queues ==
  ASSUME NEW q \in Seq(Setups), NEW s \in Setups
  PROVE  /\ Append(q, s) \in Seq(Setups)
         /\ Range(Append(q, s)) = Range(q) \cup {s}
         /\ q # << >> => /\ Head(q) \in Setups \cap Range(q)
                         /\ Tail(q) \in Seq(Setups)
                         /\ Range(Tail(q)) \subseteq Range(q)
                         /\ Range(q) \subseteq {Head(q)} \cup Range(Tail(q))
<1>. PICK n \in Nat : n = Len(q)
  BY LenProperties
<1>1. /\ DOMAIN q = 1..n /\ \A i \in 1..n : q[i] \in Setups
  BY LenProperties, ElementOfSeq
<1>2. /\ Append(q, s) \in Seq(Setups) /\ DOMAIN Append(q, s) = 1..(n + 1)
      /\ \A i \in 1..n : Append(q, s)[i] = q[i]
      /\ Append(q, s)[n + 1] = s
  BY AppendProperties, LenProperties
<1>3. Range(Append(q, s)) = Range(q) \cup {s}
  BY <1>1, <1>2 DEF Range
<1>4. ASSUME q # << >>
      PROVE  /\ Head(q) \in Setups \cap Range(q)
             /\ Tail(q) \in Seq(Setups)
             /\ Range(Tail(q)) \subseteq Range(q)
             /\ Range(q) \subseteq {Head(q)} \cup Range(Tail(q))
  <2>1. /\ n \in Nat \ {0} /\ Head(q) = q[1] /\ Tail(q) \in Seq(Setups) /\ DOMAIN Tail(q) = 1..(n - 1)
        /\ \A i \in 1..(n - 1) : Tail(q)[i] = q[i + 1]
    BY <1>1, <1>4, HeadTailProperties, EmptySeq, LenProperties
  <2>2. Head(q) \in Setups \cap Range(q)
    BY <1>1, <2>1 DEF Range
  <2>3. Range(Tail(q)) \subseteq Range(q)
    <3>1. \A i \in 1..(n - 1) : i + 1 \in 1..n
      BY <2>1
    <3>. QED
      BY <1>1, <2>1, <3>1 DEF Range
  <2>4. Range(q) \subseteq {Head(q)} \cup Range(Tail(q))
    <3>1. ASSUME NEW i \in 1..n PROVE q[i] \in {Head(q)} \cup Range(Tail(q))
      <4>1. CASE i = 1
        BY <2>1, <4>1
      <4>2. CASE i # 1
        <5>1. i - 1 \in 1..(n - 1) /\ (i - 1) + 1 = i
          BY <4>2
        <5>2. q[i] = Tail(q)[i - 1]
          BY <2>1, <5>1
        <5>. QED
          BY <2>1, <5>1, <5>2 DEF Range
      <4>. QED
        BY <4>1, <4>2
    <3>. QED
      BY <1>1, <3>1 DEF Range
  <2>. QED
    BY <2>1, <2>2, <2>3, <2>4
<1>. QED
  BY <1>2, <1>3, <1>4

\* The fields of a document that is saved with another state.
LEMMA DocSaved ==
  ASSUME NEW d \in Docs, NEW state \in States
  PROVE  /\ [d EXCEPT !.state = state] \in Docs
         /\ [d EXCEPT !.state = state].state = state
         /\ [d EXCEPT !.state = state].cancel = d.cancel
         /\ [d EXCEPT !.state = state].worker = d.worker
  BY DEF Docs

---------------------------------------------------------------------------
(* Types *)

\* The types of everything but the routing tables and guided_profile_id.
ServiceTypes ==
    /\ doc \in [Setups -> Docs]
    /\ order \in Seq(Setups)
    /\ rows \subseteq Setups
    /\ budget \in [Costly -> Nat]
    /\ up \in BOOLEAN
    /\ queue \in Seq(Setups)
    /\ runner \in Setups \cup {NoSetup}
    /\ pc \in {"idle", "creating", "recording", "starting", "qualifying",
               "cooling-start", "cooling-qualify", "stopping"}
    /\ mem \in Docs
    /\ copy \in [Setups -> Docs]
    /\ pub \in [Setups -> Publications]
    /\ stranded \subseteq Setups
    /\ runner = NoSetup <=> pc = "idle"

\* What a step spends is a natural number left.
LEMMA SpendTypes == ASSUME ServiceTypes, NEW what \in Costly, Spend(what) PROVE budget' \in [Costly -> Nat]
  BY DEF ServiceTypes, Spend, Costly

\* A step that changes only the document of a setup, and tasks.
LEMMA SavedTypes ==
  ASSUME ServiceTypes, NEW s \in Setups, NEW d \in Docs, Save(s, d) PROVE doc' \in [Setups -> Docs]
  BY DEF ServiceTypes, Save

\* A setup whose task runs.
LEMMA RunnerIsSetup ==
  ASSUME ServiceTypes PROVE \A label : At(label) /\ label # "idle" => runner \in Setups
  BY DEF ServiceTypes, At

LEMMA ScheduleTypes ==
  ASSUME ServiceTypes, NEW s \in Setups, Schedule(s) PROVE queue' \in Seq(Setups)
  BY Queues DEF ServiceTypes, Schedule

LEMMA TaskTypes == ASSUME ServiceTypes, Task PROVE ServiceTypes'
<1>. USE SetupAssumption DEF ServiceTypes
<1>0. /\ NewDoc \in Docs
      /\ \A d \in Docs : \A state \in States : [d EXCEPT !.state = state] \in Docs
      /\ \A d \in Docs : \A state \in States : [d EXCEPT !.worker = TRUE, !.state = state] \in Docs
      /\ \A s \in Setups : doc[s] \in Docs
      /\ \A state \in Unfinished \cup Settled : state \in States
  BY DEF NewDoc, Docs, States
<1>1. ASSUME NEW s \in Setups, NEW state \in Unfinished \cup Settled, NEW d \in Docs, Transition(s, d, state)
      PROVE  doc' \in [Setups -> Docs]
  BY <1>0, <1>1, SavedTypes DEF Transition
<1>2. ASSUME NEW s \in Setups, mem' \in Docs, Save(s, mem')
      PROVE  doc' \in [Setups -> Docs]
  BY <1>2, SavedTypes
<1>3. ASSUME TakesLock, ServiceTypes
      PROVE  Head(queue) \in Setups /\ Tail(queue) \in Seq(Setups) /\ runner = NoSetup
  BY <1>3, Queues DEF TakesLock
<1>4. \A label : At(label) /\ label # "idle" => runner \in Setups
  BY DEF At
<1>5. Finish => runner' = NoSetup /\ pc' = "idle" /\ mem' \in Docs /\ queue' = queue
  BY <1>0 DEF Finish
<1>6. CASE BeginNothing
  BY <1>3, <1>6 DEF BeginNothing, storeVars, requestVars
<1>7. CASE BeginCancelled
  <2>1. PICK s \in Setups : s = Head(queue)
    BY <1>3, <1>7 DEF BeginCancelled
  <2>2. /\ queue' \in Seq(Setups) /\ UNCHANGED <<order, rows, requestVars, up, budget>>
        /\ \/ runner' = s /\ pc' = "stopping" /\ mem' = doc[s] /\ UNCHANGED doc
           \/ Transition(s, doc[s], "cancelled") /\ UNCHANGED <<runner, pc, mem>>
    BY <1>3, <1>7, <2>1 DEF BeginCancelled
  <2>3. doc' \in [Setups -> Docs]
    BY <1>0, <1>1, <2>2 DEF Settled
  <2>4. mem' \in Docs /\ runner' \in Setups \cup {NoSetup} /\ (runner' = NoSetup <=> pc' = "idle")
    <3>1. CASE runner' = s /\ pc' = "stopping" /\ mem' = doc[s]
      BY <1>0, <3>1
    <3>2. CASE UNCHANGED <<runner, pc, mem>>
      BY <3>2
    <3>. QED
      BY <2>2, <3>1, <3>2
  <2>5. pc' \in {"idle", "creating", "recording", "starting", "qualifying",
                 "cooling-start", "cooling-qualify", "stopping"}
    BY <2>2
  <2>. QED
    BY <2>2, <2>3, <2>4, <2>5 DEF requestVars
<1>8. CASE Begin
  <2>1. PICK s \in Setups : s = Head(queue)
    BY <1>3, <1>8 DEF Begin
  <2>2. PICK state \in {"starting-worker", "creating-worker"} :
            mem' = [doc[s] EXCEPT !.state = state] /\ Transition(s, doc[s], state)
    BY <1>8, <2>1 DEF Begin
  <2>3. /\ queue' \in Seq(Setups) /\ UNCHANGED <<order, rows, requestVars, up, budget>>
        /\ runner' = s /\ pc' \in {"starting", "creating"}
    BY <1>3, <1>8, <2>1 DEF Begin
  <2>4. mem' \in Docs /\ doc' \in [Setups -> Docs]
    BY <1>0, <1>1, <2>2 DEF Unfinished
  <2>. QED
    BY <2>3, <2>4 DEF requestVars
<1>9. CASE CreatesWorker
  BY <1>4, <1>9 DEF CreatesWorker, Goto, requestVars
<1>10. CASE RecordsWorker
  <2>1. mem' \in Docs
    BY <1>0, <1>10 DEF RecordsWorker, Unfinished
  <2>2. runner \in Setups
    BY <1>4, <1>10 DEF RecordsWorker
  <2>. QED
    BY <1>2, <1>10, <2>1, <2>2 DEF RecordsWorker, Goto, requestVars
<1>11. CASE Started
  <2>1. mem' \in Docs
    BY <1>0, <1>11 DEF Started, Unfinished
  <2>2. runner \in Setups
    BY <1>4, <1>11 DEF Started
  <2>. QED
    BY <1>2, <1>11, <2>1, <2>2 DEF Started, Goto, requestVars
<1>12. CASE StartRefused \/ QualifyRefused
  <2>0. mem' = [mem EXCEPT !.state = "waiting-for-thermal-capacity"] /\ runner \in Setups
    BY <1>4, <1>12 DEF StartRefused, QualifyRefused, Pauses
  <2>1. mem' \in Docs /\ runner \in Setups
    BY <2>0, DocSaved DEF States, Unfinished, Pausable
  <2>2. doc' \in [Setups -> Docs] /\ budget' \in [Costly -> Nat]
    BY <1>2, <1>12, <2>1, SpendTypes DEF StartRefused, QualifyRefused, Pauses, Costly
  <2>3. UNCHANGED <<order, rows, requestVars, up, queue, runner>> /\ pc' \in {"cooling-start", "cooling-qualify"}
    BY <1>12 DEF StartRefused, QualifyRefused, Pauses, Goto
  <2>. QED
    BY <2>1, <2>2, <2>3 DEF requestVars
<1>13. CASE StartAgain \/ QualifyAgain
  <2>1. runner \in Setups
    BY <1>4, <1>13 DEF StartAgain, QualifyAgain, Resumes
  <2>0. PICK state \in {"starting-worker", "qualifying"} : mem' = [doc[runner] EXCEPT !.state = state]
    BY <1>13 DEF StartAgain, QualifyAgain, Resumes
  <2>2. mem' \in Docs
    BY <1>0, <2>0, <2>1, DocSaved DEF Unfinished
  <2>3. doc' \in [Setups -> Docs]
    BY <1>2, <1>13, <2>1, <2>2 DEF StartAgain, QualifyAgain, Resumes
  <2>4. /\ UNCHANGED <<order, rows, requestVars, up, budget, queue, runner>>
        /\ pc' \in {"starting", "qualifying"}
    BY <1>13 DEF StartAgain, QualifyAgain, Resumes, Goto
  <2>. QED
    BY <2>1, <2>2, <2>3, <2>4 DEF requestVars
<1>14. CASE Qualified \/ WorkerStopped
  <2>1. runner \in Setups
    BY <1>4, <1>14 DEF Qualified, WorkerStopped
  <2>2. doc' \in [Setups -> Docs]
    BY <1>1, <1>14, <2>1 DEF Qualified, WorkerStopped, Settled
  <2>. QED
    BY <1>5, <1>14, <2>2 DEF Qualified, WorkerStopped, requestVars
<1>15. CASE RunFails
  <2>1. runner \in Setups
    BY <1>4, <1>15 DEF RunFails
  <2>2. doc' \in [Setups -> Docs]
    BY <1>0, <1>1, <1>15, <2>1 DEF RunFails, Settled
  <2>. QED
    BY <1>5, <1>15, <2>2 DEF RunFails, requestVars
<1>16. CASE CancelledInPause
  <2>1. runner \in Setups
    BY <1>4, <1>16 DEF CancelledInPause
  <2>2. \/ mem' = doc[runner] /\ Goto("stopping") /\ UNCHANGED doc
        \/ Transition(runner, doc[runner], "cancelled") /\ Finish
    BY <1>16 DEF CancelledInPause, Cancels
  <2>3. doc' \in [Setups -> Docs]
    BY <1>0, <1>1, <2>1, <2>2 DEF Settled
  <2>4. /\ UNCHANGED <<order, rows, requestVars, up, budget>> /\ queue' = queue
        /\ mem' \in Docs /\ runner' \in Setups \cup {NoSetup}
        /\ \/ runner' = runner /\ pc' = "stopping"
           \/ runner' = NoSetup /\ pc' = "idle"
    <3>1. UNCHANGED <<order, rows, requestVars, up, budget>>
      BY <1>16 DEF CancelledInPause
    <3>2. CASE Finish
      BY <1>5, <3>1, <3>2
    <3>3. CASE mem' = doc[runner] /\ Goto("stopping")
      BY <1>0, <2>1, <3>1, <3>3 DEF Goto
    <3>. QED
      BY <2>2, <3>2, <3>3
  <2>. QED
    BY <2>1, <2>3, <2>4 DEF requestVars
<1>. QED
  BY <1>6, <1>7, <1>8, <1>9, <1>10, <1>11, <1>12, <1>13, <1>14, <1>15, <1>16 DEF Task

LEMMA RequestTypes ==
  ASSUME ServiceTypes, NEW s \in Setups,
         CreateSetup(s) \/ Poll(s) \/ Retry(s) \/ CancelRequested(s) \/ CancelSettled(s)
           \/ CancelStops(s) \/ CancelStopped(s)
  PROVE  ServiceTypes'
<1>. USE DEF ServiceTypes
<1>1. /\ NewDoc \in Docs
      /\ \A d \in Docs : \A state \in Unfinished \cup Settled : [d EXCEPT !.state = state] \in Docs
      /\ \A d \in Docs : [d EXCEPT !.cancel = TRUE] \in Docs
      /\ \A d \in Docs : [d EXCEPT !.state = "queued", !.cancel = FALSE] \in Docs
      /\ doc[s] \in Docs /\ copy[s] \in Docs
  BY DEF NewDoc, Docs, States, Unfinished, Pausable
<1>2. ASSUME NEW state \in Unfinished \cup Settled, NEW d \in Docs, Transition(s, d, state)
      PROVE  doc' \in [Setups -> Docs]
  BY <1>1, <1>2, SavedTypes DEF Transition
<1>3. CASE CreateSetup(s)
  <2>1. doc' \in [Setups -> Docs]
    BY <1>1, <1>2, <1>3 DEF CreateSetup, Unfinished, Pausable
  <2>. QED
    BY <1>3, <2>1, Queues, ScheduleTypes DEF CreateSetup, requestVars
<1>4. CASE Poll(s)
  BY <1>4, ScheduleTypes DEF Poll, storeVars, requestVars
<1>5. CASE Retry(s)
  <2>1. doc' \in [Setups -> Docs]
    BY <1>1, <1>5, SavedTypes DEF Retry
  <2>2. budget' \in [Costly -> Nat]
    BY <1>5, SpendTypes DEF Retry, Costly
  <2>. QED
    BY <1>5, <2>1, <2>2, ScheduleTypes DEF Retry, requestVars
<1>6. CASE CancelRequested(s)
  <2>1. doc' \in [Setups -> Docs]
    BY <1>1, <1>6, SavedTypes DEF CancelRequested
  <2>2. budget' \in [Costly -> Nat]
    BY <1>6, SpendTypes DEF CancelRequested, Costly
  <2>. QED
    BY <1>6, <2>1, <2>2 DEF CancelRequested, requestVars, taskVars
<1>7. CASE CancelSettled(s)
  <2>1. doc' \in [Setups -> Docs]
    BY <1>1, <1>2, <1>7 DEF CancelSettled, Settled
  <2>2. budget' \in [Costly -> Nat]
    BY <1>7, SpendTypes DEF CancelSettled, Costly
  <2>. QED
    BY <1>7, <2>1, <2>2 DEF CancelSettled, requestVars, taskVars
<1>8. CASE CancelStops(s)
  <2>1. budget' \in [Costly -> Nat]
    BY <1>8, SpendTypes DEF CancelStops, Costly
  <2>. QED
    BY <1>1, <1>8, <2>1 DEF CancelStops, storeVars, taskVars
<1>9. CASE CancelStopped(s)
  <2>1. doc' \in [Setups -> Docs]
    BY <1>1, <1>2, <1>9 DEF CancelStopped, Settled
  <2>. QED
    BY <1>1, <1>9, <2>1 DEF CancelStopped, taskVars
<1>. QED
  BY <1>3, <1>4, <1>5, <1>6, <1>7, <1>8, <1>9

\* A publication that goes on to another step, or ends.
LEMMA PubTypes ==
  ASSUME ServiceTypes, NEW s \in Setups
  PROVE  /\ \A step \in Steps : PubGoto(s, step) => pub' \in [Setups -> Publications]
         /\ PubEnds(s) => pub' \in [Setups -> Publications]
         /\ NoPublication \in Publications
<1>1. NoPublication \in Publications
  BY DEF NoPublication, Publications, Steps, NewDoc, Docs, States
<1>2. \A x \in Publications : \A step \in Steps : [x EXCEPT !.at = step] \in Publications
  BY DEF Publications
<1>3. ASSUME NEW step \in Steps, PubGoto(s, step) PROVE pub' \in [Setups -> Publications]
  <2>1. pub' = [pub EXCEPT ![s] = [pub[s] EXCEPT !.at = step]]
    BY <1>3 DEF PubGoto
  <2>. QED
    BY <1>2, <2>1 DEF ServiceTypes
<1>. QED
  BY <1>1, <1>3 DEF ServiceTypes, PubEnds

LEMMA PublishTypes ==
  ASSUME SetupInv, ServiceTypes, NEW s \in Setups, NEW n \in Names, Publish(s, n) PROVE ServiceTypes'
<1>. USE DEF ServiceTypes
<1>. DEFINE P == [at |-> "draft", read |-> doc[s], profile |-> Target(s),
                  after |-> After(s, n), previous |-> live,
                  todo |-> {p \in Profiles : live[p] # 0}]
<1>1. P \in Publications
  BY AfterIsDocument DEF Publications, Steps, SetupInv, RoutingInv, RoutingTypeOK
<1>2. pub' = [pub EXCEPT ![s] = P] /\ Transition(s, doc[s], "publishing")
  BY DEF Publish
<1>3. doc' \in [Setups -> Docs]
  BY <1>2, DocSaved, SavedTypes DEF Transition, States, Publishing
<1>4. pub' \in [Setups -> Publications]
  BY <1>1, <1>2
<1>. QED
  BY <1>3, <1>4 DEF Publish, taskVars

LEMMA PublicationTypes ==
  ASSUME ServiceTypes, NEW s \in Setups, Publication(s) PROVE ServiceTypes'
<1>. USE DEF ServiceTypes
<1>1. /\ \A d \in Docs : \A state \in Settled \cup Publishing : [d EXCEPT !.state = state] \in Docs
      /\ pub[s].read \in Docs
  BY DEF Docs, States, Publications
<1>2. \A state \in Settled \cup Publishing : Transition(s, pub[s].read, state) => doc' \in [Setups -> Docs]
  BY <1>1, SavedTypes DEF Transition
<1>3. CASE PublishesDraft(s) \/ PublishesRevision(s) \/ SmokeFails(s)
  BY <1>3, PubTypes DEF PublishesDraft, PublishesRevision, SmokeFails, Steps, storeVars, taskVars
<1>4. CASE SetsGuided(s)
  BY <1>4, PubTypes DEF SetsGuided, Steps, taskVars
<1>5. CASE PublishConflicts(s) \/ SmokePasses(s) \/ RolledBack(s)
  <2>1. doc' \in [Setups -> Docs] /\ pub' \in [Setups -> Publications]
    BY <1>2, <1>5, PubTypes DEF PublishConflicts, SmokePasses, RolledBack, Settled
  <2>. QED
    BY <1>5, <2>1 DEF PublishConflicts, SmokePasses, RolledBack, taskVars
<1>6. CASE BeginsSmoke(s)
  <2>1. doc' \in [Setups -> Docs] /\ pub' \in [Setups -> Publications]
    BY <1>2, <1>6, PubTypes DEF BeginsSmoke, Publishing, Steps
  <2>. QED
    BY <1>6, <2>1 DEF BeginsSmoke, taskVars
<1>7. ASSUME NEW p \in Profiles, Restores(s, p) PROVE ServiceTypes'
  <2>1. pub' = [pub EXCEPT ![s] = [pub[s] EXCEPT !.todo = pub[s].todo \ {p}]]
    BY <1>7 DEF Restores
  <2>2. [pub[s] EXCEPT !.todo = pub[s].todo \ {p}] \in Publications
    BY DEF Publications
  <2>3. pub' \in [Setups -> Publications]
    BY <2>1, <2>2
  <2>. QED
    BY <1>7, <2>3 DEF Restores, storeVars, taskVars
<1>8. ASSUME NEW p \in Profiles, RestoreRaises(s, p) PROVE ServiceTypes'
  BY <1>8, PubTypes DEF RestoreRaises, storeVars, taskVars
<1>9. CASE SmokeRaises(s)
  BY <1>9, PubTypes DEF SmokeRaises, storeVars, taskVars
<1>. QED
  BY <1>3, <1>4, <1>5, <1>6, <1>7, <1>8, <1>9 DEF Publication

\* A function over 1..n is a sequence.
LEMMA SequenceIsFunction == ASSUME NEW n \in Nat, NEW S, NEW q \in [1..n -> S] PROVE q \in Seq(S)
  BY SeqDef

\* What a start makes of a setup, and the queue it schedules.
LEMMA RestartTypes ==
  ASSUME ServiceTypes, Restarts
  PROVE  /\ ServiceTypes'
         /\ \A s \in Setups : doc'[s] = [doc[s] EXCEPT !.state = Reconciled(s)] /\ Reconciled(s) \in States
         /\ Range(queue') = Backlog
<1>. USE DEF ServiceTypes
<1>1. ASSUME NEW s \in Setups PROVE doc[s] \in Docs /\ Reconciled(s) \in States
  <2>1. doc[s] \in Docs /\ doc[s].state \in States
    BY DEF Docs
  <2>. QED
    BY <2>1 DEF Reconciled, States, Unfinished, Pausable, Publishing, Settled
<1>2. doc' = [s \in Setups |-> [doc[s] EXCEPT !.state = Reconciled(s)]]
  BY DEF Restarts
<1>3. doc' \in [Setups -> Docs]
  BY <1>1, <1>2, DocSaved
<1>4. Backlog \subseteq Setups
  <2>1. Range(order) \subseteq Setups
    BY LenProperties, ElementOfSeq DEF Range
  <2>. QED
    BY <2>1 DEF Backlog
<1>5. Cardinality(Backlog) \in Nat
  BY <1>4, SetupAssumption, FS_Subset, FS_CardinalityType
<1>6. PICK q \in [1..Cardinality(Backlog) -> Backlog] : Range(q) = Backlog /\ queue' = q
  BY DEF Restarts
<1>7. queue' \in Seq(Setups)
  <2>1. q \in [1..Cardinality(Backlog) -> Setups]
    BY <1>4, <1>6
  <2>. QED
    BY <1>5, <1>6, <2>1, SequenceIsFunction
<1>. QED
  BY <1>1, <1>2, <1>3, <1>6, <1>7 DEF Restarts, requestVars

\* Every step keeps the types of the service.
LEMMA ServiceStep == SetupInv /\ ServiceTypes /\ [Next]_vars => ServiceTypes'
<1> SUFFICES ASSUME SetupInv, ServiceTypes, [Next]_vars PROVE ServiceTypes'
  OBVIOUS
<1>1. CASE Task
  BY <1>1, TaskTypes
<1>2. ASSUME NEW s \in Setups, Asked(s) \/ CancelStopped(s) PROVE ServiceTypes'
  <2>1. Wanted[s] \subseteq Names
    BY SetupAssumption
  <2>. QED
    BY <1>2, <2>1, RequestTypes, PublishTypes DEF Asked
<1>3. ASSUME NEW s \in Setups, Publication(s) PROVE ServiceTypes'
  BY <1>3, PublicationTypes
<1>4. ASSUME NEW p \in Profiles, Edit(p) PROVE ServiceTypes'
  <2>1. budget' \in [Costly -> Nat]
    BY <1>4, SpendTypes DEF Edit, Costly
  <2>. QED
    BY <1>4, <2>1 DEF Edit, storeVars, taskVars, requestVars, ServiceTypes
<1>5. CASE Stops
  <2>1. budget' \in [Costly -> Nat]
    BY <1>5, SpendTypes DEF Stops, Costly
  <2>2. NewDoc \in Docs /\ NoPublication \in Publications
    BY PubTypes DEF NoPublication, Publications, Steps, NewDoc, Docs, States
  <2>3. << >> \in Seq(Setups)
    BY EmptySeq
  <2>4. copy' \in [Setups -> Docs] /\ pub' \in [Setups -> Publications]
    BY <1>5, <2>2 DEF Stops
  <2>. QED
    BY <1>5, <2>1, <2>2, <2>3, <2>4 DEF Stops, storeVars, ServiceTypes
<1>6. CASE Restarts
  BY <1>6, RestartTypes
<1>7. CASE UNCHANGED vars
  BY <1>7 DEF vars, storeVars, taskVars, requestVars, ServiceTypes
<1>. QED
  BY <1>1, <1>2, <1>3, <1>4, <1>5, <1>6, <1>7 DEF Next

---------------------------------------------------------------------------
(* What steps write *)

LEMMA Saves ==
  ASSUME ServiceTypes, NEW s \in Setups, NEW d \in Docs, Save(s, d)
  PROVE  doc'[s] = d /\ \A z \in Setups \ {s} : doc'[z] = doc[z]
  BY DEF ServiceTypes, Save

LEMMA Transitions ==
  ASSUME ServiceTypes, NEW s \in Setups, NEW d \in Docs, NEW state \in States, Transition(s, d, state)
  PROVE  /\ doc'[s].state = state /\ doc'[s].worker = d.worker /\ doc'[s].cancel = d.cancel
         /\ \A z \in Setups \ {s} : doc'[z] = doc[z]
<1>1. [d EXCEPT !.state = state] \in Docs
  BY DocSaved
<1>2. doc'[s] = [d EXCEPT !.state = state] /\ \A z \in Setups \ {s} : doc'[z] = doc[z]
  BY <1>1, Saves DEF Transition
<1>. QED
  BY <1>2, DocSaved

\* The document of one setup may be written, those of the others stay.
OnlyDoc(s) == \A z \in Setups \ {s} : doc'[z] = doc[z]

\* A task takes the lock for s and has nothing to do, or stops at once.
Drops(s) ==
    /\ queue # << >> /\ s = Head(queue) /\ queue' = Tail(queue)
    /\ runner = NoSetup /\ UNCHANGED <<runner, pc>>
    /\ doc'[s].worker = doc[s].worker
    /\ doc'[s].state = "cancelled" \/ (doc'[s] = doc[s] /\ doc[s].state \notin Pausable)

\* A task takes the lock for s, to stop its Worker or to work.
Begins(s) ==
    /\ queue # << >> /\ s = Head(queue) /\ queue' = Tail(queue)
    /\ runner = NoSetup /\ runner' = s
    /\ mem' = doc'[s] /\ doc'[s].worker = doc[s].worker
    /\ \/ pc' = "stopping" /\ doc'[s] = doc[s] /\ doc[s].worker
       \/ /\ pc' \in {"starting", "creating"} /\ ~doc[s].cancel
          /\ doc'[s].state \in Working
          /\ pc' = "starting" => doc[s].worker

\* The task of s goes on.
Works(s) ==
    /\ runner = s /\ UNCHANGED <<runner, queue>>
    /\ \/ pc = "creating" /\ pc' = "recording" /\ UNCHANGED <<doc, mem>>
       \/ /\ pc = "recording" /\ pc' = "starting"
          /\ mem' = doc'[s] /\ doc'[s].worker /\ doc'[s].state \in Working
       \/ /\ pc \in {"starting", "qualifying"} /\ pc' \in {"qualifying", "cooling-start", "cooling-qualify"}
          /\ mem' = doc'[s] /\ doc'[s].worker = mem.worker /\ doc'[s].state \in Unfinished
          /\ pc' # "qualifying" => doc'[s].state \notin Working
       \/ /\ pc \in {"cooling-start", "cooling-qualify"} /\ pc' \in {"starting", "qualifying"}
          /\ ~doc[s].cancel
          /\ mem' = doc'[s] /\ doc'[s].worker = doc[s].worker /\ doc'[s].state \in Working
       \/ /\ pc \in {"cooling-start", "cooling-qualify"} /\ pc' = "stopping"
          /\ mem' = doc[s] /\ doc'[s] = doc[s]

\* The task of s ends.
Ends(s) ==
    /\ runner = s /\ runner' = NoSetup /\ pc # "recording" /\ pc' = "idle" /\ queue' = queue
    /\ doc'[s].state \in {"awaiting-publication", "failed", "cancelled"}
    /\ \/ doc'[s].worker = doc[s].worker /\ doc'[s].state # "awaiting-publication"
       \/ pc \in WithWorker /\ doc'[s].worker = mem.worker

\* What a task does while no handler is in the middle of its commits.
LEMMA TaskKinds ==
  ASSUME ServiceTypes, Task
  PROVE  /\ up /\ UNCHANGED <<up, order, copy, pub, stranded, routingVars>>
         /\ \A s \in Setups : ~Committing(s)
         /\ \E s \in Setups : OnlyDoc(s) /\ (Drops(s) \/ Begins(s) \/ Works(s) \/ Ends(s))
<1>. DEFINE Goal == /\ up /\ UNCHANGED <<up, order, copy, pub, stranded, routingVars>>
                    /\ \A s \in Setups : ~Committing(s)
                    /\ \E s \in Setups : OnlyDoc(s) /\ (Drops(s) \/ Begins(s) \/ Works(s) \/ Ends(s))
<1>0. /\ mem \in Docs /\ \A s \in Setups : doc[s] \in Docs
      /\ Unfinished \cup Settled \subseteq States
  BY DEF ServiceTypes, States
<1>1. ASSUME TakesLock
      PROVE  /\ Head(queue) \in Setups /\ queue # << >> /\ runner = NoSetup /\ up
             /\ \A s \in Setups : ~Committing(s)
  BY <1>1, Queues DEF TakesLock, Busy, ServiceTypes
<1>2. \A label : At(label) /\ label # "idle" =>
         runner \in Setups /\ pc = label /\ up /\ \A s \in Setups : ~Committing(s)
  BY DEF At, ServiceTypes
<1>3. CASE BeginNothing
  <2>1. PICK s \in Setups : s = Head(queue)
    BY <1>1, <1>3 DEF BeginNothing
  <2>2. OnlyDoc(s) /\ Drops(s)
    BY <1>1, <1>3, <2>1 DEF BeginNothing, OnlyDoc, Drops, storeVars
  <2>. QED
    BY <1>1, <1>3, <2>2 DEF BeginNothing, storeVars, requestVars
<1>4. CASE BeginCancelled
  <2>1. PICK s \in Setups : s = Head(queue)
    BY <1>1, <1>4 DEF BeginCancelled
  <2>2. CASE doc[s].worker /\ runner' = s /\ pc' = "stopping" /\ mem' = doc[s] /\ UNCHANGED doc
    <3>1. OnlyDoc(s) /\ Begins(s)
      BY <1>1, <1>4, <2>1, <2>2 DEF BeginCancelled, OnlyDoc, Begins
    <3>. QED
      BY <1>1, <1>4, <3>1 DEF BeginCancelled, requestVars
  <2>3. CASE Transition(s, doc[s], "cancelled") /\ UNCHANGED <<runner, pc, mem>>
    <3>1. doc'[s].state = "cancelled" /\ doc'[s].worker = doc[s].worker /\ OnlyDoc(s)
      BY <1>0, <2>3, Transitions DEF OnlyDoc, Settled
    <3>2. Drops(s)
      BY <1>1, <1>4, <2>1, <2>3, <3>1 DEF BeginCancelled, Drops
    <3>. QED
      BY <1>1, <1>4, <3>1, <3>2 DEF BeginCancelled, requestVars
  <2>. QED
    BY <1>4, <2>1, <2>2, <2>3 DEF BeginCancelled
<1>5. CASE Begin
  <2>1. PICK s \in Setups : s = Head(queue)
    BY <1>1, <1>5 DEF Begin
  <2>2. PICK state \in {"starting-worker", "creating-worker"} :
          /\ mem' = [doc[s] EXCEPT !.state = state] /\ Transition(s, doc[s], state)
    BY <1>5, <2>1 DEF Begin
  <2>3. state \in States /\ state \in Working
    BY DEF States, Working, Unfinished, Pausable
  <2>4. mem' = doc'[s]
    BY <1>0, <2>2, <2>3, DocSaved, Saves DEF Transition
  <2>5. doc'[s].state = state /\ doc'[s].worker = doc[s].worker /\ OnlyDoc(s)
    BY <1>0, <2>2, <2>3, Transitions DEF OnlyDoc
  <2>6. /\ ~doc[s].cancel /\ runner' = s /\ queue' = Tail(queue)
        /\ pc' = IF doc[s].worker THEN "starting" ELSE "creating"
    BY <1>5, <2>1 DEF Begin
  <2>7. Begins(s)
    BY <1>1, <1>5, <2>1, <2>3, <2>4, <2>5, <2>6 DEF Begin, Begins
  <2>. QED
    BY <1>1, <1>5, <2>5, <2>7 DEF Begin, requestVars
<1>6. CASE CreatesWorker
  <2>1. OnlyDoc(runner) /\ Works(runner)
    BY <1>2, <1>6 DEF CreatesWorker, OnlyDoc, Works, Goto
  <2>. QED
    BY <1>2, <1>6, <2>1 DEF CreatesWorker, requestVars
<1>7. CASE RecordsWorker
  <2>0. runner \in Setups /\ pc = "recording"
    BY <1>2, <1>7 DEF RecordsWorker
  <2>1. mem' = [mem EXCEPT !.worker = TRUE, !.state = "starting-worker"] /\ Save(runner, mem')
    BY <1>7 DEF RecordsWorker
  <2>2. mem' \in Docs /\ mem'.worker /\ mem'.state = "starting-worker"
    BY <1>0, <2>1 DEF Docs, Unfinished
  <2>3. OnlyDoc(runner) /\ doc'[runner] = mem'
    BY <2>0, <2>1, <2>2, Saves DEF OnlyDoc
  <2>4. Works(runner)
    BY <1>7, <2>0, <2>2, <2>3 DEF RecordsWorker, Works, Goto, Working, Unfinished, Pausable
  <2>. QED
    BY <1>2, <1>7, <2>3, <2>4 DEF RecordsWorker, requestVars
<1>8. ASSUME NEW from \in {"starting", "qualifying"}, At(from), NEW state \in Unfinished, NEW to,
             mem' = [mem EXCEPT !.state = state], Save(runner, mem'), Goto(to),
             \/ to = "qualifying"
             \/ to \in {"cooling-start", "cooling-qualify"} /\ state \notin Working
      PROVE  OnlyDoc(runner) /\ Works(runner) /\ runner \in Setups
  <2>1. mem' \in Docs /\ mem'.worker = mem.worker /\ mem'.state = state
    BY <1>0, <1>8, DocSaved
  <2>2. runner \in Setups /\ pc = from
    BY <1>2, <1>8
  <2>3. OnlyDoc(runner) /\ doc'[runner] = mem'
    BY <1>8, <2>1, <2>2, Saves DEF OnlyDoc
  <2>4. pc' = to /\ UNCHANGED <<queue, runner>>
    BY <1>8 DEF Goto
  <2>. QED
    BY <1>8, <2>1, <2>2, <2>3, <2>4 DEF Works
<1>9. CASE Started
  <2>1. OnlyDoc(runner) /\ Works(runner) /\ runner \in Setups
    BY <1>8, <1>9 DEF Started, Unfinished
  <2>. QED
    BY <1>2, <1>9, <2>1 DEF Started, requestVars
<1>10. CASE StartRefused \/ QualifyRefused
  <2>0. "waiting-for-thermal-capacity" \in Unfinished \ Working
    BY DEF Unfinished, Working, Pausable
  <2>1. OnlyDoc(runner) /\ Works(runner) /\ runner \in Setups
    BY <1>8, <1>10, <2>0 DEF StartRefused, QualifyRefused, Pauses
  <2>. QED
    BY <1>2, <1>10, <2>1 DEF StartRefused, QualifyRefused, Pauses, requestVars
<1>11. CASE StartAgain \/ QualifyAgain
  <2>0. runner \in Setups /\ pc \in {"cooling-start", "cooling-qualify"}
    BY <1>2, <1>11 DEF StartAgain, QualifyAgain, Resumes
  <2>1. PICK state \in {"starting-worker", "qualifying"} : mem' = [doc[runner] EXCEPT !.state = state]
    BY <1>11 DEF StartAgain, QualifyAgain, Resumes
  <2>2. mem' \in Docs /\ mem'.worker = doc[runner].worker /\ mem'.state \in Working
    BY <1>0, <2>0, <2>1, DocSaved DEF Working, Unfinished, Pausable
  <2>3. OnlyDoc(runner) /\ doc'[runner] = mem'
    BY <1>11, <2>0, <2>2, Saves DEF StartAgain, QualifyAgain, Resumes, OnlyDoc
  <2>4. ~doc[runner].cancel /\ pc' \in {"starting", "qualifying"} /\ UNCHANGED <<queue, runner>>
    BY <1>11 DEF StartAgain, QualifyAgain, Resumes, Goto
  <2>5. Works(runner)
    BY <2>0, <2>2, <2>3, <2>4 DEF Works
  <2>. QED
    BY <1>2, <1>11, <2>0, <2>3, <2>5 DEF StartAgain, QualifyAgain, Resumes, requestVars
<1>12. ASSUME NEW s \in Setups, s = runner, pc # "recording", Finish,
              \/ pc \in WithWorker /\ Transition(s, mem, "cancelled")
              \/ pc \in WithWorker /\ Transition(s, mem, "awaiting-publication")
              \/ Transition(s, doc[s], "cancelled")
              \/ Transition(s, doc[s], "failed")
       PROVE  OnlyDoc(s) /\ Ends(s)
  <2>1. runner' = NoSetup /\ pc' = "idle" /\ queue' = queue
    BY <1>12 DEF Finish
  <2>2. /\ OnlyDoc(s) /\ doc'[s].state \in {"awaiting-publication", "failed", "cancelled"}
        /\ \/ doc'[s].worker = doc[s].worker /\ doc'[s].state # "awaiting-publication"
           \/ pc \in WithWorker /\ doc'[s].worker = mem.worker
    <3>1. {"awaiting-publication", "failed", "cancelled"} \subseteq States
      BY <1>0 DEF Settled
    <3>. QED
      BY <1>0, <1>12, <3>1, Transitions DEF OnlyDoc
  <2>. QED
    BY <1>12, <2>1, <2>2 DEF Ends
<1>13. CASE Qualified \/ WorkerStopped \/ RunFails
  <2>1. runner \in Setups /\ pc # "recording" /\ up /\ \A s \in Setups : ~Committing(s)
    BY <1>2, <1>13 DEF Qualified, WorkerStopped, RunFails
  <2>2. /\ Finish
        /\ \/ pc \in WithWorker /\ Transition(runner, mem, "cancelled")
           \/ pc \in WithWorker /\ Transition(runner, mem, "awaiting-publication")
           \/ Transition(runner, doc[runner], "failed")
    BY <1>13, Zenon DEF Qualified, WorkerStopped, RunFails, WithWorker, At
  <2>3. OnlyDoc(runner) /\ Ends(runner)
    BY <1>12, <2>1, <2>2
  <2>. QED
    BY <1>13, <2>1, <2>3 DEF Qualified, WorkerStopped, RunFails, requestVars
<1>14. CASE CancelledInPause
  <2>1. /\ runner \in Setups /\ pc \in {"cooling-start", "cooling-qualify"}
        /\ up /\ \A s \in Setups : ~Committing(s)
    BY <1>2, <1>14 DEF CancelledInPause
  <2>4. OnlyDoc(runner) /\ (Works(runner) \/ Ends(runner))
    <3>1. CASE mem' = doc[runner] /\ Goto("stopping") /\ UNCHANGED doc
      BY <2>1, <3>1 DEF OnlyDoc, Works, Goto
    <3>2. CASE Transition(runner, doc[runner], "cancelled") /\ Finish
      BY <1>12, <2>1, <3>2
    <3>. QED
      BY <1>14, <3>1, <3>2 DEF CancelledInPause, Cancels
  <2>. QED
    BY <1>14, <2>1, <2>4 DEF CancelledInPause, requestVars
<1>. QED
  BY <1>3, <1>4, <1>5, <1>6, <1>7, <1>9, <1>10, <1>11, <1>13, <1>14 DEF Task

\* create_capability_setup, and requests that find a setup waiting or retry it.
Creates(s) ==
    /\ doc[s].state = "absent" /\ order' = Append(order, s) /\ copy' = copy /\ Schedule(s)
    /\ doc'[s].state = "queued" /\ ~doc'[s].worker

Polls(s) ==
    /\ doc[s].state \in Pausable /\ UNCHANGED <<order, copy>> /\ Schedule(s)
    /\ doc'[s] = doc[s]

Retries(s) ==
    /\ doc[s].state \in {"failed", "cancelled"} /\ UNCHANGED <<order, copy>> /\ Schedule(s)
    /\ doc'[s].state = "queued" /\ doc'[s].worker = doc[s].worker

\* Requests that cancel: a note for the task, the state, or after a stop.
Notes(s) ==
    /\ UNCHANGED <<order, copy, queue>>
    /\ doc[s].state \in Unfinished
    /\ doc'[s].state = doc[s].state /\ doc'[s].worker = doc[s].worker

Settles(s) ==
    /\ UNCHANGED <<order, copy, queue>>
    /\ doc[s].state \in Settled
    /\ doc'[s].state = "cancelled" /\ doc'[s].worker = doc[s].worker

Awaits(s) ==
    /\ UNCHANGED <<order, queue>>
    /\ doc[s].state \in Settled /\ doc[s].worker
    /\ doc'[s] = doc[s] /\ copy'[s] = doc[s] /\ \A z \in Setups \ {s} : copy'[z] = copy[z]

SettlesLate(s) ==
    /\ UNCHANGED <<order, queue>>
    /\ copy[s] # NewDoc /\ copy'[s] = NewDoc /\ \A z \in Setups \ {s} : copy'[z] = copy[z]
    /\ doc'[s].state = "cancelled" /\ doc'[s].worker = copy[s].worker

LEMMA RequestKinds ==
  ASSUME ServiceTypes, NEW s \in Setups,
         CreateSetup(s) \/ Poll(s) \/ Retry(s) \/ CancelRequested(s) \/ CancelSettled(s)
           \/ CancelStops(s) \/ CancelStopped(s)
  PROVE  /\ up /\ ~Busy /\ UNCHANGED <<up, runner, pc, mem, pub, stranded, routingVars>>
         /\ OnlyDoc(s)
         /\ \/ Creates(s) \/ Polls(s) \/ Retries(s)
            \/ Notes(s) \/ Settles(s) \/ Awaits(s) \/ SettlesLate(s)
<1>0. /\ doc[s] \in Docs /\ copy[s] \in Docs /\ NewDoc \in Docs /\ ~NewDoc.worker
      /\ {"queued", "cancelled"} \subseteq States
  BY DEF ServiceTypes, NewDoc, Docs, States, Unfinished, Pausable, Settled
<1>1. CASE CreateSetup(s)
  <2>1. doc'[s].state = "queued" /\ ~doc'[s].worker /\ OnlyDoc(s)
    BY <1>0, <1>1, Transitions DEF CreateSetup, OnlyDoc
  <2>. QED
    BY <1>1, <2>1 DEF CreateSetup, Creates, Request, requestVars
<1>2. CASE Poll(s)
  BY <1>2 DEF Poll, Polls, Request, OnlyDoc, storeVars, requestVars
<1>3. CASE Retry(s)
  <2>1. Save(s, [doc[s] EXCEPT !.state = "queued", !.cancel = FALSE])
    BY <1>3 DEF Retry
  <2>2. PICK d \in Docs : /\ d = [doc[s] EXCEPT !.state = "queued", !.cancel = FALSE]
                          /\ d.state = "queued" /\ d.worker = doc[s].worker
    <3>. DEFINE e == [doc[s] EXCEPT !.state = "queued", !.cancel = FALSE]
    <3>1. e \in Docs /\ e.state = "queued" /\ e.worker = doc[s].worker
      BY <1>0 DEF Docs
    <3>. QED
      BY <3>1
  <2>3. doc'[s] = d /\ OnlyDoc(s)
    BY <2>1, <2>2, Saves DEF OnlyDoc
  <2>4. /\ up /\ ~Busy /\ UNCHANGED <<up, runner, pc, mem, requestVars, order, routingVars>>
        /\ Schedule(s) /\ doc[s].state \in {"failed", "cancelled"}
    BY <1>3 DEF Retry, Request
  <2>. QED
    BY <2>2, <2>3, <2>4 DEF Retries, requestVars
<1>4. CASE CancelRequested(s)
  <2>1. Save(s, [doc[s] EXCEPT !.cancel = TRUE])
    BY <1>4 DEF CancelRequested
  <2>2. PICK d \in Docs : /\ d = [doc[s] EXCEPT !.cancel = TRUE]
                          /\ d.state = doc[s].state /\ d.worker = doc[s].worker
    <3>. DEFINE e == [doc[s] EXCEPT !.cancel = TRUE]
    <3>1. e \in Docs /\ e.state = doc[s].state /\ e.worker = doc[s].worker
      BY <1>0 DEF Docs
    <3>. QED
      BY <3>1
  <2>3. doc'[s] = d /\ OnlyDoc(s)
    BY <2>1, <2>2, Saves DEF OnlyDoc
  <2>4. /\ up /\ ~Busy /\ UNCHANGED <<up, taskVars, requestVars, order, routingVars>>
        /\ doc[s].state \in Unfinished
    BY <1>4 DEF CancelRequested, Request
  <2>. QED
    BY <2>2, <2>3, <2>4 DEF Notes, requestVars, taskVars
<1>5. CASE CancelSettled(s)
  <2>1. doc'[s].state = "cancelled" /\ doc'[s].worker = doc[s].worker /\ OnlyDoc(s)
    BY <1>0, <1>5, Transitions DEF CancelSettled, OnlyDoc
  <2>. QED
    BY <1>5, <2>1 DEF CancelSettled, Settles, Request, requestVars, taskVars
<1>6. CASE CancelStops(s)
  <2>1. copy'[s] = doc[s] /\ \A z \in Setups \ {s} : copy'[z] = copy[z]
    BY <1>6 DEF CancelStops, ServiceTypes
  <2>. QED
    BY <1>6, <2>1 DEF CancelStops, Awaits, OnlyDoc, Request, storeVars, taskVars
<1>7. CASE CancelStopped(s)
  <2>1. doc'[s].state = "cancelled" /\ doc'[s].worker = copy[s].worker /\ OnlyDoc(s)
    BY <1>0, <1>7, Transitions DEF CancelStopped, OnlyDoc
  <2>2. copy'[s] = NewDoc /\ \A z \in Setups \ {s} : copy'[z] = copy[z]
    BY <1>7 DEF CancelStopped, ServiceTypes
  <2>. QED
    BY <1>7, <2>1, <2>2 DEF CancelStopped, SettlesLate, Request, taskVars
<1>. QED
  BY <1>1, <1>2, <1>3, <1>4, <1>5, <1>6, <1>7

\* A publication takes its next step, or is over.
OnlyPub(s) == \A z \in Setups \ {s} : pub'[z] = pub[z]

Proceeds(s) ==
    /\ pub'[s].read = pub[s].read /\ pub'[s].profile = pub[s].profile
    /\ pub'[s].previous = pub[s].previous

LEMMA PubMoves ==
  ASSUME ServiceTypes, NEW s \in Setups
  PROVE  /\ \A step : PubGoto(s, step) =>
               OnlyPub(s) /\ Proceeds(s) /\ pub'[s].at = step /\ pub'[s].todo = pub[s].todo
         /\ PubEnds(s) => OnlyPub(s) /\ pub'[s].at = "none"
<1>0. pub[s] \in Publications
  BY DEF ServiceTypes
<1>1. ASSUME NEW step, PubGoto(s, step)
      PROVE  OnlyPub(s) /\ Proceeds(s) /\ pub'[s].at = step /\ pub'[s].todo = pub[s].todo
  <2>1. pub' = [pub EXCEPT ![s] = [pub[s] EXCEPT !.at = step]]
    BY <1>1 DEF PubGoto
  <2>2. pub'[s] = [pub[s] EXCEPT !.at = step] /\ OnlyPub(s)
    BY <2>1 DEF ServiceTypes, OnlyPub
  <2>. QED
    BY <1>0, <2>2 DEF Publications, Proceeds
<1>2. ASSUME PubEnds(s) PROVE OnlyPub(s) /\ pub'[s].at = "none"
  BY <1>2 DEF PubEnds, ServiceTypes, OnlyPub, NoPublication
<1>. QED
  BY <1>1, <1>2

LEMMA PublishWrites ==
  ASSUME ServiceTypes, NEW s \in Setups, NEW n \in Names, Publish(s, n)
  PROVE  /\ up /\ ~Busy /\ UNCHANGED <<up, order, taskVars, copy, stranded, routingVars>>
         /\ OnlyDoc(s) /\ OnlyPub(s)
         /\ doc[s].state = "awaiting-publication"
         /\ doc'[s].state = "publishing" /\ doc'[s].worker = doc[s].worker
         /\ pub'[s].at = "draft" /\ pub'[s].read = doc[s] /\ pub'[s].previous = live
         /\ pub'[s].todo = {p \in Profiles : live[p] # 0}
<1>. DEFINE P == [at |-> "draft", read |-> doc[s], profile |-> Target(s),
                  after |-> After(s, n), previous |-> live,
                  todo |-> {p \in Profiles : live[p] # 0}]
<1>1. pub' = [pub EXCEPT ![s] = P]
  BY DEF Publish
<1>2. pub'[s] = P /\ OnlyPub(s)
  BY <1>1 DEF ServiceTypes, OnlyPub
<1>3. doc'[s].state = "publishing" /\ doc'[s].worker = doc[s].worker /\ OnlyDoc(s)
  <2>1. doc[s] \in Docs /\ "publishing" \in States
    BY DEF ServiceTypes, States, Publishing
  <2>. QED
    BY <2>1, Transitions DEF Publish, OnlyDoc
<1>. QED
  BY <1>2, <1>3 DEF Publish, Request

\* A publication commits, begins or ends its smoke test, or rolls back.
Commits(s) ==
    /\ pub[s].at \in {"draft", "revision", "guided"} /\ doc' = doc /\ stranded' = stranded
    /\ Proceeds(s) /\ pub'[s].todo = pub[s].todo /\ pub'[s].at \in {"revision", "guided", "record"}

Conflicts(s) ==
    /\ pub[s].at = "revision" /\ pub'[s].at = "none" /\ stranded' = stranded
    /\ doc'[s].state = "awaiting-publication" /\ doc'[s].worker = pub[s].read.worker

Smokes(s) ==
    /\ pub[s].at = "record" /\ stranded' = stranded
    /\ Proceeds(s) /\ pub'[s].todo = pub[s].todo /\ pub'[s].at = "smoke"
    /\ doc'[s].state = "verifying-route" /\ doc'[s].worker = pub[s].read.worker

Succeeds(s) ==
    /\ pub[s].at = "smoke" /\ ~Busy /\ pub'[s].at = "none" /\ stranded' = stranded
    /\ doc'[s].state = "succeeded" /\ doc'[s].worker = pub[s].read.worker

RollsBack(s) ==
    /\ pub[s].at = "smoke" /\ ~Busy /\ doc' = doc /\ stranded' = stranded
    /\ Proceeds(s) /\ pub'[s].todo = pub[s].todo /\ pub'[s].at = "restore"
    /\ Deactivate(pub[s].profile)

Reactivates(s) ==
    /\ pub[s].at = "restore" /\ doc' = doc /\ stranded' = stranded
    /\ Proceeds(s) /\ pub'[s].at = "restore"
    /\ \E p \in Profiles \cap pub[s].todo :
          pub'[s].todo = pub[s].todo \ {p} /\ Activate(p, pub[s].previous[p])

Strands(s) ==
    /\ pub[s].at = "restore" \/ (pub[s].at = "smoke" /\ ~Busy)
    /\ doc' = doc /\ stranded' = stranded \cup {s}
    /\ pub'[s].at = "none" /\ UNCHANGED live

Restored(s) ==
    /\ pub[s].at = "restore" /\ pub[s].todo = {} /\ pub'[s].at = "none" /\ stranded' = stranded
    /\ doc'[s].state = "failed" /\ doc'[s].worker = pub[s].read.worker
    /\ UNCHANGED live

LEMMA PublicationKinds ==
  ASSUME ServiceTypes, NEW s \in Setups, Publication(s)
  PROVE  /\ up /\ UNCHANGED <<up, order, taskVars, copy>>
         /\ OnlyDoc(s) /\ OnlyPub(s)
         /\ \/ Commits(s) \/ Conflicts(s) \/ Smokes(s) \/ Succeeds(s)
            \/ RollsBack(s) \/ Reactivates(s) \/ Strands(s) \/ Restored(s)
<1>0. /\ pub[s] \in Publications /\ pub[s].read \in Docs
      /\ Settled \cup Publishing \subseteq States
  BY DEF ServiceTypes, Publications, States
<1>1. \A state \in Settled \cup Publishing :
        Transition(s, pub[s].read, state) =>
          OnlyDoc(s) /\ doc'[s].state = state /\ doc'[s].worker = pub[s].read.worker
  BY <1>0, Transitions DEF OnlyDoc
<1>2. CASE PublishesDraft(s)
  BY <1>2, PubMoves DEF PublishesDraft, PubAt, Commits, OnlyDoc, storeVars
<1>3. CASE PublishesRevision(s)
  BY <1>3, PubMoves DEF PublishesRevision, PubAt, Commits, OnlyDoc, storeVars
<1>4. CASE PublishConflicts(s)
  BY <1>1, <1>4, PubMoves DEF PublishConflicts, PubAt, Conflicts, Settled
<1>5. CASE SetsGuided(s)
  BY <1>5, PubMoves DEF SetsGuided, PubAt, Commits, OnlyDoc
<1>6. CASE BeginsSmoke(s)
  BY <1>1, <1>6, PubMoves DEF BeginsSmoke, PubAt, Smokes, Publishing
<1>7. CASE SmokePasses(s)
  BY <1>1, <1>7, PubMoves DEF SmokePasses, PubAt, Succeeds, Settled
<1>8. CASE SmokeFails(s)
  BY <1>8, PubMoves DEF SmokeFails, PubAt, RollsBack, OnlyDoc, storeVars
<1>9. ASSUME NEW p \in Profiles, Restores(s, p)
      PROVE  up /\ UNCHANGED <<up, order, taskVars, copy>> /\ OnlyDoc(s) /\ OnlyPub(s) /\ Reactivates(s)
  <2>1. pub' = [pub EXCEPT ![s] = [pub[s] EXCEPT !.todo = pub[s].todo \ {p}]]
    BY <1>9 DEF Restores
  <2>2. pub'[s] = [pub[s] EXCEPT !.todo = pub[s].todo \ {p}] /\ OnlyPub(s)
    BY <2>1 DEF ServiceTypes, OnlyPub
  <2>3. Proceeds(s) /\ pub'[s].at = pub[s].at /\ pub'[s].todo = pub[s].todo \ {p}
    BY <1>0, <2>2 DEF Publications, Proceeds
  <2>. QED
    BY <1>9, <2>2, <2>3 DEF Restores, PubAt, Reactivates, OnlyDoc, storeVars
<1>10. ASSUME NEW p \in Profiles, RestoreRaises(s, p)
       PROVE  up /\ UNCHANGED <<up, order, taskVars, copy>> /\ OnlyDoc(s) /\ OnlyPub(s) /\ Strands(s)
  BY <1>10, PubMoves DEF RestoreRaises, PubAt, Strands, OnlyDoc, storeVars, routingVars
<1>11. CASE RolledBack(s)
  BY <1>1, <1>11, PubMoves DEF RolledBack, PubAt, Restored, Settled, routingVars
<1>12. CASE SmokeRaises(s)
  BY <1>12, PubMoves DEF SmokeRaises, PubAt, Strands, OnlyDoc, storeVars, routingVars
<1>. QED
  BY <1>2, <1>3, <1>4, <1>5, <1>6, <1>7, <1>8, <1>9, <1>10, <1>11, <1>12 DEF Publication

---------------------------------------------------------------------------
(* The kinds of step *)

TaskMoves(s) ==
    /\ up /\ UNCHANGED <<up, order, copy, pub, stranded, routingVars>>
    /\ \A z \in Setups : ~Committing(z)
    /\ OnlyDoc(s)
    /\ Drops(s) \/ Begins(s) \/ Works(s) \/ Ends(s)

RequestMoves(s) ==
    /\ up /\ ~Busy /\ UNCHANGED <<up, runner, pc, mem, pub, stranded, routingVars>>
    /\ OnlyDoc(s)
    /\ \/ Creates(s) \/ Polls(s) \/ Retries(s)
       \/ Notes(s) \/ Settles(s) \/ Awaits(s) \/ SettlesLate(s)

PublishMoves(s) ==
    /\ up /\ ~Busy /\ UNCHANGED <<up, order, taskVars, copy, stranded, routingVars>>
    /\ OnlyDoc(s) /\ OnlyPub(s)
    /\ doc[s].state = "awaiting-publication"
    /\ doc'[s].state = "publishing" /\ doc'[s].worker = doc[s].worker
    /\ pub'[s].at = "draft" /\ pub'[s].read = doc[s]
    /\ pub'[s].todo = {p \in Profiles : pub'[s].previous[p] # 0}

PublicationMoves(s) ==
    /\ up /\ UNCHANGED <<up, order, taskVars, copy>>
    /\ OnlyDoc(s) /\ OnlyPub(s)
    /\ \/ Commits(s) \/ Conflicts(s) \/ Smokes(s) \/ Succeeds(s)
       \/ RollsBack(s) \/ Reactivates(s) \/ Strands(s) \/ Restored(s)

\* The operator's changes to the tables.
Edits == up /\ ~Busy /\ UNCHANGED <<storeVars, taskVars, requestVars, up>>

LEMMA StepKinds ==
  ASSUME SetupInv, ServiceTypes, [Next]_vars
  PROVE  \/ \E s \in Setups : TaskMoves(s) \/ RequestMoves(s) \/ PublishMoves(s) \/ PublicationMoves(s)
         \/ Edits \/ Stops \/ Restarts \/ UNCHANGED vars
<1>1. CASE Task
  BY <1>1, TaskKinds DEF TaskMoves
<1>2. ASSUME NEW s \in Setups, Asked(s) \/ CancelStopped(s)
      PROVE  RequestMoves(s) \/ PublishMoves(s)
  <2>1. ASSUME NEW n \in Wanted[s], Publish(s, n) PROVE PublishMoves(s)
    <3>1. n \in Names
      BY SetupAssumption
    <3>. QED
      BY <2>1, <3>1, PublishWrites DEF PublishMoves
  <2>. QED
    BY <1>2, <2>1, RequestKinds DEF Asked, RequestMoves
<1>3. ASSUME NEW s \in Setups, Publication(s) PROVE PublicationMoves(s)
  BY <1>3, PublicationKinds DEF PublicationMoves
<1>4. ASSUME NEW p \in Profiles, Edit(p) PROVE Edits
  BY <1>4 DEF Edit, Edits, Request
<1>. QED
  BY <1>1, <1>2, <1>3, <1>4 DEF Next

\* What scheduling adds to the tasks, and taking the lock removes from them.
LEMMA Schedules ==
  ASSUME ServiceTypes, NEW s \in Setups, Schedule(s), runner' = runner
  PROVE  Scheduled(s)' /\ \A z \in Setups : Scheduled(z)' <=> Scheduled(z) \/ z = s
  BY Queues DEF ServiceTypes, Schedule, Scheduled

LEMMA Takes ==
  ASSUME ServiceTypes, NEW s \in Setups, queue # << >>, s = Head(queue), queue' = Tail(queue),
         runner = NoSetup
  PROVE  /\ Scheduled(s)
         /\ \A z \in Setups : Scheduled(z) => z = s \/ z \in Range(queue')
         /\ Range(queue') \subseteq Range(queue)
<1>1. NoSetup \notin Setups
  BY SetupAssumption
<1>. QED
  BY <1>1, Queues DEF ServiceTypes, Scheduled

---------------------------------------------------------------------------
(* One handler at a time *)

LEMMA LockStep ==
  ASSUME SetupInv, ServiceTypes, LockOK, [Next]_vars PROVE LockOK'
<1>. DEFINE Mutex == /\ pc = "recording" => \A s \in Setups : ~Committing(s)
                     /\ \A s, z \in Setups : Committing(s) /\ Committing(z) => s = z
<1>0. runner' = NoSetup <=> pc' = "idle"
  BY ServiceStep DEF ServiceTypes
<1>1. \A s \in Setups : OnlyPub(s) => \A z \in Setups \ {s} : Committing(z)' <=> Committing(z)
  BY DEF OnlyPub, Committing
<1>2. UNCHANGED pub => \A z \in Setups : Committing(z)' <=> Committing(z)
  BY DEF Committing
<1>3. ASSUME NEW s \in Setups, TaskMoves(s) PROVE up' /\ Mutex'
  BY <1>2, <1>3 DEF TaskMoves
<1>4. ASSUME NEW s \in Setups, RequestMoves(s) PROVE up' /\ Mutex'
  BY <1>2, <1>4 DEF RequestMoves, LockOK
<1>5. ASSUME NEW s \in Setups, PublishMoves(s) PROVE up' /\ Mutex'
  BY <1>1, <1>5 DEF PublishMoves, LockOK, Busy, taskVars
<1>6. ASSUME NEW s \in Setups, PublicationMoves(s) PROVE up' /\ Mutex'
  <2>1. \/ Committing(s)
        \/ ~Busy
    BY <1>6 DEF PublicationMoves, Commits, Conflicts, Smokes, Succeeds, RollsBack, Reactivates,
                Strands, Restored, Committing, Steps
  <2>2. pc # "recording" /\ \A z \in Setups \ {s} : ~Committing(z)
    BY <2>1 DEF Busy, LockOK
  <2>. QED
    BY <1>1, <1>6, <2>2 DEF PublicationMoves, taskVars
<1>7. CASE Edits
  BY <1>2, <1>7 DEF Edits, LockOK, taskVars, requestVars
<1>8. CASE Stops
  <2>1. \A s \in Setups : pub'[s].at = "none" /\ copy'[s] = NewDoc
    BY <1>8 DEF Stops, NoPublication
  <2>. QED
    BY <1>0, <1>8, <2>1 DEF Stops, LockOK, Committing
<1>9. CASE Restarts
  BY <1>0, <1>2, <1>9 DEF Restarts, LockOK, requestVars
<1>10. CASE UNCHANGED vars
  BY <1>2, <1>10 DEF vars, LockOK, taskVars, requestVars
<1>. QED
  BY <1>0, <1>3, <1>4, <1>5, <1>6, <1>7, <1>8, <1>9, <1>10, StepKinds DEF LockOK

---------------------------------------------------------------------------
(* Every setup that is to be carried on is carried on by somebody *)

\* The disjointness of the groups of states.
LEMMA StateGroups ==
    /\ Unfinished \cap Publishing = {} /\ Unfinished \cap Settled = {} /\ Publishing \cap Settled = {}
    /\ "absent" \notin Unfinished \cup Publishing \cup Settled
    /\ Pausable \subseteq Unfinished /\ Working \subseteq Unfinished /\ Pausable \cap Working = {}
    /\ "queued" \in Pausable /\ "publishing" \in Publishing /\ "verifying-route" \in Publishing
    /\ {"awaiting-publication", "failed", "cancelled", "succeeded"} = Settled
    /\ Qualifieds \cap Unfinished = {} /\ "absent" \notin Qualifieds
    /\ "failed" \notin Qualifieds /\ "cancelled" \notin Qualifieds
  BY DEF Unfinished, Publishing, Settled, Pausable, Working, Qualifieds

\* What TasksOK says of one setup.
TaskOK(s) ==
    /\ up => /\ doc[s].state \in Unfinished => Scheduled(s)
             /\ doc[s].state \in Publishing => pub[s].at # "none" \/ s \in stranded
             /\ doc[s].state \in Working => s = runner
    /\ Concerns(s) => s \in Range(order)

LEMMA TasksOKMeans ==
    /\ TasksOK <=> \A s \in Setups : TaskOK(s)
    /\ TasksOK' <=> \A s \in Setups : TaskOK(s)'
  BY DEF TasksOK, TaskOK, UnfinishedHasRunner

LEMMA TasksByTask ==
  ASSUME SetupInv, ServiceTypes, TasksOK, NEW s \in Setups, TaskMoves(s) PROVE TasksOK'
<1>. USE SetupAssumption, StateGroups
<1>0. \A z \in Setups : TaskOK(z)
  BY TasksOKMeans
<1>1. up /\ up' /\ UNCHANGED <<order, copy, pub, stranded>> /\ OnlyDoc(s)
  BY DEF TaskMoves
<1>2. CASE Drops(s)
  <2>1. /\ Scheduled(s) /\ \A z \in Setups : Scheduled(z) => z = s \/ z \in Range(queue')
        /\ Range(queue') \subseteq Range(queue)
    BY <1>2, Takes DEF Drops
  <2>2. ASSUME NEW z \in Setups, z # s PROVE TaskOK(z)'
    <3>1. doc'[z] = doc[z]
      BY <1>1, <2>2 DEF OnlyDoc
    <3>. QED
      BY <1>0, <1>1, <1>2, <2>1, <2>2, <3>1 DEF TaskOK, Scheduled, Concerns, Drops
  <2>3. TaskOK(s)'
    <3>1. s # runner /\ doc[s].state \notin Working /\ s \in Range(order)
      BY <1>0, <1>1, <1>2, <2>1 DEF TaskOK, Drops, Concerns
    <3>2. doc[s].state \in Unfinished => doc[s].state \in Pausable
      BY <3>1 DEF Working
    <3>. QED
      BY <1>0, <1>1, <1>2, <3>1, <3>2 DEF TaskOK, Drops
  <2>. QED
    BY <2>2, <2>3, TasksOKMeans
<1>3. CASE Begins(s)
  <2>1. /\ Scheduled(s) /\ \A z \in Setups : Scheduled(z) => z = s \/ z \in Range(queue')
        /\ Range(queue') \subseteq Range(queue)
    BY <1>3, Takes DEF Begins
  <2>2. ASSUME NEW z \in Setups, z # s PROVE TaskOK(z)'
    <3>1. doc'[z] = doc[z]
      BY <1>1, <2>2 DEF OnlyDoc
    <3>. QED
      BY <1>0, <1>1, <1>3, <2>1, <2>2, <3>1 DEF TaskOK, Scheduled, Concerns, Begins
  <2>3. TaskOK(s)'
    BY <1>0, <1>1, <1>3, <2>1 DEF TaskOK, Begins, Scheduled, Concerns
  <2>. QED
    BY <2>2, <2>3, TasksOKMeans
<1>4. CASE Works(s) \/ Ends(s)
  <2>1. runner = s /\ queue' = queue /\ Scheduled(s)
    BY <1>4 DEF Works, Ends, Scheduled
  <2>2. ASSUME NEW z \in Setups, z # s PROVE TaskOK(z)'
    <3>1. doc'[z] = doc[z]
      BY <1>1, <2>2 DEF OnlyDoc
    <3>2. runner' = runner \/ runner' = NoSetup
      BY <1>4 DEF Works, Ends
    <3>. QED
      BY <1>0, <1>1, <2>1, <2>2, <3>1, <3>2 DEF TaskOK, Scheduled, Concerns
  <2>3. s \in Range(order)
    BY <1>0, <2>1 DEF TaskOK, Concerns
  <2>4. CASE Works(s)
    <3>1. Scheduled(s)' /\ runner' = s
      BY <2>1, <2>4 DEF Works, Scheduled
    <3>2. doc'[s] = doc[s] \/ doc'[s].state \in Unfinished
      BY <2>4 DEF Works
    <3>. QED
      BY <1>0, <1>1, <2>2, <2>3, <3>1, <3>2, TasksOKMeans DEF TaskOK
  <2>5. CASE Ends(s)
    <3>1. doc'[s].state \in Settled
      BY <2>5 DEF Ends
    <3>. QED
      BY <1>1, <2>2, <2>3, <3>1, TasksOKMeans DEF TaskOK
  <2>. QED
    BY <1>4, <2>4, <2>5
<1>. QED
  BY <1>2, <1>3, <1>4 DEF TaskMoves

LEMMA TasksByRequest ==
  ASSUME SetupInv, ServiceTypes, TasksOK, NEW s \in Setups, RequestMoves(s) PROVE TasksOK'
<1>. USE StateGroups
<1>0. \A z \in Setups : TaskOK(z)
  BY TasksOKMeans
<1>1. up /\ up' /\ UNCHANGED <<runner, pub, stranded>> /\ OnlyDoc(s)
  BY DEF RequestMoves
<1>2. \/ Schedule(s)
      \/ queue' = queue
  BY DEF RequestMoves, Creates, Polls, Retries, Notes, Settles, Awaits, SettlesLate
<1>3. \A z \in Setups : Scheduled(z) => Scheduled(z)'
  BY <1>1, <1>2, Schedules DEF Scheduled
<1>4. \A z \in Setups \ {s} : (Scheduled(z)' => Scheduled(z)) /\ copy'[z] = copy[z]
  BY <1>1, <1>2, Schedules DEF Scheduled, RequestMoves, Creates, Polls, Retries, Notes, Settles, Awaits, SettlesLate
<1>5. /\ Range(order) \subseteq Range(order')
      /\ doc[s].state = "absent" /\ copy[s] = NewDoc => s \in Range(order')
  <2>1. CASE Creates(s)
    BY <2>1, Queues DEF Creates, ServiceTypes
  <2>2. CASE ~Creates(s)
    <3>1. order' = order
      BY <2>2 DEF RequestMoves, Polls, Retries, Notes, Settles, Awaits, SettlesLate
    <3>2. doc[s].state # "absent" \/ copy[s] # NewDoc
      BY <2>2 DEF RequestMoves, Polls, Retries, Notes, Settles, Awaits, SettlesLate
    <3>. QED
      BY <3>1, <3>2
  <2>. QED
    BY <2>1, <2>2
<1>6. ASSUME NEW z \in Setups, z # s PROVE TaskOK(z)'
  <2>1. doc'[z] = doc[z]
    BY <1>1, <1>6 DEF OnlyDoc
  <2>. QED
    BY <1>0, <1>1, <1>3, <1>4, <1>5, <1>6, <2>1 DEF TaskOK, Concerns
<1>7. s \in Range(order')
  BY <1>0, <1>5 DEF TaskOK, Concerns
<1>8. \/ doc'[s].state = doc[s].state
      \/ doc'[s].state = "queued" /\ Schedule(s)
      \/ doc'[s].state = "cancelled"
  BY DEF RequestMoves, Creates, Polls, Retries, Notes, Settles, Awaits, SettlesLate
<1>9. TaskOK(s)'
  BY <1>0, <1>1, <1>3, <1>7, <1>8, Schedules DEF TaskOK
<1>. QED
  BY <1>6, <1>9, TasksOKMeans

LEMMA TasksByPublication ==
  ASSUME SetupInv, ServiceTypes, TasksOK, NEW s \in Setups, PublishMoves(s) \/ PublicationMoves(s)
  PROVE  TasksOK'
<1>. USE StateGroups
<1>0. \A z \in Setups : TaskOK(z)
  BY TasksOKMeans
<1>1. up /\ up' /\ UNCHANGED <<order, taskVars, copy>> /\ OnlyDoc(s) /\ OnlyPub(s)
  BY DEF PublishMoves, PublicationMoves
<1>2. stranded \subseteq stranded'
  BY DEF PublishMoves, PublicationMoves, Commits, Conflicts, Smokes, Succeeds, RollsBack, Reactivates,
         Strands, Restored
<1>3. \A z \in Setups : Scheduled(z)' <=> Scheduled(z)
  BY <1>1 DEF Scheduled, taskVars
<1>4. ASSUME NEW z \in Setups, z # s PROVE TaskOK(z)'
  <2>1. doc'[z] = doc[z] /\ pub'[z] = pub[z]
    BY <1>1, <1>4 DEF OnlyDoc, OnlyPub
  <2>. QED
    BY <1>0, <1>1, <1>2, <1>3, <2>1 DEF TaskOK, Concerns, taskVars
<1>5. s \in Range(order)
  <2>1. doc[s].state # "absent" \/ pub[s].at # "none"
    BY DEF PublishMoves, PublicationMoves, Commits, Conflicts, Smokes, Succeeds, RollsBack, Reactivates,
           Strands, Restored
  <2>. QED
    BY <1>0, <2>1 DEF TaskOK, Concerns
<1>6. \/ doc'[s] = doc[s] /\ (pub'[s].at # "none" \/ s \in stranded')
      \/ doc'[s].state \in Publishing /\ pub'[s].at # "none"
      \/ doc'[s].state \in Settled
  BY DEF PublishMoves, PublicationMoves, Commits, Conflicts, Smokes, Succeeds, RollsBack, Reactivates,
         Strands, Restored
<1>7. TaskOK(s)'
  BY <1>0, <1>1, <1>3, <1>5, <1>6 DEF TaskOK, taskVars
<1>. QED
  BY <1>4, <1>7, TasksOKMeans

LEMMA TasksStep ==
  ASSUME SetupInv, ServiceTypes, LockOK, TasksOK, [Next]_vars PROVE TasksOK'
<1>. USE StateGroups
<1>0. \A z \in Setups : TaskOK(z)
  BY TasksOKMeans
<1>1. CASE Edits \/ UNCHANGED vars
  <2>1. UNCHANGED <<storeVars, taskVars, requestVars, up>>
    BY <1>1 DEF Edits, vars
  <2>. QED
    BY <2>1, TasksOKMeans DEF TasksOK, UnfinishedHasRunner, Scheduled, Concerns, storeVars, taskVars, requestVars
<1>2. CASE Stops
  <2>0. ~up' /\ doc' = doc /\ order' = order /\ queue' = << >> /\ runner' = NoSetup
    BY <1>2 DEF Stops, storeVars
  <2>1. \A s \in Setups : pub'[s].at = "none" /\ copy'[s] = NewDoc
    BY <1>2 DEF Stops, NoPublication
  <2>2. \A s \in Setups : ~Scheduled(s)'
    <3>1. Range(<< >>) = {}
      BY EmptySeq DEF Range
    <3>. QED
      BY <2>0, <3>1, SetupAssumption DEF Scheduled
  <2>3. \A s \in Setups : TaskOK(s)'
    BY <1>0, <2>0, <2>1, <2>2 DEF TaskOK, Concerns
  <2>. QED
    BY <2>3, TasksOKMeans
<1>3. CASE Restarts
  <2>1. /\ ~up /\ up' /\ UNCHANGED <<order, runner, requestVars>>
    BY <1>3 DEF Restarts
  <2>2. Range(queue') = Backlog
    BY <1>3, RestartTypes
  <2>3. ASSUME NEW s \in Setups PROVE TaskOK(s)'
    <3>1. doc'[s].state = Reconciled(s)
      <4>1. doc[s] \in Docs /\ Reconciled(s) \in States /\ doc'[s] = [doc[s] EXCEPT !.state = Reconciled(s)]
        BY <1>3, RestartTypes DEF ServiceTypes
      <4>. QED
        BY <4>1, DocSaved
    <3>2. \/ doc[s].state \in Unfinished /\ doc'[s].state = "queued"
          \/ doc'[s].state \in Settled
          \/ doc'[s].state = doc[s].state /\ doc[s].state \notin Unfinished \cup Publishing
      <4>1. doc[s].state \in States
        BY DEF ServiceTypes, Docs
      <4>. QED
        BY <3>1, <4>1 DEF Reconciled, Publishing, Settled, Unfinished, Pausable
    <3>3. doc[s].state # "absent" => s \in Range(order)
      BY <1>0 DEF TaskOK, Concerns
    <3>4. doc[s].state \in Unfinished => Scheduled(s)'
      BY <2>1, <2>2, <3>3 DEF Scheduled, Backlog
    <3>5. Concerns(s)' => s \in Range(order')
      <4>1. runner' = NoSetup /\ pub'[s].at = "none" /\ copy'[s] = NewDoc
        BY <2>1 DEF LockOK, requestVars
      <4>2. Scheduled(s)' => s \in Range(order)
        BY <2>2, <4>1, SetupAssumption DEF Scheduled, Backlog
      <4>3. doc'[s].state # "absent" => doc[s].state # "absent"
        <5>1. doc[s].state = "absent" => Reconciled(s) = "absent"
          BY DEF Reconciled
        <5>. QED
          BY <3>1, <5>1
      <4>. QED
        BY <2>1, <3>3, <4>1, <4>2, <4>3 DEF Concerns
    <3>. QED
      BY <3>2, <3>4, <3>5 DEF TaskOK
  <2>. QED
    BY <2>3, TasksOKMeans
<1>. QED
  BY <1>1, <1>2, <1>3, StepKinds, TasksByTask, TasksByRequest, TasksByPublication

---------------------------------------------------------------------------
(* Every copy of a document knows the Worker *)

\* The parts of WorkersOK: the task's copy, and the copies of the requests about s.
RunnerOK ==
    /\ pc \in WithWorker => mem.worker /\ doc[runner].worker
    /\ pc \in {"cooling-start", "cooling-qualify"} => doc[runner].state \notin Working

CopiesOK(s) ==
    /\ copy[s] # NewDoc => copy[s].worker /\ doc[s].worker
    /\ pub[s].at # "none" => pub[s].read.worker /\ doc[s].worker
    /\ doc[s].state \in Qualifieds => doc[s].worker
    /\ doc[s].state = "absent" => ~doc[s].worker

LEMMA WorkersOKMeans ==
    /\ WorkersOK <=> RunnerOK /\ \A s \in Setups : CopiesOK(s)
    /\ WorkersOK' <=> RunnerOK' /\ \A s \in Setups : CopiesOK(s)'
  BY DEF WorkersOK, RunnerOK, CopiesOK

\* The copies about another setup, and those of a setup that keeps its Worker.
LEMMA CopiesStay ==
  ASSUME NEW z \in Setups, CopiesOK(z), doc'[z] = doc[z], copy'[z] = copy[z], pub'[z] = pub[z]
  PROVE  CopiesOK(z)'
  BY DEF CopiesOK

LEMMA WorkersByTask ==
  ASSUME SetupInv, ServiceTypes, WorkersOK, NEW s \in Setups, TaskMoves(s)
  PROVE  WorkersOK' /\ (doc[s].worker => doc'[s].worker)
<1>. USE SetupAssumption, StateGroups
<1>0. RunnerOK /\ \A z \in Setups : CopiesOK(z)
  BY WorkersOKMeans
<1>1. up /\ up' /\ UNCHANGED <<order, copy, pub, stranded>> /\ OnlyDoc(s)
  BY DEF TaskMoves
<1>2. \A z \in Setups \ {s} : CopiesOK(z)'
  <2>1. \A z \in Setups \ {s} : doc'[z] = doc[z]
    BY <1>1 DEF OnlyDoc
  <2>. QED
    BY <1>0, <1>1, <2>1, CopiesStay
<1>3. ASSUME doc[s].worker => doc'[s].worker,
             doc'[s].state \in Qualifieds => doc'[s].worker,
             doc'[s].state = "absent" => ~doc'[s].worker
      PROVE  CopiesOK(s)'
  BY <1>0, <1>1, <1>3 DEF CopiesOK
<1>4. CASE Drops(s)
  <2>1. pc' = "idle" /\ doc'[s].worker = doc[s].worker
    BY <1>4 DEF Drops, ServiceTypes
  <2>2. CopiesOK(s)'
    <3>1. CASE doc'[s].state = "cancelled"
      BY <1>3, <2>1, <3>1
    <3>2. CASE doc'[s] = doc[s]
      BY <1>0, <1>3, <3>2 DEF CopiesOK
    <3>. QED
      BY <1>4, <3>1, <3>2 DEF Drops
  <2>3. RunnerOK'
    BY <2>1 DEF RunnerOK, WithWorker
  <2>. QED
    BY <1>2, <2>1, <2>2, <2>3, WorkersOKMeans
<1>5. CASE Begins(s)
  <2>1. runner' = s /\ mem' = doc'[s] /\ doc'[s].worker = doc[s].worker
    BY <1>5 DEF Begins
  <2>2. CopiesOK(s)'
    <3>1. CASE doc'[s].state \in Working
      BY <1>3, <2>1, <3>1
    <3>2. CASE doc'[s] = doc[s]
      BY <1>0, <1>3, <3>2 DEF CopiesOK
    <3>. QED
      BY <1>5, <3>1, <3>2 DEF Begins
  <2>3. RunnerOK'
    BY <1>5, <2>1 DEF Begins, RunnerOK, WithWorker
  <2>. QED
    BY <1>2, <2>1, <2>2, <2>3, WorkersOKMeans
<1>6. CASE Works(s)
  <2>1. runner = s /\ runner' = s
    BY <1>6 DEF Works
  <2>2. CASE pc = "creating" /\ pc' = "recording" /\ UNCHANGED <<doc, mem>>
    <3>1. CopiesOK(s)'
      BY <1>0, <1>3, <2>2 DEF CopiesOK
    <3>. QED
      BY <1>2, <2>2, <3>1, WorkersOKMeans DEF RunnerOK, WithWorker
  <2>3. CASE /\ mem' = doc'[s] /\ doc'[s].worker /\ doc'[s].state \in Unfinished
             /\ pc' \in {"cooling-start", "cooling-qualify"} => doc'[s].state \notin Working
    <3>1. CopiesOK(s)'
      BY <1>3, <2>3
    <3>2. RunnerOK'
      BY <2>1, <2>3 DEF RunnerOK
    <3>. QED
      BY <1>2, <2>3, <3>1, <3>2, WorkersOKMeans
  <2>4. CASE /\ pc \in {"cooling-start", "cooling-qualify"} /\ pc' = "stopping"
             /\ mem' = doc[s] /\ doc'[s] = doc[s]
    <3>1. CopiesOK(s)'
      BY <1>0, <1>3, <2>4 DEF CopiesOK
    <3>2. RunnerOK'
      BY <1>0, <2>1, <2>4 DEF RunnerOK, WithWorker
    <3>. QED
      BY <1>2, <2>4, <3>1, <3>2, WorkersOKMeans
  <2>5. pc \in WithWorker => mem.worker /\ doc[s].worker
    BY <1>0, <2>1 DEF RunnerOK
  <2>6. CASE /\ pc = "recording" /\ pc' = "starting"
             /\ mem' = doc'[s] /\ doc'[s].worker /\ doc'[s].state \in Working
    BY <2>3, <2>6
  <2>7. CASE /\ pc \in {"starting", "qualifying"} /\ pc' \in {"qualifying", "cooling-start", "cooling-qualify"}
             /\ mem' = doc'[s] /\ doc'[s].worker = mem.worker /\ doc'[s].state \in Unfinished
             /\ pc' # "qualifying" => doc'[s].state \notin Working
    BY <2>3, <2>5, <2>7 DEF WithWorker
  <2>8. CASE /\ pc \in {"cooling-start", "cooling-qualify"} /\ pc' \in {"starting", "qualifying"}
             /\ mem' = doc'[s] /\ doc'[s].worker = doc[s].worker /\ doc'[s].state \in Working
    BY <2>3, <2>5, <2>8 DEF WithWorker
  <2>. QED
    BY <1>6, <2>2, <2>4, <2>6, <2>7, <2>8 DEF Works
<1>7. CASE Ends(s)
  <2>1. pc' = "idle" /\ doc'[s].state \in Settled
    BY <1>7 DEF Ends
  <2>2. \/ doc'[s].worker = doc[s].worker /\ doc'[s].state # "awaiting-publication"
        \/ doc'[s].worker /\ doc[s].worker
    BY <1>0, <1>7 DEF Ends, RunnerOK
  <2>3. CopiesOK(s)'
    BY <1>3, <1>7, <2>1, <2>2 DEF Ends
  <2>4. RunnerOK'
    BY <2>1 DEF RunnerOK, WithWorker
  <2>. QED
    BY <1>2, <2>2, <2>3, <2>4, WorkersOKMeans
<1>. QED
  BY <1>4, <1>5, <1>6, <1>7 DEF TaskMoves

LEMMA WorkersByRequest ==
  ASSUME SetupInv, ServiceTypes, TasksOK, WorkersOK, NEW s \in Setups, RequestMoves(s)
  PROVE  WorkersOK' /\ (doc[s].worker => doc'[s].worker)
<1>. USE StateGroups
<1>0. RunnerOK /\ CopiesOK(s) /\ (\A z \in Setups : CopiesOK(z)) /\ TaskOK(s)
  BY WorkersOKMeans, TasksOKMeans
<1>1. up /\ UNCHANGED <<runner, pc, mem, pub>> /\ OnlyDoc(s)
  BY DEF RequestMoves
<1>2. \A z \in Setups \ {s} : CopiesOK(z)'
  <2>1. \A z \in Setups \ {s} : doc'[z] = doc[z] /\ copy'[z] = copy[z] /\ pub'[z] = pub[z]
    BY <1>1 DEF OnlyDoc, RequestMoves, Creates, Polls, Retries, Notes, Settles, Awaits, SettlesLate
  <2>. QED
    BY <1>0, <2>1, CopiesStay
<1>3. CopiesOK(s)' /\ (doc[s].worker => doc'[s].worker)
  <2>1. CASE Creates(s)
    BY <1>0, <1>1, <2>1 DEF Creates, CopiesOK
  <2>2. CASE Polls(s) \/ Retries(s)
    BY <1>0, <1>1, <2>2 DEF Polls, Retries, CopiesOK
  <2>3. CASE Notes(s) \/ Settles(s)
    BY <1>0, <1>1, <2>3 DEF Notes, Settles, CopiesOK
  <2>4. CASE Awaits(s)
    BY <1>0, <1>1, <2>4 DEF Awaits, CopiesOK
  <2>5. CASE SettlesLate(s)
    BY <1>0, <1>1, <2>5 DEF SettlesLate, CopiesOK
  <2>. QED
    BY <2>1, <2>2, <2>3, <2>4, <2>5 DEF RequestMoves
<1>4. doc'[s].state \in Working => doc[s].state \in Working
  BY DEF RequestMoves, Creates, Polls, Retries, Notes, Settles, Awaits, SettlesLate
<1>5. RunnerOK'
  <2>1. CASE runner = s
    BY <1>0, <1>1, <1>3, <1>4, <2>1 DEF RunnerOK
  <2>2. CASE runner # s
    <3>1. pc \in WithWorker => runner \in Setups
      BY DEF ServiceTypes, WithWorker
    <3>2. pc \in WithWorker => doc'[runner] = doc[runner]
      BY <1>1, <2>2, <3>1 DEF OnlyDoc
    <3>. QED
      BY <1>0, <1>1, <3>2 DEF RunnerOK, WithWorker
  <2>. QED
    BY <2>1, <2>2
<1>. QED
  BY <1>2, <1>3, <1>5, WorkersOKMeans

LEMMA WorkersByPublication ==
  ASSUME SetupInv, ServiceTypes, WorkersOK, NEW s \in Setups, PublishMoves(s) \/ PublicationMoves(s)
  PROVE  WorkersOK' /\ (doc[s].worker => doc'[s].worker)
<1>. USE StateGroups
<1>0. RunnerOK /\ CopiesOK(s) /\ \A z \in Setups : CopiesOK(z)
  BY WorkersOKMeans
<1>1. UNCHANGED <<taskVars, copy>> /\ OnlyDoc(s) /\ OnlyPub(s)
  BY DEF PublishMoves, PublicationMoves
<1>2. \A z \in Setups \ {s} : CopiesOK(z)'
  <2>1. \A z \in Setups \ {s} : doc'[z] = doc[z] /\ copy'[z] = copy[z] /\ pub'[z] = pub[z]
    BY <1>1 DEF OnlyDoc, OnlyPub
  <2>. QED
    BY <1>0, <2>1, CopiesStay
<1>3. /\ doc[s].worker /\ doc'[s].worker
      /\ pub'[s].at # "none" => pub'[s].read.worker
      /\ doc'[s] = doc[s] \/ doc'[s].state \in Settled \cup Publishing
  <2>1. CASE PublishMoves(s)
    BY <1>0, <2>1 DEF PublishMoves, CopiesOK, Qualifieds
  <2>2. CASE Commits(s) \/ RollsBack(s) \/ Reactivates(s)
    BY <1>0, <2>2 DEF Commits, RollsBack, Reactivates, Proceeds, CopiesOK
  <2>3. CASE Conflicts(s) \/ Succeeds(s) \/ Strands(s) \/ Restored(s)
    BY <1>0, <2>3 DEF Conflicts, Succeeds, Strands, Restored, CopiesOK
  <2>4. CASE Smokes(s)
    BY <1>0, <2>4 DEF Smokes, Proceeds, CopiesOK
  <2>. QED
    BY <2>1, <2>2, <2>3, <2>4 DEF PublicationMoves
<1>4. CopiesOK(s)'
  BY <1>0, <1>1, <1>3 DEF CopiesOK
<1>5. RunnerOK'
  <2>1. CASE runner = s
    BY <1>0, <1>1, <1>3, <2>1 DEF RunnerOK, taskVars
  <2>2. CASE runner # s
    <3>1. pc \in WithWorker => runner \in Setups
      BY DEF ServiceTypes, WithWorker
    <3>2. pc \in WithWorker => doc'[runner] = doc[runner]
      BY <1>1, <2>2, <3>1 DEF OnlyDoc
    <3>. QED
      BY <1>0, <1>1, <3>2 DEF RunnerOK, WithWorker, taskVars
  <2>. QED
    BY <2>1, <2>2
<1>. QED
  BY <1>2, <1>3, <1>4, <1>5, WorkersOKMeans

\* What a start does to the document of s.
LEMMA Reconciles ==
  ASSUME ServiceTypes, Restarts, NEW s \in Setups
  PROVE  /\ doc'[s].worker = doc[s].worker
         /\ \/ doc[s].state \in Unfinished /\ doc'[s].state = "queued"
            \/ doc[s].state \in Publishing /\ doc'[s].state \in {"failed", "awaiting-publication"}
            \/ doc'[s].state = doc[s].state /\ doc[s].state \notin Unfinished \cup Publishing
<1>1. doc[s] \in Docs /\ Reconciled(s) \in States /\ doc'[s] = [doc[s] EXCEPT !.state = Reconciled(s)]
  BY RestartTypes DEF ServiceTypes
<1>2. doc'[s].state = Reconciled(s) /\ doc'[s].worker = doc[s].worker
  BY <1>1, DocSaved
<1>3. doc[s].state \in States
  BY <1>1 DEF Docs
<1>. QED
  BY <1>2, <1>3 DEF Reconciled, Publishing, Settled, Unfinished, Pausable

LEMMA WorkersStep ==
  ASSUME SetupInv, ServiceTypes, LockOK, TasksOK, WorkersOK, [Next]_vars
  PROVE  WorkersOK' /\ \A s \in Setups : doc[s].worker => doc'[s].worker
<1>. USE StateGroups
<1>. DEFINE Goal == WorkersOK' /\ \A s \in Setups : doc[s].worker => doc'[s].worker
<1>0. RunnerOK /\ \A z \in Setups : CopiesOK(z)
  BY WorkersOKMeans
<1>1. ASSUME NEW s \in Setups, TaskMoves(s) \/ RequestMoves(s) \/ PublishMoves(s) \/ PublicationMoves(s)
      PROVE  Goal
  <2>1. WorkersOK' /\ (doc[s].worker => doc'[s].worker)
    BY <1>1, WorkersByTask, WorkersByRequest, WorkersByPublication
  <2>2. \A z \in Setups \ {s} : doc'[z] = doc[z]
    BY <1>1 DEF TaskMoves, RequestMoves, PublishMoves, PublicationMoves, OnlyDoc
  <2>. QED
    BY <2>1, <2>2
<1>2. CASE Edits \/ UNCHANGED vars
  <2>1. UNCHANGED <<doc, pc, mem, runner, copy, pub>>
    BY <1>2 DEF Edits, vars, storeVars, taskVars, requestVars
  <2>2. RunnerOK' /\ \A s \in Setups : CopiesOK(s)'
    BY <1>0, <2>1 DEF RunnerOK, CopiesOK
  <2>. QED
    BY <2>1, <2>2, WorkersOKMeans
<1>3. CASE Stops
  <2>1. doc' = doc /\ pc' = "idle" /\ \A s \in Setups : pub'[s].at = "none" /\ copy'[s] = NewDoc
    BY <1>3 DEF Stops, NoPublication, storeVars
  <2>2. RunnerOK' /\ \A s \in Setups : CopiesOK(s)'
    BY <1>0, <2>1 DEF RunnerOK, CopiesOK, WithWorker
  <2>. QED
    BY <2>1, <2>2, WorkersOKMeans
<1>4. CASE Restarts
  <2>1. pc' = "idle" /\ \A s \in Setups : pub'[s].at = "none" /\ copy'[s] = NewDoc
    BY <1>4 DEF Restarts, LockOK, requestVars
  <2>2. ASSUME NEW s \in Setups PROVE CopiesOK(s)' /\ doc'[s].worker = doc[s].worker
    <3>1. doc'[s].state \in Qualifieds => doc[s].state \in Qualifieds
      BY <1>4, Reconciles DEF Publishing, Qualifieds
    <3>2. doc'[s].state = "absent" => doc[s].state = "absent"
      BY <1>4, Reconciles
    <3>. QED
      BY <1>0, <1>4, <2>1, <3>1, <3>2, Reconciles DEF CopiesOK
  <2>3. RunnerOK'
    BY <2>1 DEF RunnerOK, WithWorker
  <2>. QED
    BY <2>2, <2>3, WorkersOKMeans
<1>. QED
  BY <1>1, <1>2, <1>3, <1>4, StepKinds

---------------------------------------------------------------------------
(* A rollback has still to do what it has not done *)

RolledOK(s) ==
    /\ pub[s].at \notin {"none", "restore"} => pub[s].todo = {q \in Profiles : pub[s].previous[q] # 0}
    /\ pub[s].at = "restore" =>
          /\ pub[s].previous[pub[s].profile] = 0 => live[pub[s].profile] = 0
          /\ \A q \in Profiles \ pub[s].todo : pub[s].previous[q] # 0 => live[q] = pub[s].previous[q]

LEMMA RollbackOKMeans ==
    /\ RollbackOK <=> \A s \in Setups : RolledOK(s)
    /\ RollbackOK' <=> \A s \in Setups : RolledOK(s)'
  BY DEF RollbackOK, RolledOK

\* While one rolls back, no other step touches the tables or its setup.
LEMMA RollbackAlone ==
  ASSUME SetupInv, ServiceTypes, LockOK, NEW z \in Setups, pub[z].at = "restore", [Next]_vars
  PROVE  PublicationMoves(z) \/ Stops \/ UNCHANGED vars
<1>1. Committing(z) /\ Busy /\ up
  BY DEF Committing, Steps, Busy, LockOK
<1>2. ASSUME NEW s \in Setups, PublicationMoves(s) PROVE s = z
  <2>1. Committing(s)
    BY <1>1, <1>2 DEF PublicationMoves, Commits, Conflicts, Smokes, Succeeds, RollsBack, Reactivates,
                      Strands, Restored, Committing, Steps
  <2>. QED
    BY <1>1, <2>1 DEF LockOK
<1>. QED
  BY <1>1, <1>2, StepKinds DEF TaskMoves, RequestMoves, PublishMoves, Edits, Restarts

LEMMA RollbackByItself ==
  ASSUME SetupInv, ServiceTypes, RollbackOK, NEW s \in Setups, PublicationMoves(s) PROVE RolledOK(s)'
<1>0. RolledOK(s) /\ PubOK(s)
  BY RollbackOKMeans DEF SetupInv
<1>1. CASE Commits(s) \/ Smokes(s)
  BY <1>0, <1>1 DEF Commits, Smokes, Proceeds, RolledOK
<1>2. CASE Conflicts(s) \/ Succeeds(s) \/ Strands(s) \/ Restored(s)
  BY <1>2 DEF Conflicts, Succeeds, Strands, Restored, RolledOK
<1>3. CASE RollsBack(s)
  <2>1. pub[s].profile \in Profiles /\ live \in [Profiles -> Nat]
    BY <1>0, <1>3 DEF RollsBack, PubOK, SetupInv, RoutingInv, RoutingTypeOK
  <2>2. live'[pub[s].profile] = 0
    BY <1>3, <2>1 DEF RollsBack, Deactivate
  <2>3. pub'[s].todo = {q \in Profiles : pub'[s].previous[q] # 0}
    BY <1>0, <1>3 DEF RollsBack, Proceeds, RolledOK
  <2>. QED
    BY <1>3, <2>2, <2>3 DEF RollsBack, Proceeds, RolledOK
<1>4. CASE Reactivates(s)
  <2>1. PICK p \in Profiles \cap pub[s].todo :
          pub'[s].todo = pub[s].todo \ {p} /\ Activate(p, pub[s].previous[p])
    BY <1>4 DEF Reactivates
  <2>2. /\ live \in [Profiles -> Nat] /\ pub[s].profile \in Profiles /\ pub[s].previous[p] # 0
    BY <1>0, <1>4, <2>1 DEF Reactivates, PubOK, SetupInv, RoutingInv, RoutingTypeOK
  <2>3. /\ live'[p] = pub[s].previous[p]
        /\ \A q \in Profiles \ {p} : live'[q] = live[q]
    BY <2>1, <2>2 DEF Activate
  <2>. QED
    BY <1>0, <1>4, <2>1, <2>2, <2>3 DEF Reactivates, Proceeds, RolledOK
<1>. QED
  BY <1>1, <1>2, <1>3, <1>4 DEF PublicationMoves

LEMMA RollbackStep ==
  ASSUME SetupInv, ServiceTypes, LockOK, RollbackOK, [Next]_vars PROVE RollbackOK'
<1> SUFFICES ASSUME NEW z \in Setups PROVE RolledOK(z)'
  BY RollbackOKMeans
<1>0. RolledOK(z)
  BY RollbackOKMeans
<1>1. CASE PublicationMoves(z)
  BY <1>1, RollbackByItself
<1>2. CASE Stops
  <2>1. pub'[z].at = "none"
    BY <1>2 DEF Stops, NoPublication
  <2>. QED
    BY <2>1 DEF RolledOK
<1>3. CASE UNCHANGED vars
  BY <1>0, <1>3 DEF vars, requestVars, routingVars, RolledOK
<1>4. CASE PublishMoves(z)
  BY <1>4 DEF PublishMoves, RolledOK
<1>5. CASE pub[z].at # "restore" /\ pub'[z] = pub[z]
  BY <1>0, <1>5 DEF RolledOK
<1>6. ASSUME pub[z].at # "restore", ~PublicationMoves(z), ~PublishMoves(z), ~Stops, ~UNCHANGED vars
      PROVE  pub'[z] = pub[z]
  BY <1>6, StepKinds DEF TaskMoves, RequestMoves, PublishMoves, PublicationMoves, OnlyPub, Edits, Restarts,
                         requestVars
<1>. QED
  BY <1>1, <1>2, <1>3, <1>4, <1>5, <1>6, RollbackAlone

---------------------------------------------------------------------------
(* The invariant of the service *)

ServiceInv ==
    /\ SetupInv
    /\ ServiceTypes
    /\ LockOK
    /\ TasksOK
    /\ WorkersOK
    /\ RollbackOK

LEMMA ServiceInitially == Init => ServiceInv
<1> SUFFICES ASSUME Init PROVE ServiceInv
  OBVIOUS
<1>1. NewDoc \in Docs /\ NoPublication \in Publications /\ << >> \in Seq(Setups)
  BY EmptySeq DEF NoPublication, Publications, Steps, NewDoc, Docs, States
<1>2. \A s \in Setups : doc[s] = NewDoc /\ pub[s] = NoPublication /\ copy[s] = NewDoc
  BY DEF Init
<1>3. ServiceTypes
  <2>1. doc \in [Setups -> Docs] /\ copy \in [Setups -> Docs] /\ pub \in [Setups -> Publications]
    BY <1>1 DEF Init
  <2>. QED
    BY <1>1, <2>1, SetupAssumption DEF Init, ServiceTypes
<1>4. LockOK
  BY <1>2 DEF Init, LockOK, Committing, NoPublication
<1>5. \A s \in Setups : ~Scheduled(s)
  <2>1. Range(<< >>) = {}
    BY EmptySeq DEF Range
  <2>. QED
    BY <2>1, SetupAssumption DEF Init, Scheduled
<1>6. TasksOK
  <2>1. "absent" \notin Unfinished \cup Publishing /\ Working \subseteq Unfinished
    BY StateGroups
  <2>2. \A s \in Setups : doc[s].state = "absent" /\ pub[s].at = "none" /\ copy[s] = NewDoc
    BY <1>2 DEF NewDoc, NoPublication
  <2>. QED
    BY <1>5, <2>1, <2>2 DEF TasksOK, UnfinishedHasRunner, Concerns
<1>7. WorkersOK
  BY <1>2 DEF Init, WorkersOK, WithWorker, NewDoc, NoPublication, Qualifieds
<1>8. RollbackOK
  BY <1>2 DEF RollbackOK, NoPublication
<1>. QED
  BY <1>3, <1>4, <1>6, <1>7, <1>8, SetupInitially DEF ServiceInv

LEMMA ServiceInductive == ServiceInv /\ [Next]_vars => ServiceInv'
  BY SetupInductive, ServiceStep, LockStep, TasksStep, WorkersStep, RollbackStep DEF ServiceInv

LEMMA ServiceInvariance == Spec => []ServiceInv
<1>. QED
  BY ServiceInitially, ServiceInductive, PTL DEF Spec

\* The documents, queues, tasks, publications and tables have their types.
THEOREM SetupsAreTyped == Spec => []TypeOK
<1>1. ServiceInv => TypeOK
  BY DEF ServiceInv, SetupInv, ServiceTypes, RoutingInv, TypeOK
<1>. QED
  BY <1>1, ServiceInvariance, PTL

\* While the service runs, every setup that is to be carried on has its task, and
\* every setup that is being published its request (schedule_setup, retry,
\* reconcile_setups), but for those an exception of the smoke test or the rollback
\* that publish_capability_setup does not catch has stranded.
THEOREM SetupsHaveRunners == Spec => []UnfinishedHasRunner
<1>1. ServiceInv => UnfinishedHasRunner
  BY DEF ServiceInv, TasksOK
<1>. QED
  BY <1>1, ServiceInvariance, PTL

\* No document read before an await and saved after it loses the Worker, and a
\* cancel saved in a pause is not overtaken (run_setup, cancel_capability_setup).
LEMMA CancelWins ==
  ASSUME ServiceInv, [Next]_vars, NEW s \in Setups,
         doc[s].state \in Unfinished, doc[s].cancel, InPause(s), doc' # doc
  PROVE  doc'[s].state \notin Working
<1>. USE StateGroups, SetupAssumption
<1>0. /\ ServiceTypes /\ RunnerOK /\ LockOK
      /\ up => (doc[s].state \in Working => s = runner)
  BY WorkersOKMeans DEF ServiceInv, TasksOK
<1>1. up => doc[s].state \notin Working
  BY <1>0 DEF InPause, RunnerOK
<1>2. ASSUME NEW t \in Setups, t # s,
             TaskMoves(t) \/ RequestMoves(t) \/ PublishMoves(t) \/ PublicationMoves(t)
      PROVE  doc'[s].state \notin Working
  BY <1>1, <1>2 DEF TaskMoves, RequestMoves, PublishMoves, PublicationMoves, OnlyDoc
<1>3. CASE TaskMoves(s)
  <2>1. CASE Drops(s)
    BY <1>1, <1>3, <2>1 DEF TaskMoves, Drops
  <2>2. CASE Begins(s)
    BY <1>1, <1>3, <2>2 DEF TaskMoves, Begins
  <2>3. CASE Works(s)
    BY <1>1, <1>3, <2>3 DEF TaskMoves, Works, InPause
  <2>4. CASE Ends(s)
    BY <2>4 DEF Ends
  <2>. QED
    BY <1>3, <2>1, <2>2, <2>3, <2>4 DEF TaskMoves
<1>4. CASE RequestMoves(s)
  BY <1>1, <1>4 DEF RequestMoves, Creates, Polls, Retries, Notes, Settles, Awaits, SettlesLate
<1>5. CASE PublishMoves(s) \/ PublicationMoves(s)
  BY <1>1, <1>5 DEF PublishMoves, PublicationMoves, Commits, Conflicts, Smokes, Succeeds, RollsBack,
                    Reactivates, Strands, Restored
<1>6. CASE Restarts
  BY <1>0, <1>6, Reconciles
<1>7. ~(Edits \/ Stops \/ UNCHANGED vars)
  BY DEF Edits, Stops, vars, storeVars
<1>. QED
  BY <1>2, <1>3, <1>4, <1>5, <1>6, <1>7, StepKinds DEF ServiceInv

\* WorkerIsKept: stale saves keep the Worker a setup has.  CancelInPauseWins: the
\* task reads the document again after every pause.
THEOREM NothingIsLost == Spec => NothingIsForgotten
<1>1. ServiceInv /\ [Next]_vars => [\A s \in Setups : doc[s].worker => doc'[s].worker]_vars
  BY WorkersStep DEF ServiceInv
<1>2. ServiceInv /\ [Next]_vars =>
        [\A s \in Setups :
           doc[s].state \in Unfinished /\ doc[s].cancel /\ InPause(s) =>
             doc'[s].state \notin {"creating-worker", "starting-worker", "qualifying"}]_vars
  <2> SUFFICES ASSUME ServiceInv, [Next]_vars, vars' # vars, NEW s \in Setups,
                      doc[s].state \in Unfinished, doc[s].cancel, InPause(s)
               PROVE  doc'[s].state \notin Working
    BY DEF Working, Unfinished, Pausable
  <2>1. CASE doc' # doc
    BY <2>1, CancelWins
  <2>2. CASE doc' = doc /\ up
    <3>1. doc[s].state \in Working => s = runner
      BY <2>2 DEF ServiceInv, TasksOK
    <3>2. RunnerOK
      BY WorkersOKMeans DEF ServiceInv
    <3>. QED
      BY <2>2, <3>1, <3>2 DEF InPause, RunnerOK
  <2>3. CASE doc' = doc /\ ~up
    <3>1. Restarts
      BY <2>3, StepKinds DEF ServiceInv, TaskMoves, RequestMoves, PublishMoves, PublicationMoves, Edits, Stops
    <3>. QED
      BY <3>1, Reconciles, StateGroups DEF ServiceInv
  <2>. QED
    BY <2>1, <2>2, <2>3
<1>. QED
  BY <1>1, <1>2, ServiceInvariance, PTL DEF Spec, NothingIsForgotten, WorkerIsKept, CancelInPauseWins

\* A rollback that has ended has put back every revision that was live when its
\* publication began, whatever the operator, other setups and restarts did
\* meanwhile (publish_capability_setup, "prior routing restored").
THEOREM RollbacksRestore == Spec => RollbackRestores
<1>. DEFINE Back == \A s \in Setups :
              LET p == pub[s].profile IN
              pub[s].at = "restore" /\ doc'[s].state = "failed" /\ doc[s].state # "failed" =>
                  /\ live'[p] = pub[s].previous[p]
                  /\ \A q \in Profiles :
                         pub[s].previous[q] # 0 => live'[q] = pub[s].previous[q]
<1>1. ServiceInv /\ [Next]_vars => Back
  <2> SUFFICES ASSUME ServiceInv, [Next]_vars, NEW s \in Setups, pub[s].at = "restore",
                      doc'[s].state = "failed", doc[s].state # "failed"
               PROVE  /\ live'[pub[s].profile] = pub[s].previous[pub[s].profile]
                      /\ \A q \in Profiles : pub[s].previous[q] # 0 => live'[q] = pub[s].previous[q]
    OBVIOUS
  <2>1. PublicationMoves(s) \/ Stops \/ UNCHANGED vars
    BY RollbackAlone DEF ServiceInv
  <2>2. Restored(s)
    <3>1. doc' # doc
      OBVIOUS
    <3>. QED
      BY <2>1, <3>1 DEF PublicationMoves, Commits, Conflicts, Smokes, Succeeds, RollsBack, Reactivates,
                        Strands, Stops, storeVars, vars
  <2>3. live' = live /\ pub[s].todo = {}
    BY <2>2 DEF Restored
  <2>4. RolledOK(s) /\ pub[s].profile \in Profiles
    BY RollbackOKMeans DEF ServiceInv, SetupInv, PubOK
  <2>. QED
    BY <2>3, <2>4 DEF RolledOK
<1>. QED
  BY <1>1, ServiceInvariance, PTL DEF Spec, RollbackRestores

=============================================================================
