---------------------------- MODULE WorkerProofs ----------------------------
(***************************************************************************)
(* The inference Workers do one thing at a time, reach what is cancelled,  *)
(* give every request and every follower its own answer, and keep the      *)
(* protocol of WorkerProtocol, for any number of requests, jobs, followers *)
(* and calls.                                                              *)
(*                                                                         *)
(* Each runtime has an inductive invariant.  A slot's ties every           *)
(* computation, which can outlive its request, to the request in the slot  *)
(* or to a Worker that has given up.  A diffusion job's says that its      *)
(* recorded and its posted frames are together its drafts, in order, and   *)
(* that what a follower was sent is a prefix of them.  The llama.cpp       *)
(* Worker's says which call may touch the server, the Transformers         *)
(* Worker's which threads are in the model.  The Workers share no state:   *)
(* a step of one is a stutter of the others.                               *)
(***************************************************************************)
EXTENDS InferenceWorkers, FiniteSetTheorems, SequenceTheorems, TLAPS

---------------------------------------------------------------------------
(* The slot *)

InSlot == {"running", "stopping", "expired"}

\* The request in the slot is the one whose coroutine is under way.
SlotHasItsRequest ==
    /\ active # None => start = "done"
    /\ \A r \in Requests : pc[r] \in InSlot <=> active = r

\* A Worker is ready once, after its start; what computes is in the slot, or the Worker gave up.
WorkIsGuarded ==
    /\ ready => start = "done"
    /\ \A r \in Working : start = "done" /\ (active = r \/ ~ready)
    /\ \A q, r \in Working : q = r

\* What is told to stop was asked to, and nothing else says that it was cancelled.
CancellationsAreAsked ==
    /\ cancelled \subseteq asked
    /\ \A r \in Requests : work[r] = "cancelled" => r \in asked

SlotInv == SlotTypeOK /\ SlotHasItsRequest /\ WorkIsGuarded /\ CancellationsAreAsked

LEMMA SlotInitially == SlotInit => SlotInv
<1> SUFFICES ASSUME SlotInit PROVE SlotInv
  OBVIOUS
<1>1. Working = {}
  BY DEF SlotInit, Working
<1>. QED
  BY <1>1, SlotAssumption
  DEF SlotInit, SlotInv, SlotTypeOK, SlotHasItsRequest, WorkIsGuarded, CancellationsAreAsked, InSlot

---------------------------------------------------------------------------
(* Types *)

LEMMA SlotTypes == SlotTypeOK /\ SlotHasItsRequest /\ [SlotNext]_slotVars => SlotTypeOK'
<1> SUFFICES ASSUME SlotTypeOK, SlotHasItsRequest, [SlotNext]_slotVars PROVE SlotTypeOK'
  OBVIOUS
<1>1. CASE LoadEnds \/ WarmsUp \/ WarmUpDone
  BY <1>1 DEF LoadEnds, WarmsUp, WarmUpDone, requestVars, SlotTypeOK
<1>2. CASE ShutsDown
  BY <1>2 DEF ShutsDown, Terminates, SlotTypeOK
<1>3. ASSUME NEW r \in Requests, Refused(r) \/ Claims(r) \/ Spawned(r) PROVE SlotTypeOK'
  BY <1>3 DEF Refused, Claims, Spawned, SlotTypeOK
<1>4. ASSUME NEW r \in Requests, WorkEnds(r) PROVE SlotTypeOK'
  BY <1>4 DEF WorkEnds, SynthesisEnds, TranslationEnds, SceneEnds, EmbeddingEnds, ChildExits, Ends,
     Generated, SlotTypeOK
<1>5. ASSUME NEW r \in Requests, Returns(r) \/ Stops(r) \/ GraceExpires(r) PROVE SlotTypeOK'
  BY <1>5 DEF Returns, Stops, GraceExpires, Answers, ReleasedState, SlotTypeOK
<1>6. ASSUME NEW r \in Requests, Expires(r) \/ Notices(r) \/ Cancels(r) PROVE SlotTypeOK'
  BY <1>6 DEF Expires, SynthesisExpires, RecognitionExpires, TranslationExpires, SceneExpires,
     Expired, Notices, Cancels, Terminates, SlotTypeOK
<1>7. CASE UNCHANGED slotVars
  BY <1>7 DEF slotVars, SlotTypeOK
<1>8. ASSUME NEW k \in Smokes, SmokeBegins(k) \/ SmokeEnds(k) PROVE SlotTypeOK'
  BY <1>8 DEF SmokeBegins, SmokeEnds, SlotTypeOK
<1>. QED
  BY <1>1, <1>2, <1>3, <1>4, <1>5, <1>6, <1>7, <1>8 DEF SlotNext, SlotCoroutine

---------------------------------------------------------------------------
(* The kinds of steps *)

\* A start: no request is in the slot and nothing computes.
LEMMA StartKeeps ==
  ASSUME SlotInv, LoadEnds \/ WarmsUp \/ WarmUpDone
  PROVE  SlotHasItsRequest' /\ WorkIsGuarded' /\ CancellationsAreAsked'
<1>1. start # "done" /\ active = None /\ Working = {} /\ ~ready
  BY DEF LoadEnds, WarmsUp, WarmUpDone, SlotInv, SlotHasItsRequest, WorkIsGuarded
<1>2. UNCHANGED requestVars /\ (ready' => start' = "done")
  BY <1>1 DEF LoadEnds, WarmsUp, WarmUpDone
<1>3. Working' = {}
  BY <1>1, <1>2 DEF Working, requestVars
<1>. QED
  BY <1>1, <1>2, <1>3
  DEF SlotInv, SlotHasItsRequest, WorkIsGuarded, CancellationsAreAsked, requestVars

\* A claim: the Worker is ready and its slot free, so that nothing computes.
LEMMA ClaimKeeps ==
  ASSUME SlotInv, NEW r \in Requests, Claims(r)
  PROVE  SlotHasItsRequest' /\ WorkIsGuarded' /\ CancellationsAreAsked'
<1>1. Working = {} /\ start = "done"
  BY SlotAssumption DEF Claims, SlotInv, WorkIsGuarded, Working
<1>2. \A q \in Requests : pc[q] \notin InSlot
  BY SlotAssumption DEF Claims, SlotInv, SlotHasItsRequest
<1>3. \A q \in Requests : pc'[q] = IF q = r THEN "running" ELSE pc[q]
  BY DEF Claims, SlotInv, SlotTypeOK
<1>4. /\ \A q \in Requests : q # r => work'[q] = work[q]
      /\ work'[r] \in {"spawning", "running"}
  BY DEF Claims, SlotInv, SlotTypeOK
<1>5. Working' = {r}
  BY <1>1, <1>4 DEF Working
<1>6. SlotHasItsRequest'
  BY <1>1, <1>2, <1>3 DEF Claims, SlotHasItsRequest, InSlot
<1>7. WorkIsGuarded'
  BY <1>1, <1>5 DEF Claims, WorkIsGuarded
<1>8. CancellationsAreAsked'
  BY <1>4 DEF Claims, SlotInv, CancellationsAreAsked
<1>. QED
  BY <1>6, <1>7, <1>8

\* The request in the slot is answered: what it computed has ended, or the Worker gives up.
LEMMA AnswerKeeps ==
  ASSUME SlotInv, NEW r \in Requests, NEW answer, answer \notin InSlot, Answers(r, answer),
         pc[r] \in InSlot,
         \/ r \notin Working /\ UNCHANGED ready
         \/ ready' = FALSE
  PROVE  SlotHasItsRequest' /\ WorkIsGuarded' /\ CancellationsAreAsked'
<1>1. active = r /\ start = "done"
  BY SlotAssumption DEF SlotInv, SlotHasItsRequest
<1>2. \A q \in Requests : pc'[q] = IF q = r THEN answer ELSE pc[q]
  BY DEF Answers, SlotInv, SlotTypeOK
<1>3. SlotHasItsRequest'
  BY <1>1, <1>2, SlotAssumption DEF Answers, SlotInv, SlotHasItsRequest
<1>4. Working' = Working
  BY DEF Answers, Working
<1>5. \A q \in Working : q = r \/ ~ready
  BY <1>1 DEF SlotInv, WorkIsGuarded
<1>6. WorkIsGuarded'
  BY <1>1, <1>4, <1>5 DEF Answers, SlotInv, WorkIsGuarded
<1>7. CancellationsAreAsked'
  BY DEF Answers, SlotInv, CancellationsAreAsked
<1>. QED
  BY <1>3, <1>6, <1>7

\* Steps that move nobody in or out of the slot and start no computation.
LEMMA WorkShrinks ==
  ASSUME SlotInv, Working' \subseteq Working, UNCHANGED <<start, ready, active>>,
         \A q \in Requests : pc'[q] \in InSlot <=> pc[q] \in InSlot
  PROVE  SlotHasItsRequest' /\ WorkIsGuarded'
<1>1. SlotHasItsRequest'
  BY DEF SlotInv, SlotHasItsRequest
<1>2. WorkIsGuarded'
  BY DEF SlotInv, WorkIsGuarded
<1>. QED
  BY <1>1, <1>2

LEMMA TerminatesShrinks ==
  ASSUME SlotTypeOK, NEW r \in Requests, Terminates(r)
  PROVE  /\ Working' \subseteq Working
         /\ \A q \in Requests : work'[q] = "cancelled" => work[q] = "cancelled"
<1>1. \A q \in Requests : work'[q] = work[q] \/ work'[q] = "failed"
  BY DEF Terminates, SlotTypeOK
<1>. QED
  BY <1>1 DEF Working

\* The end of a computation, the creation of a process, a refusal.
LEMMA WorkKeeps ==
  ASSUME SlotInv, NEW r \in Requests, Refused(r) \/ Spawned(r) \/ WorkEnds(r)
  PROVE  SlotHasItsRequest' /\ WorkIsGuarded' /\ CancellationsAreAsked'
<1>1. UNCHANGED <<start, ready, active, cancelled, asked>>
  BY DEF Refused, Spawned, WorkEnds, SynthesisEnds, TranslationEnds, SceneEnds, EmbeddingEnds,
     ChildExits, Ends
<1>2. \A q \in Requests : pc'[q] \in InSlot <=> pc[q] \in InSlot
  BY DEF Refused, Spawned, WorkEnds, SynthesisEnds, TranslationEnds, SceneEnds, EmbeddingEnds,
     ChildExits, Ends, InSlot, SlotInv, SlotTypeOK
<1>3. \A q \in Requests :
         \/ work'[q] = work[q]
         \/ work[q] \in {"spawning", "running"} /\ (work'[q] = "cancelled" => q \in cancelled)
  BY DEF Refused, Spawned, WorkEnds, SynthesisEnds, TranslationEnds, SceneEnds, EmbeddingEnds,
     ChildExits, Ends, Generated, SlotInv, SlotTypeOK
<1>4. Working' \subseteq Working
  BY <1>3 DEF Working
<1>5. CancellationsAreAsked'
  BY <1>1, <1>3 DEF SlotInv, CancellationsAreAsked
<1>. QED
  BY <1>1, <1>2, <1>4, <1>5, WorkShrinks

\* A request that is asked to stop, or notices.
LEMMA StopKeeps ==
  ASSUME SlotInv, NEW r \in Requests, Expires(r) \/ Notices(r) \/ Cancels(r)
  PROVE  SlotHasItsRequest' /\ WorkIsGuarded' /\ CancellationsAreAsked'
<1>1. UNCHANGED <<start, ready, active>>
  BY DEF Expires, SynthesisExpires, RecognitionExpires, TranslationExpires, SceneExpires,
     Expired, Notices, Cancels
<1>2. \A q \in Requests : pc'[q] \in InSlot <=> pc[q] \in InSlot
  BY DEF Expires, SynthesisExpires, RecognitionExpires, TranslationExpires, SceneExpires,
     Expired, Notices, Cancels, InSlot, SlotInv, SlotTypeOK
<1>3. Terminates(r) \/ UNCHANGED work
  BY DEF Expires, SynthesisExpires, RecognitionExpires, TranslationExpires, SceneExpires,
     Expired, Notices, Cancels
<1>4. /\ Working' \subseteq Working
      /\ \A q \in Requests : work'[q] = "cancelled" => work[q] = "cancelled"
  BY <1>3, TerminatesShrinks DEF SlotInv, Working
<1>5. asked \subseteq asked' /\ cancelled' \subseteq cancelled \cup (asked' \cap {r})
  BY DEF Expires, SynthesisExpires, RecognitionExpires, TranslationExpires, SceneExpires,
     Expired, Notices, Cancels
<1>6. CancellationsAreAsked'
  BY <1>4, <1>5 DEF SlotInv, CancellationsAreAsked
<1>. QED
  BY <1>1, <1>2, <1>4, <1>6, WorkShrinks

LEMMA ShutdownKeeps ==
  ASSUME SlotInv, ShutsDown
  PROVE  SlotHasItsRequest' /\ WorkIsGuarded' /\ CancellationsAreAsked'
<1>1. UNCHANGED <<start, ready, active, pc>>
  BY DEF ShutsDown
<1>2. UNCHANGED work \/ (active \in Requests /\ Terminates(active))
  BY DEF ShutsDown, SlotInv, SlotTypeOK
<1>3. /\ Working' \subseteq Working
      /\ \A q \in Requests : work'[q] = "cancelled" => work[q] = "cancelled"
  BY <1>2, TerminatesShrinks DEF SlotInv, Working
<1>4. asked \subseteq asked' /\ cancelled' \subseteq cancelled \cup asked'
  BY DEF ShutsDown
<1>5. CancellationsAreAsked'
  BY <1>3, <1>4 DEF SlotInv, CancellationsAreAsked
<1>. QED
  BY <1>1, <1>3, <1>5, WorkShrinks

LEMMA EndAnswers ==
  ASSUME SlotInv, NEW r \in Requests, Returns(r) \/ Stops(r) \/ GraceExpires(r)
  PROVE  \E answer \in {"complete", "cancelled", "failed"} :
            /\ Answers(r, answer) /\ pc[r] \in InSlot
            /\ answer = "cancelled" => r \in asked
            /\ \/ r \notin Working /\ UNCHANGED ready
               \/ ready' = FALSE
<1>1. CASE Returns(r)
  BY <1>1 DEF Returns, SlotInv, CancellationsAreAsked, InSlot, Working
<1>2. CASE Stops(r)
  BY <1>2 DEF Stops, SlotInv, CancellationsAreAsked, InSlot, Working
<1>3. CASE GraceExpires(r)
  BY <1>3 DEF GraceExpires, InSlot
<1>. QED
  BY <1>1, <1>2, <1>3

LEMMA SlotStep == SlotInv /\ [SlotNext]_slotVars => SlotInv'
<1> SUFFICES ASSUME SlotInv, [SlotNext]_slotVars PROVE SlotInv'
  OBVIOUS
<1>0. SlotTypeOK'
  BY SlotTypes DEF SlotInv
<1>1. CASE LoadEnds \/ WarmsUp \/ WarmUpDone
  BY <1>0, <1>1, StartKeeps DEF SlotInv
<1>2. CASE ShutsDown
  BY <1>0, <1>2, ShutdownKeeps DEF SlotInv
<1>3. ASSUME NEW r \in Requests, Claims(r) PROVE SlotInv'
  BY <1>0, <1>3, ClaimKeeps DEF SlotInv
<1>4. ASSUME NEW r \in Requests, Refused(r) \/ Spawned(r) \/ WorkEnds(r) PROVE SlotInv'
  BY <1>0, <1>4, WorkKeeps DEF SlotInv
<1>5. ASSUME NEW r \in Requests, Returns(r) \/ Stops(r) \/ GraceExpires(r) PROVE SlotInv'
  <2>1. PICK answer \in {"complete", "cancelled", "failed"} :
            /\ Answers(r, answer) /\ pc[r] \in InSlot
            /\ (r \notin Working /\ UNCHANGED ready) \/ ready' = FALSE
    BY <1>5, EndAnswers
  <2>2. answer \notin InSlot
    BY DEF InSlot
  <2>. QED
    BY <1>0, <2>1, <2>2, AnswerKeeps DEF SlotInv
<1>6. ASSUME NEW r \in Requests, Expires(r) \/ Notices(r) \/ Cancels(r) PROVE SlotInv'
  BY <1>0, <1>6, StopKeeps DEF SlotInv
<1>7. ASSUME NEW k \in Smokes, SmokeBegins(k) \/ SmokeEnds(k) PROVE SlotInv'
  BY <1>0, <1>7
  DEF SmokeBegins, SmokeEnds, SlotInv, SlotHasItsRequest, WorkIsGuarded, CancellationsAreAsked, Working
<1>8. CASE UNCHANGED slotVars
  BY <1>0, <1>8 DEF slotVars, SlotInv, SlotHasItsRequest, WorkIsGuarded, CancellationsAreAsked, Working
<1>. QED
  BY <1>1, <1>2, <1>3, <1>4, <1>5, <1>6, <1>7, <1>8 DEF SlotNext, SlotCoroutine

LEMMA OneWorks == SlotInv => Cardinality(Working) <= 1
<1> SUFFICES ASSUME SlotInv PROVE Cardinality(Working) <= 1
  OBVIOUS
<1>1. CASE Working = {}
  BY <1>1, FS_EmptySet
<1>2. CASE \E r \in Working : Working = {r}
  BY <1>2, FS_Singleton
<1>. QED
  BY <1>1, <1>2 DEF SlotInv, WorkIsGuarded

\* A thread has outlived its request only in a Worker that has given up, which claims no slot
\* and begins no smoke test.
LEMMA NothingBegins ==
  ASSUME SlotInv, [SlotNext]_slotVars, Outlived # {}
  PROVE  Working' \subseteq Working /\ smokes' \subseteq smokes
<1>1. ~ready /\ start = "done"
  <2>1. PICK r \in Requests : r \in Working /\ pc[r] \notin InSlot
    BY DEF Outlived, Working, InSlot
  <2>2. active # r
    BY <2>1 DEF SlotInv, SlotHasItsRequest
  <2>. QED
    BY <2>1, <2>2 DEF SlotInv, WorkIsGuarded
<1>2. ASSUME NEW r \in Requests, Refused(r) \/ Spawned(r) \/ WorkEnds(r)
      PROVE  Working' \subseteq Working /\ smokes' = smokes
  <2>1. \A q \in Requests : work'[q] = work[q] \/ work[q] \in {"spawning", "running"}
    BY <1>2 DEF Refused, Spawned, WorkEnds, SynthesisEnds, TranslationEnds, SceneEnds, EmbeddingEnds,
       ChildExits, Ends, SlotInv, SlotTypeOK
  <2>. QED
    BY <1>2, <2>1 DEF Working, Refused, Spawned, WorkEnds, SynthesisEnds, TranslationEnds, SceneEnds,
       EmbeddingEnds, ChildExits, Ends
<1>3. ASSUME NEW r \in Requests, Returns(r) \/ Stops(r) \/ GraceExpires(r)
      PROVE  Working' = Working /\ smokes' = smokes
  BY <1>3 DEF Returns, Stops, GraceExpires, Answers, Working
<1>4. ASSUME NEW r \in Requests, Expires(r) \/ Notices(r) \/ Cancels(r)
      PROVE  Working' \subseteq Working /\ smokes' = smokes
  <2>1. (Terminates(r) \/ UNCHANGED work) /\ smokes' = smokes
    BY <1>4 DEF Expires, SynthesisExpires, RecognitionExpires, TranslationExpires, SceneExpires,
       Expired, Notices, Cancels
  <2>. QED
    BY <2>1, TerminatesShrinks DEF SlotInv, Working
<1>5. CASE ShutsDown
  <2>1. UNCHANGED work \/ (active \in Requests /\ Terminates(active))
    BY <1>5 DEF ShutsDown, SlotInv, SlotTypeOK
  <2>. QED
    BY <1>5, <2>1, TerminatesShrinks DEF ShutsDown, SlotInv, Working
<1>6. ASSUME NEW k \in Smokes, SmokeBegins(k) \/ SmokeEnds(k)
      PROVE  Working' = Working /\ smokes' \subseteq smokes
  BY <1>1, <1>6 DEF SmokeBegins, SmokeEnds, Working
<1>7. CASE UNCHANGED slotVars
  BY <1>7 DEF slotVars, Working
<1>8. ~(LoadEnds \/ WarmsUp \/ WarmUpDone) /\ \A r \in Requests : ~Claims(r)
  BY <1>1 DEF LoadEnds, WarmsUp, WarmUpDone, Claims
<1>. QED
  BY <1>2, <1>3, <1>4, <1>5, <1>6, <1>7, <1>8 DEF SlotNext, SlotCoroutine

\* The invariant of the slot.
THEOREM SlotInvariant == SlotSpec => []SlotInv
<1>. QED
  BY SlotInitially, SlotStep, PTL DEF SlotSpec

---------------------------------------------------------------------------

\* Requests compute one at a time, whatever hangs, is cancelled or is given up, and beside a
\* thread that was given up nothing starts, no smoke test either (_claim_slot,
\* _await_cancelled_task, smoke).
THEOREM SlotComputesOneRequest == SlotSpec => OneRequestComputes
<1>1. SlotInv /\ [SlotNext]_slotVars =>
        [Outlived # {} => Working' \subseteq Working /\ smokes' \subseteq smokes]_slotVars
  BY NothingBegins
<1>. QED
  BY <1>1, OneWorks, SlotInvariant, PTL DEF SlotSpec, OneRequestComputes

---------------------------------------------------------------------------
(* The slot keeps the protocol *)

\* The protocol's view of a request.
Phase(at) == IF at \in InSlot THEN "active" ELSE at

Phases == [r \in Requests |-> Phase(pc[r])]

\* A step of one request, seen by the protocol.
LEMMA PhaseChanges ==
  ASSUME SlotTypeOK, NEW r \in Requests, NEW label, pc' = [pc EXCEPT ![r] = label]
  PROVE  Phases' = [Phases EXCEPT ![r] = Phase(label)]
  BY DEF SlotTypeOK, Phases

\* Steps inside a phase.
LEMMA PhaseStays ==
  ASSUME \A q \in Requests : pc'[q] = pc[q] \/ (pc[q] \in InSlot /\ pc'[q] \in InSlot)
  PROVE  Phases' = Phases
  BY DEF Phases, Phase

LEMMA MappedPhases ==
  /\ [r \in Requests |-> IF pc[r] \in {"running", "stopping", "expired"} THEN "active" ELSE pc[r]]
       = Phases
  BY DEF Phases, Phase, InSlot

LEMMA AskedGrows ==
  ASSUME SlotInv, [SlotNext]_slotVars
  PROVE  asked \subseteq asked' /\ asked' \subseteq Requests
<1>1. asked' \subseteq Requests
  BY SlotStep DEF SlotInv, SlotTypeOK
<1>2. asked \subseteq asked'
  BY DEF SlotNext, slotVars, LoadEnds, WarmsUp, WarmUpDone, requestVars, ShutsDown, Refused, Claims,
     Spawned, WorkEnds, SynthesisEnds, TranslationEnds, SceneEnds, EmbeddingEnds, ChildExits, Ends,
     SlotCoroutine, Returns, Stops, GraceExpires, Answers, Expires, SynthesisExpires,
     RecognitionExpires, TranslationExpires, SceneExpires, Expired, Notices, Cancels,
     SmokeBegins, SmokeEnds
<1>. QED
  BY <1>1, <1>2

\* What a step does to the phases.
LEMMA StepIsProtocol ==
  ASSUME SlotInv, [SlotNext]_slotVars
  PROVE  \/ Phases' = Phases
         \/ \E r \in Requests :
               /\ Phases[r] = "new"
               /\ \/ Phases' = [Phases EXCEPT ![r] = "refused"]
                  \/ /\ \A q \in Requests : Phases[q] # "active"
                     /\ Phases' = [Phases EXCEPT ![r] = "active"]
         \/ \E r \in Requests, answer \in {"complete", "cancelled", "failed"} :
               /\ Phases[r] = "active" /\ (answer = "cancelled" => r \in asked)
               /\ Phases' = [Phases EXCEPT ![r] = answer]
<1>1. CASE LoadEnds \/ WarmsUp \/ WarmUpDone \/ ShutsDown \/ UNCHANGED slotVars
  BY <1>1, PhaseStays DEF LoadEnds, WarmsUp, WarmUpDone, ShutsDown, requestVars, slotVars
<1>2. ASSUME NEW r \in Requests, Spawned(r) \/ WorkEnds(r) \/ Cancels(r)
      PROVE  Phases' = Phases
  BY <1>2, PhaseStays DEF Spawned, WorkEnds, SynthesisEnds, TranslationEnds, SceneEnds,
     EmbeddingEnds, ChildExits, Ends, Cancels
<1>3. ASSUME NEW r \in Requests, Expires(r) \/ Notices(r) PROVE Phases' = Phases
  <2>1. pc[r] \in InSlot /\ \E label \in InSlot : pc' = [pc EXCEPT ![r] = label]
    BY <1>3 DEF Expires, SynthesisExpires, RecognitionExpires, TranslationExpires, SceneExpires,
       Expired, Notices, InSlot
  <2>. QED
    BY <2>1, PhaseStays DEF SlotInv, SlotTypeOK
<1>4. ASSUME NEW r \in Requests, Refused(r)
      PROVE  Phases[r] = "new" /\ Phases' = [Phases EXCEPT ![r] = "refused"]
  <2>1. Phases' = [Phases EXCEPT ![r] = Phase("refused")]
    BY <1>4, PhaseChanges DEF Refused, SlotInv
  <2>. QED
    BY <1>4, <2>1 DEF Refused, Phases, Phase, InSlot
<1>5. ASSUME NEW r \in Requests, Claims(r)
      PROVE  /\ Phases[r] = "new" /\ \A q \in Requests : Phases[q] # "active"
             /\ Phases' = [Phases EXCEPT ![r] = "active"]
  <2>1. Phases' = [Phases EXCEPT ![r] = Phase("running")]
    BY <1>5, PhaseChanges DEF Claims, SlotInv
  <2>2. \A q \in Requests : pc[q] \notin InSlot /\ pc[q] # "active"
    BY <1>5, SlotAssumption DEF Claims, SlotInv, SlotHasItsRequest, SlotTypeOK
  <2>3. Phases[r] = "new"
    BY <1>5 DEF Claims, Phases, Phase, InSlot
  <2>. QED
    BY <2>1, <2>2, <2>3 DEF Phases, Phase, InSlot
<1>6. ASSUME NEW r \in Requests, Returns(r) \/ Stops(r) \/ GraceExpires(r)
      PROVE  \E answer \in {"complete", "cancelled", "failed"} :
               /\ Phases[r] = "active" /\ (answer = "cancelled" => r \in asked)
               /\ Phases' = [Phases EXCEPT ![r] = answer]
  <2>1. PICK answer \in {"complete", "cancelled", "failed"} :
            Answers(r, answer) /\ pc[r] \in InSlot /\ (answer = "cancelled" => r \in asked)
    BY <1>6, EndAnswers
  <2>2. Phases' = [Phases EXCEPT ![r] = Phase(answer)]
    BY <2>1, PhaseChanges DEF Answers, SlotInv
  <2>3. Phase(answer) = answer
    BY DEF Phase, InSlot
  <2>4. Phases[r] = "active"
    BY <2>1 DEF Phases, Phase
  <2>. QED
    BY <2>1, <2>2, <2>3, <2>4
<1>7. ASSUME NEW k \in Smokes, SmokeBegins(k) \/ SmokeEnds(k) PROVE Phases' = Phases
  BY <1>7, PhaseStays DEF SmokeBegins, SmokeEnds
<1>. QED
  BY <1>1, <1>2, <1>3, <1>4, <1>5, <1>6, <1>7 DEF SlotNext, SlotCoroutine

LEMMA SlotProtocolInitially == SlotInit => SlotProtocol!Init
  BY DEF SlotInit, SlotProtocol!Init

LEMMA SlotProtocolStep ==
  SlotInv /\ [SlotNext]_slotVars => [SlotProtocol!Next]_(SlotProtocol!vars)
<1> SUFFICES ASSUME SlotInv, [SlotNext]_slotVars
             PROVE  SlotProtocol!Next
  OBVIOUS
<1>1. asked \subseteq asked' /\ asked' \subseteq Requests
  BY AskedGrows
<1>2. CASE Phases' = Phases
  BY <1>1, <1>2 DEF SlotProtocol!Next, Phases, Phase, InSlot
<1>3. ASSUME NEW r \in Requests, Phases[r] = "new", Phases' = [Phases EXCEPT ![r] = "refused"]
      PROVE  SlotProtocol!Next
  <2>1. SlotProtocol!Accept(r)
    BY <1>3 DEF SlotProtocol!Accept, Phases, Phase, InSlot
  <2>. QED
    BY <1>1, <2>1 DEF SlotProtocol!Next
<1>4. ASSUME NEW r \in Requests, Phases[r] = "new", \A q \in Requests : Phases[q] # "active",
             Phases' = [Phases EXCEPT ![r] = "active"]
      PROVE  SlotProtocol!Next
  <2>1. SlotProtocol!Active = {}
    BY <1>4 DEF SlotProtocol!Active, Phases, Phase, InSlot
  <2>2. SlotProtocol!Accept(r)
    BY <1>4, <2>1 DEF SlotProtocol!Accept, Phases, Phase, InSlot
  <2>. QED
    BY <1>1, <2>2 DEF SlotProtocol!Next
<1>5. ASSUME NEW r \in Requests, NEW answer \in {"complete", "cancelled", "failed"},
             Phases[r] = "active", answer = "cancelled" => r \in asked,
             Phases' = [Phases EXCEPT ![r] = answer]
      PROVE  SlotProtocol!Next
  <2>1. SlotProtocol!End(r, answer)
    BY <1>5 DEF SlotProtocol!End, Phases, Phase, InSlot
  <2>2. answer \in SlotProtocol!Answers
    BY DEF SlotProtocol!Answers
  <2>. QED
    BY <1>1, <2>1, <2>2 DEF SlotProtocol!Next
<1>. QED
  BY <1>2, <1>3, <1>4, <1>5, StepIsProtocol

\* The slot Workers implement the protocol of WorkerProtocol: each accepted request is answered
\* once, one at a time, and as cancelled only when somebody asked.
THEOREM SlotImplementsProtocol == SlotSpec => SlotKeepsProtocol
  BY SlotProtocolInitially, SlotProtocolStep, SlotInvariant, PTL
  DEF SlotSpec, SlotKeepsProtocol, SlotProtocol!Spec

---------------------------------------------------------------------------
(* The diffusion Worker *)

JobStates == {"none", "queued", "running"} \cup J!Ended

\* The tables of the jobs and of their followers.
JobTables ==
    /\ J!JobsTypeOK
    /\ frames \in [Jobs -> Seq(Nat)] /\ posted \in [Jobs -> Seq(Nat)] /\ drafts \in [Jobs -> Nat]
    /\ batch \in [Subscribers -> Seq(Nat)] /\ seen \in [Subscribers -> Seq(Nat)]

\* The drafts of a job that become frames: the last step of all is left to the terminal frame.
Publishable(d) == IF d >= TotalSteps THEN TotalSteps - 1 ELSE d

\* A sequence that counts on from a number.
CountsFrom(q, n) == \A i \in 1 .. Len(q) : q[i] = n + i

\* Where a job is: its coroutine, its thread and the lock agree.
JobFollowsThread(j) ==
    /\ thread[j] = "none" => drafts[j] = 0 /\ posted[j] = << >> /\ state[j] \notin J!Ended
    /\ state[j] \in {"none", "queued"} => thread[j] = "none"
    /\ state[j] \in J!Ended => thread[j] = state[j] /\ (state[j] # "failed" => posted[j] = << >>)
    /\ j \in lock <=> state[j] = "running" /\ thread[j] # "none"
    /\ thread[j] = "cancelled" => j \in stop

\* What is recorded and what is on its way are the drafts, in their order; the frames of a job
\* that has ended are those drafts and the terminal frame.
FramesAreDrafts(j) ==
    /\ state[j] \notin J!Ended =>
        /\ Len(frames[j]) + Len(posted[j]) = Publishable(drafts[j])
        /\ CountsFrom(frames[j], 0) /\ CountsFrom(posted[j], Len(frames[j]))
    /\ state[j] \in {"complete", "cancelled"} =>
        /\ Len(frames[j]) = Publishable(drafts[j]) + 1
        /\ \A i \in 1 .. Publishable(drafts[j]) : frames[j][i] = i
        /\ frames[j][Publishable(drafts[j]) + 1] = 0

\* What a follower was sent and what it is sending are the first frames of its job.
SentIsAPrefix(s) ==
    LET j == Follows[s] IN
    state[j] # "failed" =>
        /\ Len(seen[s]) + Len(batch[s]) <= Len(frames[j])
        /\ \A i \in 1 .. Len(seen[s]) : seen[s][i] = frames[j][i]
        /\ \A i \in 1 .. Len(batch[s]) : batch[s][i] = frames[j][Len(seen[s]) + i]

\* A follower that saw the end of its job has all of its frames.
SeenTheEnd(s) ==
    LET j == Follows[s] IN
    /\ reader[s] # "sending" => batch[s] = << >>
    /\ reader[s] = "done" => seenState[s] \in J!Ended
    /\ reader[s] \in {"sending", "done"} /\ seenState[s] \in J!Ended =>
        /\ state[j] = seenState[s]
        /\ state[j] # "failed" => Len(seen[s]) + Len(batch[s]) = Len(frames[j])

JobsInv ==
    /\ JobTables
    /\ \A i, j \in lock : i = j
    /\ \A j \in Jobs : JobFollowsThread(j) /\ FramesAreDrafts(j)
    /\ \A s \in Subscribers : SentIsAPrefix(s) /\ SeenTheEnd(s)

LEMMA JobsInitially == J!JobsInit => JobsInv
<1> SUFFICES ASSUME J!JobsInit PROVE JobsInv
  OBVIOUS
<1>1. << >> \in Seq(Nat) /\ Len(<< >>) = 0 /\ \A n \in Nat : << >> \in Seq(0 .. n) /\ << >> \in Seq(1 .. n)
  BY EmptySeq
<1>2. JobTables
  BY <1>1, JobsAssumption DEF J!JobsInit, JobTables, J!JobsTypeOK
<1>3. \A j \in Jobs : JobFollowsThread(j)
  BY DEF J!JobsInit, JobFollowsThread, J!Ended
<1>4. \A j \in Jobs : FramesAreDrafts(j)
  BY <1>1, JobsAssumption DEF J!JobsInit, FramesAreDrafts, CountsFrom, Publishable, J!Ended
<1>5. \A s \in Subscribers : SentIsAPrefix(s) /\ SeenTheEnd(s)
  BY <1>1, JobsAssumption DEF J!JobsInit, SentIsAPrefix, SeenTheEnd, J!Ended
<1>. QED
  BY <1>2, <1>3, <1>4, <1>5 DEF J!JobsInit, JobsInv

---------------------------------------------------------------------------
(* Sequences of frames *)

LEMMA UpTo ==
  ASSUME NEW n \in Nat, NEW m \in Nat, n <= m
  PROVE  /\ [i \in 1 .. n |-> i] \in Seq(0 .. m)
         /\ Len([i \in 1 .. n |-> i]) = n
         /\ \A i \in 1 .. n : [k \in 1 .. n |-> k][i] = i
<1>1. [i \in 1 .. n |-> i] \in [1 .. n -> 0 .. m]
  OBVIOUS
<1>2. [i \in 1 .. n |-> i] \in Seq(0 .. m)
  BY <1>1, SeqDef
<1>3. Len([i \in 1 .. n |-> i]) = n
  BY <1>2, LenProperties
<1>. QED
  BY <1>2, <1>3

\* _finalise_frames
LEMMA FinalFramesAre ==
  ASSUME NEW d \in Nat, NEW m \in Nat, d <= m
  PROVE  /\ J!FinalFrames(d) \in Seq(0 .. m)
         /\ Publishable(d) \in Nat
         /\ Len(J!FinalFrames(d)) = Publishable(d) + 1
         /\ \A i \in 1 .. Publishable(d) : J!FinalFrames(d)[i] = i
         /\ J!FinalFrames(d)[Publishable(d) + 1] = 0
<1>1. Publishable(d) \in Nat /\ Publishable(d) <= m /\ 0 \in 0 .. m
  BY JobsAssumption DEF Publishable
<1>2. J!FinalFrames(d) = Append([i \in 1 .. Publishable(d) |-> i], 0)
  BY DEF J!FinalFrames, Publishable
<1>3. PICK q \in Seq(0 .. m) : /\ q = [i \in 1 .. Publishable(d) |-> i]
                               /\ Len(q) = Publishable(d)
                               /\ \A i \in 1 .. Publishable(d) : q[i] = i
  BY <1>1, UpTo
<1>4. /\ Append(q, 0) \in Seq(0 .. m) /\ Len(Append(q, 0)) = Len(q) + 1
      /\ \A i \in 1 .. Len(q) : Append(q, 0)[i] = q[i]
      /\ Append(q, 0)[Len(q) + 1] = 0
  BY <1>1, AppendProperties
<1>. QED
  BY <1>1, <1>2, <1>3, <1>4

\* A frame goes from the front of those posted to the end of those recorded.
LEMMA FrameMoves ==
  ASSUME NEW f \in Seq(Nat), NEW p \in Seq(Nat), p # << >>,
         CountsFrom(f, 0), CountsFrom(p, Len(f))
  PROVE  /\ Append(f, Head(p)) \in Seq(Nat) /\ Tail(p) \in Seq(Nat)
         /\ Len(Append(f, Head(p))) = Len(f) + 1 /\ Len(Tail(p)) = Len(p) - 1
         /\ CountsFrom(Append(f, Head(p)), 0)
         /\ CountsFrom(Tail(p), Len(Append(f, Head(p))))
         /\ \A i \in 1 .. Len(f) : Append(f, Head(p))[i] = f[i]
<1>1. /\ Head(p) \in Nat /\ Tail(p) \in Seq(Nat) /\ Len(Tail(p)) = Len(p) - 1
      /\ \A i \in 1 .. Len(Tail(p)) : Tail(p)[i] = p[i + 1]
  BY HeadTailProperties
<1>2. Len(p) \in Nat \ {0} /\ Len(f) \in Nat /\ Head(p) = p[1]
  BY EmptySeq
<1>3. Head(p) = Len(f) + 1
  BY <1>2 DEF CountsFrom
<1>4. PICK h \in Nat : h = Head(p)
  BY <1>1
<1>5. /\ Append(f, h) \in Seq(Nat) /\ Len(Append(f, h)) = Len(f) + 1
      /\ \A i \in 1 .. Len(f) : Append(f, h)[i] = f[i]
      /\ Append(f, h)[Len(f) + 1] = h
  BY AppendProperties
<1>6. PICK g \in Seq(Nat) : g = Append(f, h)
  BY <1>5
<1>7. CountsFrom(g, 0)
  <2>1. ASSUME NEW i \in 1 .. Len(g) PROVE g[i] = 0 + i
    <3>1. CASE i \in 1 .. Len(f)
      BY <1>2, <1>5, <1>6, <3>1 DEF CountsFrom
    <3>2. CASE i = Len(f) + 1
      BY <1>2, <1>3, <1>4, <1>5, <1>6, <3>2
    <3>. QED
      BY <1>2, <1>5, <1>6, <3>1, <3>2
  <2>. QED
    BY <2>1 DEF CountsFrom
<1>8. PICK t \in Seq(Nat) : t = Tail(p)
  BY <1>1
<1>9. CountsFrom(t, Len(g))
  <2>1. ASSUME NEW i \in 1 .. Len(t) PROVE t[i] = Len(g) + i
    <3>1. i + 1 \in 1 .. Len(p) /\ t[i] = p[i + 1]
      BY <1>1, <1>2, <1>8
    <3>2. p[i + 1] = Len(f) + (i + 1)
      BY <3>1 DEF CountsFrom
    <3>. QED
      BY <1>2, <1>5, <1>6, <3>1, <3>2
  <2>. QED
    BY <2>1 DEF CountsFrom
<1>. QED
  BY <1>1, <1>4, <1>5, <1>6, <1>7, <1>8, <1>9

\* One more draft is posted.
LEMMA DraftPosted ==
  ASSUME NEW p \in Seq(Nat), NEW n \in Nat, CountsFrom(p, n)
  PROVE  /\ Append(p, n + Len(p) + 1) \in Seq(Nat)
         /\ Len(Append(p, n + Len(p) + 1)) = Len(p) + 1
         /\ CountsFrom(Append(p, n + Len(p) + 1), n)
<1>0. Len(p) \in Nat
  BY LenProperties
<1>1. PICK h \in Nat : h = n + Len(p) + 1
  BY <1>0
<1>2. /\ Append(p, h) \in Seq(Nat) /\ Len(Append(p, h)) = Len(p) + 1
      /\ \A i \in 1 .. Len(p) : Append(p, h)[i] = p[i]
      /\ Append(p, h)[Len(p) + 1] = h
  BY AppendProperties
<1>3. PICK g \in Seq(Nat) : g = Append(p, h)
  BY <1>2
<1>4. ASSUME NEW i \in 1 .. Len(g) PROVE g[i] = n + i
  <2>1. CASE i \in 1 .. Len(p)
    BY <1>2, <1>3, <2>1 DEF CountsFrom
  <2>2. CASE i = Len(p) + 1
    BY <1>0, <1>1, <1>2, <1>3, <2>2
  <2>. QED
    BY <1>0, <1>2, <1>3, <2>1, <2>2
<1>. QED
  BY <1>1, <1>2, <1>3, <1>4 DEF CountsFrom

---------------------------------------------------------------------------
(* The steps of a job *)

\* A job that has ended keeps its state and frames; one that goes on, or ends with a result,
\* keeps the frames it has.
FramesStay(j) ==
    /\ state[j] \in J!Ended => state'[j] = state[j] /\ frames'[j] = frames[j]
    /\ state'[j] # "failed" =>
        /\ Len(frames[j]) <= Len(frames'[j])
        /\ \A i \in 1 .. Len(frames[j]) : frames'[j][i] = frames[j][i]

\* A job's steps only wake its followers.
FollowersWait ==
    /\ UNCHANGED <<seenState, batch, seen>>
    /\ reader' \in [Subscribers -> {"new", "looking", "sending", "waiting", "done"}]
    /\ \A s \in Subscribers : reader'[s] = reader[s] \/ (reader[s] = "waiting" /\ reader'[s] = "looking")

OtherJobsStay(j) ==
    \A k \in Jobs \ {j} :
        /\ state'[k] = state[k] /\ frames'[k] = frames[k] /\ drafts'[k] = drafts[k]
        /\ thread'[k] = thread[k] /\ posted'[k] = posted[k]
        /\ (k \in lock' <=> k \in lock) /\ (k \in stop' <=> k \in stop)

\* The tables, entry by entry.
LEMMA JobEntries ==
  ASSUME JobTables, NEW j \in Jobs
  PROVE  /\ frames[j] \in Seq(Nat) /\ frames[j] \in Seq(0 .. MaxDrafts[j])
         /\ posted[j] \in Seq(Nat) /\ posted[j] \in Seq(1 .. MaxDrafts[j])
         /\ drafts[j] \in Nat /\ drafts[j] <= MaxDrafts[j] /\ MaxDrafts[j] \in Nat
         /\ Len(frames[j]) \in Nat /\ Len(posted[j]) \in Nat
         /\ state[j] \in JobStates /\ thread[j] \in {"none", "running"} \cup J!Ended
<1>1. MaxDrafts[j] \in Nat
  BY JobsAssumption
<1>2. frames[j] \in Seq(Nat) /\ posted[j] \in Seq(Nat)
  BY DEF JobTables
<1>. QED
  BY <1>1, <1>2, LenProperties DEF JobTables, J!JobsTypeOK, JobStates

LEMMA PrefixIndices ==
  ASSUME NEW a \in Nat, NEW b \in Nat, NEW c \in Nat, a + b <= c
  PROVE  (\A i \in 1 .. a : i \in 1 .. c) /\ (\A i \in 1 .. b : a + i \in 1 .. c)
  OBVIOUS

LEMMA OneMore ==
  ASSUME NEW a \in Nat, NEW b \in Nat, NEW n \in Nat, a + b = n
  PROVE  n + 1 = a + b + 1
  OBVIOUS

LEMMA JobStepKeeps ==
  ASSUME JobsInv, NEW j \in Jobs, JobTables', OtherJobsStay(j), FollowersWait, FramesStay(j),
         JobFollowsThread(j)', FramesAreDrafts(j)', lock' = lock \/ lock' \subseteq lock \/ lock' = {j}
  PROVE  JobsInv'
<1>1. ASSUME NEW k \in Jobs, k # j
      PROVE  JobFollowsThread(k)' /\ FramesAreDrafts(k)' /\ FramesStay(k)
  <2>1. JobFollowsThread(k) /\ FramesAreDrafts(k) /\ Len(frames[k]) \in Nat
    BY JobEntries DEF JobsInv
  <2>2. /\ state'[k] = state[k] /\ frames'[k] = frames[k] /\ drafts'[k] = drafts[k]
        /\ thread'[k] = thread[k] /\ posted'[k] = posted[k]
        /\ (k \in lock' <=> k \in lock) /\ (k \in stop' <=> k \in stop)
    BY <1>1 DEF OtherJobsStay
  <2>3. JobFollowsThread(k)'
    BY <2>1, <2>2 DEF JobFollowsThread
  <2>4. FramesAreDrafts(k)'
    BY <2>1, <2>2 DEF FramesAreDrafts
  <2>5. FramesStay(k)
    BY <2>1, <2>2 DEF FramesStay
  <2>. QED
    BY <2>3, <2>4, <2>5
<1>2. \A k \in Jobs : JobFollowsThread(k)' /\ FramesAreDrafts(k)' /\ FramesStay(k)
  BY <1>1
<1>3. ASSUME NEW s \in Subscribers PROVE SentIsAPrefix(s)' /\ SeenTheEnd(s)'
  <2>1. Follows[s] \in Jobs /\ seen[s] \in Seq(Nat) /\ batch[s] \in Seq(Nat)
    BY JobsAssumption DEF JobsInv, JobTables
  <2>2. SentIsAPrefix(s) /\ SeenTheEnd(s) /\ FramesStay(Follows[s])
    BY <1>2, <2>1 DEF JobsInv
  <2>3. Len(seen[s]) \in Nat /\ Len(batch[s]) \in Nat /\ Len(frames[Follows[s]]) \in Nat
        /\ Len(frames[Follows[s]])' \in Nat
    BY <2>1, LenProperties DEF JobsInv, JobTables
  <2>4. UNCHANGED <<seenState, batch, seen>>
        /\ (reader'[s] = reader[s] \/ (reader[s] = "waiting" /\ reader'[s] = "looking"))
    BY DEF FollowersWait
  <2>5. SentIsAPrefix(s)'
    <3>1. SUFFICES ASSUME state'[Follows[s]] # "failed" PROVE SentIsAPrefix(s)'
      BY DEF SentIsAPrefix
    <3>2. state[Follows[s]] # "failed"
      BY <2>2, <3>1 DEF FramesStay, J!Ended
    <3>3. /\ Len(frames[Follows[s]]) <= Len(frames'[Follows[s]])
          /\ \A i \in 1 .. Len(frames[Follows[s]]) : frames'[Follows[s]][i] = frames[Follows[s]][i]
      BY <2>2, <3>1 DEF FramesStay
    <3>4. /\ Len(seen[s]) + Len(batch[s]) <= Len(frames[Follows[s]])
          /\ \A i \in 1 .. Len(seen[s]) : seen[s][i] = frames[Follows[s]][i]
          /\ \A i \in 1 .. Len(batch[s]) : batch[s][i] = frames[Follows[s]][Len(seen[s]) + i]
      BY <2>2, <3>2 DEF SentIsAPrefix
    <3>5. /\ \A i \in 1 .. Len(seen[s]) : i \in 1 .. Len(frames[Follows[s]])
          /\ \A i \in 1 .. Len(batch[s]) : Len(seen[s]) + i \in 1 .. Len(frames[Follows[s]])
      BY <2>3, <3>4, PrefixIndices
    <3>6. PICK a \in Nat, b \in Nat, c \in Nat, d \in Nat :
             a = Len(seen[s]) /\ b = Len(batch[s]) /\ c = Len(frames[Follows[s]])
             /\ d = Len(frames'[Follows[s]])
      BY <2>3
    <3>7. Len(seen[s]) + Len(batch[s]) <= Len(frames'[Follows[s]])
      <4>1. a + b <= c /\ c <= d
        BY <3>3, <3>4, <3>6
      <4>2. a + b <= d
        BY <4>1
      <4>. QED
        BY <3>6, <4>2
    <3>8. /\ \A i \in 1 .. Len(seen[s]) : seen[s][i] = frames'[Follows[s]][i]
          /\ \A i \in 1 .. Len(batch[s]) : batch[s][i] = frames'[Follows[s]][Len(seen[s]) + i]
      BY <3>3, <3>4, <3>5
    <3>. QED
      BY <2>4, <3>7, <3>8 DEF SentIsAPrefix
  <2>6. SeenTheEnd(s)'
    BY <2>2, <2>4 DEF SeenTheEnd, FramesStay
  <2>. QED
    BY <2>5, <2>6
<1>4. \A i, k \in lock' : i = k
  BY DEF JobsInv
<1>. QED
  BY <1>2, <1>3, <1>4 DEF JobsInv

\* Steps that touch no frames: the job is made, started, cancelled, its thread starts or ends.
LEMMA QuietJobKeeps ==
  ASSUME JobsInv, NEW j \in Jobs,
         J!Diffuse(j) \/ J!Refine(j) \/ J!Locks(j) \/ J!ThreadEnds(j) \/ J!CancelJob(j)
  PROVE  JobsInv'
<1>1. UNCHANGED <<frames, posted, drafts, reader, seenState, batch, seen>>
  BY DEF J!Diffuse, J!Refine, J!Locks, J!ThreadEnds, J!CancelJob, J!readerVars
<1>2. JobTables'
  BY <1>1 DEF J!Diffuse, J!Refine, J!Locks, J!ThreadEnds, J!CancelJob, JobsInv, JobTables,
     J!JobsTypeOK, J!Ended
<1>3. OtherJobsStay(j) /\ FollowersWait
  BY <1>1 DEF J!Diffuse, J!Refine, J!Locks, J!ThreadEnds, J!CancelJob, JobsInv, JobTables,
     J!JobsTypeOK, OtherJobsStay, FollowersWait
<1>4. JobFollowsThread(j) /\ FramesAreDrafts(j) /\ Len(frames[j]) \in Nat /\ JobTables
  BY JobEntries DEF JobsInv
<1>5. JobFollowsThread(j)'
  BY <1>1, <1>4 DEF J!Diffuse, J!Refine, J!Locks, J!ThreadEnds, J!CancelJob, JobTables, J!JobsTypeOK,
     JobFollowsThread, J!Ended
<1>6. (state[j] \in J!Ended => state'[j] = state[j]) /\ (state'[j] \in J!Ended => state[j] \in J!Ended)
  BY DEF J!Diffuse, J!Refine, J!Locks, J!ThreadEnds, J!CancelJob, JobsInv, JobTables, J!JobsTypeOK,
     J!Ended
<1>7. FramesAreDrafts(j)'
  BY <1>1, <1>4, <1>6 DEF FramesAreDrafts, J!Ended
<1>9. FramesStay(j)
  BY <1>1, <1>4, <1>6 DEF FramesStay, J!Ended
<1>8. lock' = lock \/ lock' = {j}
  BY DEF J!Diffuse, J!Refine, J!Locks, J!ThreadEnds, J!CancelJob
<1>. QED
  BY <1>2, <1>3, <1>5, <1>7, <1>8, <1>9, JobStepKeeps

\* put_draft
LEMMA DraftKeeps ==
  ASSUME JobsInv, NEW j \in Jobs, J!Draft(j)
  PROVE  JobsInv'
<1>0. /\ JobTables /\ JobFollowsThread(j) /\ FramesAreDrafts(j)
      /\ thread[j] = "running" /\ drafts[j] < MaxDrafts[j]
      /\ UNCHANGED <<state, frames, lock, stop, thread, reader, seenState, batch, seen>>
  BY DEF J!Draft, JobsInv, J!readerVars
<1>1. /\ drafts[j] \in Nat /\ MaxDrafts[j] \in Nat
      /\ posted[j] \in Seq(Nat) /\ posted[j] \in Seq(1 .. MaxDrafts[j]) /\ Len(frames[j]) \in Nat
      /\ Len(posted[j]) \in Nat
  BY <1>0, JobEntries
<1>2. state[j] \notin J!Ended
  BY <1>0 DEF JobFollowsThread, J!Ended
<1>3. /\ Len(frames[j]) + Len(posted[j]) = Publishable(drafts[j])
      /\ CountsFrom(frames[j], 0) /\ CountsFrom(posted[j], Len(frames[j]))
  BY <1>0, <1>2 DEF FramesAreDrafts
<1>4. drafts' = [drafts EXCEPT ![j] = drafts[j] + 1] /\ drafts'[j] = drafts[j] + 1
  BY <1>0 DEF J!Draft, JobTables
<1>5. CASE drafts[j] + 1 < TotalSteps
  <2>0. Publishable(drafts[j]) = drafts[j] /\ Publishable(drafts[j] + 1) = drafts[j] + 1
    BY <1>1, <1>5, JobsAssumption DEF Publishable
  <2>1. drafts[j] + 1 = Len(frames[j]) + Len(posted[j]) + 1 /\ Publishable(drafts[j] + 1) = drafts[j] + 1
    BY <1>1, <1>3, <2>0, OneMore
  <2>2. PICK p \in Seq(Nat) : /\ p = Append(posted[j], drafts[j] + 1)
                              /\ Len(p) = Len(posted[j]) + 1 /\ CountsFrom(p, Len(frames[j]))
    BY <1>1, <1>3, <2>1, DraftPosted
  <2>3. drafts[j] + 1 \in 1 .. MaxDrafts[j]
    BY <1>0, <1>1
  <2>4. p \in Seq(1 .. MaxDrafts[j])
    BY <1>1, <2>2, <2>3, AppendProperties
  <2>5. posted' = [posted EXCEPT ![j] = p]
    BY <1>4, <1>5, <2>2 DEF J!Draft, J!Published
  <2>6. JobTables'
    <3>1. posted' \in [Jobs -> Seq(Nat)] /\ \A k \in Jobs : posted'[k] \in Seq(1 .. MaxDrafts[k])
      BY <1>0, <2>2, <2>4, <2>5 DEF JobTables, J!JobsTypeOK
    <3>2. drafts' \in [Jobs -> Nat] /\ \A k \in Jobs : drafts'[k] \in 0 .. MaxDrafts[k]
      BY <1>0, <1>1, <1>4 DEF JobTables, J!JobsTypeOK
    <3>. QED
      BY <1>0, <3>1, <3>2 DEF JobTables, J!JobsTypeOK
  <2>7. posted'[j] = p
    BY <1>0, <2>5 DEF JobTables
  <2>8. FramesAreDrafts(j)'
    <3>1. state'[j] \notin J!Ended /\ frames'[j] = frames[j]
      BY <1>0, <1>2
    <3>2. Len(frames[j]) + Len(p) = drafts[j] + 1
      <4>1. PICK a \in Nat, b \in Nat, c \in Nat, n \in Nat :
               a = Len(frames[j]) /\ b = Len(posted[j]) /\ c = Len(p) /\ n = drafts[j]
        BY <1>1, LenProperties
      <4>2. a + b = n /\ c = b + 1
        BY <1>3, <2>0, <2>2, <4>1
      <4>3. a + c = n + 1
        BY <4>2
      <4>. QED
        BY <4>1, <4>3
    <3>. QED
      BY <1>3, <1>4, <2>1, <2>2, <2>7, <3>1, <3>2 DEF FramesAreDrafts, J!Ended
  <2>9. JobFollowsThread(j)'
    BY <1>0, <1>2 DEF JobFollowsThread, J!Ended
  <2>10. OtherJobsStay(j) /\ FollowersWait /\ FramesStay(j)
    BY <1>0, <1>1, <1>4, <2>5 DEF OtherJobsStay, FollowersWait, FramesStay, JobTables, J!JobsTypeOK
  <2>. QED
    BY <1>0, <2>6, <2>8, <2>9, <2>10, JobStepKeeps
<1>6. CASE ~(drafts[j] + 1 < TotalSteps)
  <2>1. posted' = posted /\ Publishable(drafts[j] + 1) = Publishable(drafts[j])
    BY <1>1, <1>4, <1>6, JobsAssumption DEF J!Draft, J!Published, Publishable
  <2>2. JobTables'
    BY <1>0, <1>1, <1>4, <2>1 DEF JobTables, J!JobsTypeOK
  <2>3. FramesAreDrafts(j)' /\ JobFollowsThread(j)'
    BY <1>0, <1>2, <1>3, <1>4, <2>1 DEF FramesAreDrafts, JobFollowsThread, J!Ended
  <2>4. OtherJobsStay(j) /\ FollowersWait /\ FramesStay(j)
    BY <1>0, <1>1, <1>4, <2>1 DEF OtherJobsStay, FollowersWait, FramesStay, JobTables, J!JobsTypeOK
  <2>. QED
    BY <1>0, <2>2, <2>3, <2>4, JobStepKeeps
<1>. QED
  BY <1>5, <1>6

LEMMA WakingWaits ==
  ASSUME JobTables, NEW j \in Jobs, J!Wakes(j) \/ reader' = reader, UNCHANGED <<seenState, batch, seen>>
  PROVE  FollowersWait
  BY DEF J!Wakes, FollowersWait, JobTables, J!JobsTypeOK

\* _record_job_frame, while the job runs.
LEMMA RunningRecordsKeep ==
  ASSUME JobsInv, NEW j \in Jobs, J!Records(j), state[j] # "failed"
  PROVE  JobsInv'
<1>0. /\ JobTables /\ JobFollowsThread(j) /\ FramesAreDrafts(j) /\ posted[j] # << >>
      /\ UNCHANGED <<state, lock, stop, drafts, thread, seenState, batch, seen>>
  BY DEF J!Records, JobsInv
<1>1. /\ frames[j] \in Seq(Nat) /\ frames[j] \in Seq(0 .. MaxDrafts[j])
      /\ posted[j] \in Seq(Nat) /\ posted[j] \in Seq(1 .. MaxDrafts[j])
      /\ MaxDrafts[j] \in Nat /\ Len(frames[j]) \in Nat /\ Len(posted[j]) \in Nat
      /\ state[j] \in JobStates
  BY <1>0, JobEntries
<1>2. state[j] \in {"queued", "running"} /\ thread[j] # "none" /\ state[j] \notin J!Ended
  BY <1>0, <1>1 DEF JobFollowsThread, JobStates, J!Ended
<1>3. /\ Len(frames[j]) + Len(posted[j]) = Publishable(drafts[j])
      /\ CountsFrom(frames[j], 0) /\ CountsFrom(posted[j], Len(frames[j]))
  BY <1>0, <1>2 DEF FramesAreDrafts
<1>4. PICK f \in Seq(Nat), p \in Seq(Nat) :
         /\ f = Append(frames[j], Head(posted[j])) /\ p = Tail(posted[j])
         /\ Len(f) = Len(frames[j]) + 1 /\ Len(p) = Len(posted[j]) - 1
         /\ CountsFrom(f, 0) /\ CountsFrom(p, Len(f))
         /\ \A i \in 1 .. Len(frames[j]) : f[i] = frames[j][i]
  <2>1. PICK f0 \in Seq(Nat), p0 \in Seq(Nat) : f0 = frames[j] /\ p0 = posted[j]
    BY <1>1
  <2>2. p0 # << >> /\ CountsFrom(f0, 0) /\ CountsFrom(p0, Len(f0))
    BY <1>0, <1>3, <2>1
  <2>3. /\ Append(f0, Head(p0)) \in Seq(Nat) /\ Tail(p0) \in Seq(Nat)
        /\ Len(Append(f0, Head(p0))) = Len(f0) + 1 /\ Len(Tail(p0)) = Len(p0) - 1
        /\ CountsFrom(Append(f0, Head(p0)), 0)
        /\ CountsFrom(Tail(p0), Len(Append(f0, Head(p0))))
        /\ \A i \in 1 .. Len(f0) : Append(f0, Head(p0))[i] = f0[i]
    BY <2>2, FrameMoves
  <2>. QED
    BY <2>1, <2>3
<1>5. frames' = [frames EXCEPT ![j] = f] /\ posted' = [posted EXCEPT ![j] = p] /\ J!Wakes(j)
  BY <1>2, <1>4 DEF J!Records
<1>6. Head(posted[j]) \in 1 .. MaxDrafts[j] /\ p \in Seq(1 .. MaxDrafts[j])
  BY <1>0, <1>1, <1>4, HeadTailProperties
<1>7. f \in Seq(0 .. MaxDrafts[j])
  <2>1. Head(posted[j]) \in 0 .. MaxDrafts[j]
    BY <1>1, <1>6
  <2>. QED
    BY <1>1, <1>4, <2>1, AppendProperties
<1>8. FollowersWait
  BY <1>0, <1>5, WakingWaits
<1>9. JobTables'
  <2>1. frames' \in [Jobs -> Seq(Nat)] /\ \A k \in Jobs : frames'[k] \in Seq(0 .. MaxDrafts[k])
    BY <1>0, <1>4, <1>5, <1>7 DEF JobTables, J!JobsTypeOK
  <2>2. posted' \in [Jobs -> Seq(Nat)] /\ \A k \in Jobs : posted'[k] \in Seq(1 .. MaxDrafts[k])
    BY <1>0, <1>4, <1>5, <1>6 DEF JobTables, J!JobsTypeOK
  <2>. QED
    BY <1>0, <1>8, <2>1, <2>2 DEF JobTables, J!JobsTypeOK, FollowersWait
<1>10. frames'[j] = f /\ posted'[j] = p
  BY <1>0, <1>5 DEF JobTables
<1>11. FramesAreDrafts(j)' /\ JobFollowsThread(j)'
  <2>1. state'[j] = state[j] /\ drafts'[j] = drafts[j] /\ thread'[j] = thread[j]
    BY <1>0
  <2>2. Len(f) + Len(p) = Publishable(drafts[j])
    <3>1. Publishable(drafts[j]) \in Nat
      BY <1>0, JobEntries, JobsAssumption DEF Publishable
    <3>2. PICK a \in Nat, b \in Nat, c \in Nat, d \in Nat, n \in Nat :
             /\ a = Len(frames[j]) /\ b = Len(posted[j]) /\ c = Len(f) /\ d = Len(p)
             /\ n = Publishable(drafts[j])
      BY <1>1, <3>1, LenProperties
    <3>3. a + b = n /\ c = a + 1 /\ d = b - 1
      BY <1>3, <1>4, <3>2
    <3>4. c + d = n
      BY <3>3
    <3>. QED
      BY <3>2, <3>4
  <2>3. FramesAreDrafts(j)'
    BY <1>2, <1>4, <1>10, <2>1, <2>2 DEF FramesAreDrafts, J!Ended
  <2>4. JobFollowsThread(j)'
    BY <1>0, <1>2, <2>1 DEF JobFollowsThread, J!Ended
  <2>. QED
    BY <2>3, <2>4
<1>12. OtherJobsStay(j) /\ FramesStay(j)
  BY <1>0, <1>1, <1>2, <1>4, <1>5, <1>10 DEF OtherJobsStay, FramesStay, JobTables
<1>. QED
  BY <1>0, <1>8, <1>9, <1>11, <1>12, JobStepKeeps

\* A frame of a job that has failed before it was recorded is dropped.
LEMMA LateRecordsKeep ==
  ASSUME JobsInv, NEW j \in Jobs, J!Records(j), state[j] = "failed"
  PROVE  JobsInv'
<1>0. /\ JobTables /\ JobFollowsThread(j) /\ posted[j] # << >>
      /\ posted' = [posted EXCEPT ![j] = Tail(posted[j])]
      /\ UNCHANGED <<state, frames, lock, stop, drafts, thread, reader, seenState, batch, seen>>
  BY DEF J!Records, JobsInv
<1>1. /\ posted[j] \in Seq(Nat) /\ posted[j] \in Seq(1 .. MaxDrafts[j]) /\ Len(frames[j]) \in Nat
  BY <1>0, JobEntries
<1>2. Tail(posted[j]) \in Seq(Nat) /\ Tail(posted[j]) \in Seq(1 .. MaxDrafts[j])
  BY <1>0, <1>1, HeadTailProperties
<1>3. JobTables'
  <2>1. posted' \in [Jobs -> Seq(Nat)] /\ \A k \in Jobs : posted'[k] \in Seq(1 .. MaxDrafts[k])
    BY <1>0, <1>2 DEF JobTables, J!JobsTypeOK
  <2>. QED
    BY <1>0, <2>1 DEF JobTables, J!JobsTypeOK
<1>4. FramesAreDrafts(j)' /\ JobFollowsThread(j)'
  BY <1>0 DEF FramesAreDrafts, JobFollowsThread, J!Ended
<1>5. OtherJobsStay(j) /\ FramesStay(j) /\ FollowersWait
  BY <1>0, <1>1 DEF OtherJobsStay, FramesStay, FollowersWait, JobTables, J!JobsTypeOK
<1>. QED
  BY <1>0, <1>3, <1>4, <1>5, JobStepKeeps

\* The coroutine of the job takes the thread's result.
LEMMA ResultKeeps ==
  ASSUME JobsInv, NEW j \in Jobs, J!Result(j)
  PROVE  JobsInv'
<1>0. /\ JobTables /\ JobFollowsThread(j) /\ FramesAreDrafts(j)
      /\ thread[j] \in J!Ended /\ state[j] = "running" /\ (thread[j] # "failed" => posted[j] = << >>)
      /\ UNCHANGED <<stop, drafts, thread, posted, seenState, batch, seen>>
      /\ lock' = lock \ {j}
  BY DEF J!Result, JobsInv
<1>1. /\ frames[j] \in Seq(Nat) /\ MaxDrafts[j] \in Nat /\ drafts[j] \in Nat /\ drafts[j] <= MaxDrafts[j]
      /\ Len(frames[j]) \in Nat
  BY <1>0, JobEntries
<1>2. thread[j] # "failed" => Len(frames[j]) = Publishable(drafts[j]) /\ CountsFrom(frames[j], 0)
  <2>1. SUFFICES ASSUME posted[j] = << >>
                 PROVE  Len(frames[j]) = Publishable(drafts[j]) /\ CountsFrom(frames[j], 0)
    BY <1>0
  <2>2. /\ Len(frames[j]) + Len(posted[j]) = Publishable(drafts[j])
        /\ CountsFrom(frames[j], 0)
    BY <1>0 DEF FramesAreDrafts, J!Ended
  <2>3. Len(posted[j]) = 0
    BY <2>1, EmptySeq
  <2>. QED
    BY <1>1, <2>2, <2>3
<1>3. PICK g \in Seq(0 .. MaxDrafts[j]) :
         /\ g = J!FinalFrames(drafts[j])
         /\ Len(g) = Publishable(drafts[j]) + 1
         /\ \A i \in 1 .. Publishable(drafts[j]) : g[i] = i
         /\ g[Publishable(drafts[j]) + 1] = 0
  BY <1>1, FinalFramesAre
<1>4. PICK f \in Seq(0 .. MaxDrafts[j]) : f = IF thread[j] = "failed" THEN << >> ELSE g
  BY <1>3, EmptySeq
<1>5. f \in Seq(Nat)
  BY <1>1, SeqMonotonic
<1>6. frames' = [frames EXCEPT ![j] = f] /\ state' = [state EXCEPT ![j] = thread[j]] /\ J!Wakes(j)
  BY <1>3, <1>4 DEF J!Result
<1>7. FollowersWait
  BY <1>0, <1>6, WakingWaits
<1>8. frames'[j] = f /\ state'[j] = thread[j]
  BY <1>0, <1>6 DEF JobTables, J!JobsTypeOK
<1>9. JobTables'
  <2>1. frames' \in [Jobs -> Seq(Nat)] /\ \A k \in Jobs : frames'[k] \in Seq(0 .. MaxDrafts[k])
    BY <1>0, <1>5, <1>6 DEF JobTables, J!JobsTypeOK
  <2>2. state' \in [Jobs -> {"none", "queued", "running"} \cup J!Ended] /\ lock' \subseteq Jobs
    BY <1>0, <1>6 DEF JobTables, J!JobsTypeOK
  <2>. QED
    BY <1>0, <1>7, <2>1, <2>2 DEF JobTables, J!JobsTypeOK, FollowersWait
<1>10. FramesAreDrafts(j)' /\ JobFollowsThread(j)'
  BY <1>0, <1>3, <1>4, <1>8 DEF FramesAreDrafts, JobFollowsThread, J!Ended
<1>11. FramesStay(j)
  <2>1. SUFFICES ASSUME thread[j] # "failed"
                 PROVE  /\ Len(frames[j]) <= Len(f)
                        /\ \A i \in 1 .. Len(frames[j]) : f[i] = frames[j][i]
    BY <1>0, <1>8 DEF FramesStay, J!Ended
  <2>2. f = g /\ Len(frames[j]) = Publishable(drafts[j])
    BY <1>2, <1>4, <2>1
  <2>3. \A i \in 1 .. Len(frames[j]) : frames[j][i] = i
    BY <1>1, <1>2, <2>1 DEF CountsFrom
  <2>. QED
    BY <1>1, <1>3, <2>2, <2>3
<1>12. OtherJobsStay(j)
  BY <1>0, <1>6 DEF OtherJobsStay, JobTables, J!JobsTypeOK
<1>. QED
  BY <1>0, <1>7, <1>9, <1>10, <1>11, <1>12, JobStepKeeps

---------------------------------------------------------------------------
(* The steps of a follower *)

\* What is left of a sequence after its first n entries.
LEMMA RestOf ==
  ASSUME NEW S, NEW f \in Seq(S), NEW n \in Nat
  PROVE  /\ SubSeq(f, n + 1, Len(f)) \in Seq(S)
         /\ n <= Len(f) => n + Len(SubSeq(f, n + 1, Len(f))) = Len(f)
         /\ \A i \in 1 .. Len(SubSeq(f, n + 1, Len(f))) : SubSeq(f, n + 1, Len(f))[i] = f[n + i]
<1>1. PICK m \in Nat : m = Len(f)
  BY LenProperties
<1>2. \A i \in n + 1 .. m : f[i] \in S
  BY <1>1, ElementOfSeq
<1>3. /\ SubSeq(f, n + 1, m) \in Seq(S)
      /\ Len(SubSeq(f, n + 1, m)) = IF n + 1 <= m THEN m - (n + 1) + 1 ELSE 0
      /\ \A i \in 1 .. m - (n + 1) + 1 : SubSeq(f, n + 1, m)[i] = f[n + 1 + i - 1]
  BY <1>2, SubSeqProperties
<1>4. PICK l \in Nat : l = Len(SubSeq(f, n + 1, m))
  BY <1>3, LenProperties
<1>5. l = IF n + 1 <= m THEN m - n ELSE 0
  BY <1>3, <1>4
<1>6. \A i \in 1 .. l : i \in 1 .. m - (n + 1) + 1 /\ n + 1 + i - 1 = n + i
  BY <1>5
<1>7. n <= m => n + l = m
  BY <1>5
<1>. QED
  BY <1>1, <1>3, <1>4, <1>6, <1>7

\* A prefix and what follows it is a prefix.
LEMMA PrefixGrows ==
  ASSUME NEW a \in Seq(Nat), NEW b \in Seq(Nat), NEW f \in Seq(Nat),
         Len(a) + Len(b) <= Len(f),
         \A i \in 1 .. Len(a) : a[i] = f[i],
         \A i \in 1 .. Len(b) : b[i] = f[Len(a) + i]
  PROVE  \A i \in 1 .. Len(a \o b) : (a \o b)[i] = f[i]
<1>1. PICK m \in Nat, n \in Nat : m = Len(a) /\ n = Len(b)
  BY LenProperties
<1>2. /\ Len(a \o b) = m + n
      /\ \A i \in 1 .. m + n : (a \o b)[i] = IF i <= m THEN a[i] ELSE b[i - m]
  BY <1>1, ConcatProperties
<1>3. ASSUME NEW i \in 1 .. m + n PROVE (a \o b)[i] = f[i]
  <2>1. CASE i <= m
    <3>1. i \in 1 .. m
      BY <2>1
    <3>. QED
      BY <1>1, <1>2, <2>1, <3>1
  <2>2. CASE ~(i <= m)
    <3>1. i - m \in 1 .. n /\ m + (i - m) = i
      BY <2>2
    <3>2. b[i - m] = f[m + (i - m)]
      BY <1>1, <3>1
    <3>. QED
      BY <1>2, <2>2, <3>1, <3>2
  <2>. QED
    BY <2>1, <2>2
<1>. QED
  BY <1>2, <1>3

\* The tables of a follower, entry by entry.
LEMMA FollowerEntries ==
  ASSUME JobTables, NEW s \in Subscribers
  PROVE  /\ Follows[s] \in Jobs
         /\ seen[s] \in Seq(Nat) /\ seen[s] \in Seq(0 .. MaxDrafts[Follows[s]])
         /\ batch[s] \in Seq(Nat) /\ batch[s] \in Seq(0 .. MaxDrafts[Follows[s]])
         /\ Len(seen[s]) \in Nat /\ Len(batch[s]) \in Nat
<1>1. Follows[s] \in Jobs /\ seen[s] \in Seq(Nat) /\ batch[s] \in Seq(Nat)
  BY JobsAssumption DEF JobTables
<1>. QED
  BY <1>1, LenProperties DEF JobTables, J!JobsTypeOK

OtherFollowersStay(s) ==
    \A r \in Subscribers \ {s} :
        reader'[r] = reader[r] /\ seenState'[r] = seenState[r] /\ batch'[r] = batch[r] /\ seen'[r] = seen[r]

LEMMA FollowerKeeps ==
  ASSUME JobsInv, NEW s \in Subscribers, UNCHANGED J!jobVars, JobTables', OtherFollowersStay(s),
         SentIsAPrefix(s)', SeenTheEnd(s)'
  PROVE  JobsInv'
<1>1. \A r \in Subscribers \ {s} : SentIsAPrefix(r)' /\ SeenTheEnd(r)'
  <2>1. ASSUME NEW r \in Subscribers \ {s} PROVE SentIsAPrefix(r)' /\ SeenTheEnd(r)'
    <3>1. SentIsAPrefix(r) /\ SeenTheEnd(r) /\ UNCHANGED <<state, frames>>
      BY DEF JobsInv, J!jobVars
    <3>2. reader'[r] = reader[r] /\ seenState'[r] = seenState[r] /\ batch'[r] = batch[r] /\ seen'[r] = seen[r]
      BY DEF OtherFollowersStay
    <3>3. SentIsAPrefix(r)'
      BY <3>1, <3>2 DEF SentIsAPrefix
    <3>4. SeenTheEnd(r)'
      BY <3>1, <3>2 DEF SeenTheEnd
    <3>. QED
      BY <3>3, <3>4
  <2>. QED
    BY <2>1
<1>2. \A j \in Jobs : JobFollowsThread(j)' /\ FramesAreDrafts(j)'
  <2>1. ASSUME NEW j \in Jobs PROVE JobFollowsThread(j)'
    BY DEF JobsInv, J!jobVars, JobFollowsThread
  <2>2. ASSUME NEW j \in Jobs PROVE FramesAreDrafts(j)'
    BY DEF JobsInv, J!jobVars, FramesAreDrafts
  <2>. QED
    BY <2>1, <2>2
<1>3. \A i, j \in lock' : i = j
  BY DEF JobsInv, J!jobVars
<1>. QED
  BY <1>1, <1>2, <1>3 DEF JobsInv

LEMMA SubscribeKeeps ==
  ASSUME JobsInv, NEW s \in Subscribers, J!Subscribe(s)
  PROVE  JobsInv'
<1>1. /\ reader' = [reader EXCEPT ![s] = "looking"] /\ reader[s] = "new"
      /\ UNCHANGED <<J!jobVars, seenState, batch, seen>>
  BY DEF J!Subscribe
<1>2. JobTables /\ SentIsAPrefix(s) /\ SeenTheEnd(s)
  BY DEF JobsInv
<1>3. JobTables'
  BY <1>1, <1>2 DEF JobTables, J!JobsTypeOK, J!jobVars
<1>4. SentIsAPrefix(s)' /\ SeenTheEnd(s)'
  BY <1>1, <1>2 DEF SentIsAPrefix, SeenTheEnd, JobTables, J!JobsTypeOK, J!jobVars
<1>5. OtherFollowersStay(s)
  BY <1>1, <1>2 DEF OtherFollowersStay, JobTables, J!JobsTypeOK
<1>. QED
  BY <1>1, <1>3, <1>4, <1>5, FollowerKeeps

\* The follower takes what its job has and it has not: together they are the job's frames.
LEMMA LooksKeep ==
  ASSUME JobsInv, NEW s \in Subscribers, J!Looks(s)
  PROVE  JobsInv'
<1>1. /\ reader' = [reader EXCEPT ![s] = "sending"] /\ reader[s] = "looking"
      /\ seenState' = [seenState EXCEPT ![s] = state[Follows[s]]]
      /\ batch' = [batch EXCEPT ![s] =
             SubSeq(frames[Follows[s]], Len(seen[s]) + 1, Len(frames[Follows[s]]))]
      /\ UNCHANGED <<J!jobVars, seen>>
  BY DEF J!Looks
<1>2. JobTables /\ SentIsAPrefix(s) /\ SeenTheEnd(s)
  BY DEF JobsInv
<1>3. /\ Follows[s] \in Jobs /\ Len(seen[s]) \in Nat /\ Len(frames[Follows[s]]) \in Nat
      /\ frames[Follows[s]] \in Seq(Nat) /\ frames[Follows[s]] \in Seq(0 .. MaxDrafts[Follows[s]])
      /\ state[Follows[s]] \in JobStates
  BY <1>2, FollowerEntries, JobEntries
<1>4. PICK b \in Seq(Nat) : b = SubSeq(frames[Follows[s]], Len(seen[s]) + 1, Len(frames[Follows[s]]))
  BY <1>3, RestOf
<1>5. /\ b \in Seq(0 .. MaxDrafts[Follows[s]])
      /\ Len(seen[s]) <= Len(frames[Follows[s]]) => Len(seen[s]) + Len(b) = Len(frames[Follows[s]])
      /\ \A i \in 1 .. Len(b) : b[i] = frames[Follows[s]][Len(seen[s]) + i]
  BY <1>3, <1>4, RestOf
<1>6. batch' = [batch EXCEPT ![s] = b]
  BY <1>1, <1>4
<1>7. batch'[s] = b /\ seenState'[s] = state[Follows[s]] /\ reader'[s] = "sending"
  BY <1>1, <1>2, <1>6 DEF JobTables, J!JobsTypeOK
<1>8. JobTables'
  <2>1. /\ batch' \in [Subscribers -> Seq(Nat)]
        /\ \A r \in Subscribers : batch'[r] \in Seq(0 .. MaxDrafts[Follows[r]])
    BY <1>2, <1>5, <1>6 DEF JobTables, J!JobsTypeOK
  <2>2. /\ reader' \in [Subscribers -> {"new", "looking", "sending", "waiting", "done"}]
        /\ seenState' \in [Subscribers -> {"none", "queued", "running"} \cup J!Ended]
    BY <1>1, <1>2, <1>3 DEF JobTables, J!JobsTypeOK, JobStates
  <2>. QED
    BY <1>1, <1>2, <2>1, <2>2 DEF JobTables, J!JobsTypeOK, J!jobVars
<1>9. state[Follows[s]] # "failed" => Len(seen[s]) + Len(b) = Len(frames[Follows[s]])
  <2>1. SUFFICES ASSUME state[Follows[s]] # "failed"
                 PROVE  Len(seen[s]) <= Len(frames[Follows[s]])
    BY <1>5
  <2>2. batch[s] = << >> /\ Len(seen[s]) + Len(batch[s]) <= Len(frames[Follows[s]])
    BY <1>1, <1>2, <2>1 DEF SentIsAPrefix, SeenTheEnd
  <2>. QED
    BY <1>3, <2>2, EmptySeq
<1>10. SentIsAPrefix(s)'
  <2>1. SUFFICES ASSUME state[Follows[s]] # "failed"
                 PROVE  /\ Len(seen[s]) + Len(b) <= Len(frames[Follows[s]])
                        /\ \A i \in 1 .. Len(seen[s]) : seen[s][i] = frames[Follows[s]][i]
                        /\ \A i \in 1 .. Len(b) : b[i] = frames[Follows[s]][Len(seen[s]) + i]
    BY <1>1, <1>7 DEF SentIsAPrefix, J!jobVars
  <2>2. \A i \in 1 .. Len(seen[s]) : seen[s][i] = frames[Follows[s]][i]
    BY <1>2, <2>1 DEF SentIsAPrefix
  <2>. QED
    BY <1>3, <1>5, <1>9, <2>1, <2>2
<1>11. SeenTheEnd(s)'
  BY <1>1, <1>7, <1>9 DEF SeenTheEnd, J!jobVars
<1>12. OtherFollowersStay(s)
  BY <1>1, <1>2, <1>6 DEF OtherFollowersStay, JobTables, J!JobsTypeOK
<1>. QED
  BY <1>1, <1>8, <1>10, <1>11, <1>12, FollowerKeeps

\* What it took is appended to what it sent; only one that took the end is done.
LEMMA SendsKeep ==
  ASSUME JobsInv, NEW s \in Subscribers, J!Sends(s)
  PROVE  JobsInv'
<1>1. /\ reader[s] = "sending"
      /\ seen' = [seen EXCEPT ![s] = seen[s] \o batch[s]]
      /\ batch' = [batch EXCEPT ![s] = << >>]
      /\ UNCHANGED <<J!jobVars, seenState>>
  BY DEF J!Sends
<1>2. JobTables /\ SentIsAPrefix(s) /\ SeenTheEnd(s)
  BY DEF JobsInv
<1>3. /\ Follows[s] \in Jobs /\ frames[Follows[s]] \in Seq(Nat)
      /\ seen[s] \in Seq(Nat) /\ batch[s] \in Seq(Nat)
      /\ seen[s] \in Seq(0 .. MaxDrafts[Follows[s]]) /\ batch[s] \in Seq(0 .. MaxDrafts[Follows[s]])
      /\ Len(seen[s]) \in Nat /\ Len(batch[s]) \in Nat
  BY <1>2, FollowerEntries, JobEntries
<1>4. PICK q \in Seq(Nat) : /\ q = seen[s] \o batch[s] /\ q \in Seq(0 .. MaxDrafts[Follows[s]])
                            /\ Len(q) = Len(seen[s]) + Len(batch[s])
  BY <1>3, ConcatProperties
<1>5. seen' = [seen EXCEPT ![s] = q]
  BY <1>1, <1>4
<1>6. /\ reader' \in [Subscribers -> {"new", "looking", "sending", "waiting", "done"}]
      /\ reader'[s] \in {"looking", "waiting", "done"}
      /\ reader'[s] = "done" => seenState[s] \in J!Ended
      /\ \A r \in Subscribers \ {s} : reader'[r] = reader[r]
  <2>1. PICK w \in {"looking", "waiting", "done"} :
           reader' = [reader EXCEPT ![s] = w] /\ (w = "done" => seenState[s] \in J!Ended)
    BY DEF J!Sends
  <2>. QED
    BY <1>2, <2>1 DEF JobTables, J!JobsTypeOK
<1>7. seen'[s] = q /\ batch'[s] = << >>
  BY <1>1, <1>2, <1>5 DEF JobTables
<1>8. JobTables'
  <2>1. /\ seen' \in [Subscribers -> Seq(Nat)]
        /\ \A r \in Subscribers : seen'[r] \in Seq(0 .. MaxDrafts[Follows[r]])
    BY <1>2, <1>4, <1>5 DEF JobTables, J!JobsTypeOK
  <2>2. /\ batch' \in [Subscribers -> Seq(Nat)]
        /\ \A r \in Subscribers : batch'[r] \in Seq(0 .. MaxDrafts[Follows[r]])
    BY <1>1, <1>2, EmptySeq DEF JobTables, J!JobsTypeOK
  <2>. QED
    BY <1>1, <1>2, <1>6, <2>1, <2>2 DEF JobTables, J!JobsTypeOK, J!jobVars
<1>9. SentIsAPrefix(s)'
  <2>1. SUFFICES ASSUME state[Follows[s]] # "failed"
                 PROVE  SentIsAPrefix(s)'
    BY <1>1 DEF SentIsAPrefix, J!jobVars
  <2>2. /\ Len(seen[s]) + Len(batch[s]) <= Len(frames[Follows[s]])
        /\ \A i \in 1 .. Len(seen[s]) : seen[s][i] = frames[Follows[s]][i]
        /\ \A i \in 1 .. Len(batch[s]) : batch[s][i] = frames[Follows[s]][Len(seen[s]) + i]
    BY <1>2, <2>1 DEF SentIsAPrefix
  <2>3. \A i \in 1 .. Len(q) : q[i] = frames[Follows[s]][i]
    <3>1. PICK a \in Seq(Nat), b \in Seq(Nat), f \in Seq(Nat) :
             a = seen[s] /\ b = batch[s] /\ f = frames[Follows[s]]
      BY <1>3
    <3>2. /\ Len(a) + Len(b) <= Len(f)
          /\ \A i \in 1 .. Len(a) : a[i] = f[i]
          /\ \A i \in 1 .. Len(b) : b[i] = f[Len(a) + i]
      BY <2>2, <3>1
    <3>3. \A i \in 1 .. Len(a \o b) : (a \o b)[i] = f[i]
      BY <3>2, PrefixGrows
    <3>. QED
      BY <1>4, <3>1, <3>3
  <2>4. Len(q) <= Len(frames[Follows[s]]) /\ Len(q) + 0 = Len(q)
    <3>1. PICK m \in Nat : m = Len(q)
      BY LenProperties
    <3>2. m <= Len(frames[Follows[s]])
      BY <1>4, <2>2, <3>1
    <3>. QED
      BY <3>1, <3>2
  <2>5. /\ seen'[s] = q /\ frames' = frames /\ Len(batch'[s]) = 0
        /\ \A i \in 1 .. Len(batch'[s]) : FALSE
    BY <1>1, <1>7, EmptySeq DEF J!jobVars
  <2>6. Len(q) + Len(batch'[s]) <= Len(frames[Follows[s]])
    BY <2>4, <2>5
  <2>. QED
    BY <2>3, <2>5, <2>6 DEF SentIsAPrefix
<1>10. SeenTheEnd(s)'
  <2>1. Len(seen'[s]) + Len(batch'[s]) = Len(seen[s]) + Len(batch[s])
    BY <1>3, <1>4, <1>7, EmptySeq
  <2>. QED
    BY <1>1, <1>2, <1>6, <1>7, <2>1 DEF SeenTheEnd, J!jobVars
<1>11. OtherFollowersStay(s)
  BY <1>1, <1>2, <1>5, <1>6 DEF OtherFollowersStay, JobTables
<1>. QED
  BY <1>1, <1>8, <1>9, <1>10, <1>11, FollowerKeeps

---------------------------------------------------------------------------
(* Every step *)

LEMMA JobsStep == JobsInv /\ [J!JobsNext]_(J!jobsVars) => JobsInv'
<1> SUFFICES ASSUME JobsInv, [J!JobsNext]_(J!jobsVars) PROVE JobsInv'
  OBVIOUS
<1>1. ASSUME NEW j \in Jobs,
             J!Diffuse(j) \/ J!JobRuns(j) \/ J!ThreadRuns(j) \/ J!CancelJob(j)
      PROVE  JobsInv'
  BY <1>1, QuietJobKeeps, DraftKeeps, RunningRecordsKeep, LateRecordsKeep, ResultKeeps DEF J!JobRuns, J!ThreadRuns
<1>2. ASSUME NEW s \in Subscribers, J!Subscribe(s) \/ J!Looks(s) \/ J!Sends(s)
      PROVE  JobsInv'
  BY <1>2, SubscribeKeeps, LooksKeep, SendsKeep
<1>3. CASE UNCHANGED J!jobsVars
  <2>1. /\ UNCHANGED J!jobVars /\ UNCHANGED J!readerVars
    BY <1>3 DEF J!jobsVars
  <2>2. JobTables'
    BY <2>1 DEF JobsInv, JobTables, J!JobsTypeOK, J!jobVars, J!readerVars
  <2>3. \A s \in Subscribers : SentIsAPrefix(s)' /\ SeenTheEnd(s)'
    BY <2>1 DEF JobsInv, SentIsAPrefix, SeenTheEnd, J!jobVars, J!readerVars
  <2>4. \A j \in Jobs : JobFollowsThread(j)' /\ FramesAreDrafts(j)'
    <3>1. ASSUME NEW j \in Jobs PROVE JobFollowsThread(j)'
      BY <2>1 DEF JobsInv, J!jobVars, JobFollowsThread
    <3>2. ASSUME NEW j \in Jobs PROVE FramesAreDrafts(j)'
      BY <2>1 DEF JobsInv, J!jobVars, FramesAreDrafts
    <3>. QED
      BY <3>1, <3>2
  <2>5. \A i, j \in lock' : i = j
    BY <2>1 DEF JobsInv, J!jobVars
  <2>. QED
    BY <2>2, <2>3, <2>4, <2>5 DEF JobsInv
<1>. QED
  BY <1>1, <1>2, <1>3 DEF J!JobsNext

LEMMA JobsAreSafe == JobsInv => J!JobsTypeOK /\ J!SubscribersSeeTheResult
<1> SUFFICES ASSUME JobsInv PROVE J!JobsTypeOK /\ J!SubscribersSeeTheResult
  OBVIOUS
<1>1. JobTables
  BY DEF JobsInv
<1>2. ASSUME NEW s \in Subscribers, state[Follows[s]] # "failed"
      PROVE  /\ reader[s] = "done" => seen[s] = frames[Follows[s]]
             /\ \A i \in 1 .. Len(seen[s]) : i <= Len(frames[Follows[s]]) /\ frames[Follows[s]][i] = seen[s][i]
  <2>1. /\ seen[s] \in Seq(Nat) /\ frames[Follows[s]] \in Seq(Nat)
        /\ Len(seen[s]) \in Nat /\ Len(batch[s]) \in Nat /\ Len(frames[Follows[s]]) \in Nat
    BY <1>1, FollowerEntries, JobEntries
  <2>2. /\ Len(seen[s]) + Len(batch[s]) <= Len(frames[Follows[s]])
        /\ \A i \in 1 .. Len(seen[s]) : seen[s][i] = frames[Follows[s]][i]
    BY <1>2 DEF JobsInv, SentIsAPrefix
  <2>3. \A i \in 1 .. Len(seen[s]) : i \in 1 .. Len(frames[Follows[s]])
    BY <2>1, <2>2, PrefixIndices
  <2>4. ASSUME reader[s] = "done" PROVE seen[s] = frames[Follows[s]]
    <3>1. batch[s] = << >> /\ Len(seen[s]) + Len(batch[s]) = Len(frames[Follows[s]])
      BY <1>2, <2>4 DEF JobsInv, SeenTheEnd
    <3>2. Len(seen[s]) = Len(frames[Follows[s]])
      BY <2>1, <3>1, EmptySeq
    <3>. QED
      BY <2>1, <2>2, <3>2, SeqEqual
  <2>. QED
    BY <2>1, <2>2, <2>3, <2>4
<1>. QED
  BY <1>1, <1>2 DEF JobTables, J!SubscribersSeeTheResult

---------------------------------------------------------------------------
(* The diffusion Worker keeps the protocol *)

JobPhases ==
    [j \in Jobs |-> CASE state[j] = "none" -> "new"
                      [] state[j] \in {"queued", "running"} /\ j \notin lock -> "accepted"
                      [] j \in lock -> "active"
                      [] OTHER -> state[j]]

LEMMA JobPhasesAre ==
  ASSUME JobsInv, NEW j \in Jobs
  PROVE  /\ state[j] = "none" <=> JobPhases[j] = "new"
         /\ state[j] \in {"queued", "running"} /\ j \notin lock <=> JobPhases[j] = "accepted"
         /\ j \in lock <=> JobPhases[j] = "active"
         /\ state[j] \in J!Ended => JobPhases[j] = state[j]
<1>1. state[j] \in JobStates /\ JobFollowsThread(j)
  BY JobEntries DEF JobsInv
<1>. QED
  BY <1>1 DEF JobPhases, JobFollowsThread, JobStates, J!Ended

\* A step of one job changes the phase of that job only.
LEMMA JobPhaseChanges ==
  ASSUME NEW j \in Jobs, NEW p, JobsInv, JobsInv', JobPhases'[j] = p,
         \A k \in Jobs \ {j} : state'[k] = state[k] /\ (k \in lock' <=> k \in lock)
  PROVE  JobPhases' = [JobPhases EXCEPT ![j] = p]
<1>1. ASSUME NEW k \in Jobs, k # j PROVE JobPhases'[k] = JobPhases[k]
  BY <1>1 DEF JobPhases
<1>2. JobPhases = [k \in Jobs |-> JobPhases[k]] /\ JobPhases' = [k \in Jobs |-> JobPhases'[k]]
  BY DEF JobPhases
<1>. QED
  BY <1>1, <1>2

\* What a step of the diffusion Worker does to the phases of the protocol.
LEMMA JobPhaseSteps ==
  ASSUME JobsInv, JobsInv', [J!JobsNext]_(J!jobsVars)
  PROVE  \/ JobPhases' = JobPhases
         \/ \E j \in Jobs :
              \/ JobPhases[j] = "new" /\ JobPhases' = [JobPhases EXCEPT ![j] = "accepted"]
              \/ /\ JobPhases[j] = "accepted" /\ \A k \in Jobs : JobPhases[k] # "active"
                 /\ JobPhases' = [JobPhases EXCEPT ![j] = "active"]
              \/ /\ JobPhases[j] = "active"
                 /\ \E p \in J!Ended : /\ p = "cancelled" => j \in stop
                                       /\ JobPhases' = [JobPhases EXCEPT ![j] = p]
<1>0. JobTables /\ \A j \in Jobs : JobFollowsThread(j)
  BY DEF JobsInv
<1>1. CASE state' = state /\ lock' = lock
  BY <1>1 DEF JobPhases
<1>2. ASSUME NEW j \in Jobs, J!Diffuse(j) \/ J!Refine(j)
      PROVE  \/ JobPhases' = JobPhases
             \/ JobPhases[j] = "new" /\ JobPhases' = [JobPhases EXCEPT ![j] = "accepted"]
  <2>1. /\ state[j] \in {"none", "queued"} /\ state'[j] \in {"queued", "running"} /\ lock' = lock
        /\ \A k \in Jobs \ {j} : state'[k] = state[k]
    BY <1>0, <1>2 DEF J!Diffuse, J!Refine, JobTables, J!JobsTypeOK
  <2>2. j \notin lock
    BY <1>0, <2>1 DEF JobFollowsThread
  <2>3. JobPhases'[j] = "accepted"
    BY <2>1, <2>2 DEF JobPhases
  <2>4. JobPhases' = [JobPhases EXCEPT ![j] = "accepted"]
    BY <2>1, <2>3, JobPhaseChanges
  <2>5. JobPhases[j] \in {"new", "accepted"}
    BY <2>1, <2>2, JobPhasesAre
  <2>6. JobPhases[j] = "accepted" => [JobPhases EXCEPT ![j] = "accepted"] = JobPhases
    BY DEF JobPhases
  <2>. QED
    BY <2>4, <2>5, <2>6
<1>3. ASSUME NEW j \in Jobs, J!Locks(j)
      PROVE  /\ JobPhases[j] = "accepted" /\ \A k \in Jobs : JobPhases[k] # "active"
             /\ JobPhases' = [JobPhases EXCEPT ![j] = "active"]
  <2>1. state[j] = "running" /\ lock = {} /\ lock' = {j} /\ state' = state
    BY <1>3 DEF J!Locks
  <2>2. JobPhases[j] = "accepted" /\ \A k \in Jobs : JobPhases[k] # "active"
    BY <2>1, JobPhasesAre
  <2>3. JobPhases'[j] = "active"
    BY <2>1 DEF JobPhases
  <2>. QED
    BY <2>1, <2>2, <2>3, JobPhaseChanges
<1>4. ASSUME NEW j \in Jobs, J!Result(j)
      PROVE  /\ JobPhases[j] = "active"
             /\ \E p \in J!Ended : /\ p = "cancelled" => j \in stop
                                   /\ JobPhases' = [JobPhases EXCEPT ![j] = p]
  <2>1. /\ state[j] = "running" /\ thread[j] \in J!Ended /\ lock' = lock \ {j}
        /\ state'[j] = thread[j] /\ \A k \in Jobs \ {j} : state'[k] = state[k]
    BY <1>0, <1>4 DEF J!Result, JobTables, J!JobsTypeOK
  <2>2. j \in lock /\ (thread[j] = "cancelled" => j \in stop)
    BY <1>0, <2>1 DEF JobFollowsThread, J!Ended
  <2>3. JobPhases'[j] = thread[j]
    BY <2>1 DEF JobPhases, J!Ended
  <2>4. JobPhases' = [JobPhases EXCEPT ![j] = thread[j]]
    BY <2>1, <2>3, JobPhaseChanges
  <2>. QED
    BY <2>1, <2>2, <2>4, JobPhasesAre
<1>5. ASSUME \/ \E j \in Jobs : J!Records(j) \/ J!ThreadRuns(j) \/ J!CancelJob(j)
             \/ \E s \in Subscribers : J!Subscribe(s) \/ J!Looks(s) \/ J!Sends(s)
             \/ UNCHANGED J!jobsVars
      PROVE  state' = state /\ lock' = lock
  BY <1>5 DEF J!Records, J!ThreadRuns, J!Draft, J!ThreadEnds, J!CancelJob, J!Subscribe, J!Looks,
     J!Sends, J!jobsVars, J!jobVars
<1>. QED
  BY <1>1, <1>2, <1>3, <1>4, <1>5 DEF J!JobsNext, J!JobRuns

LEMMA JobsProtocolInitially == J!JobsInit => J!JobsProtocol!Init
  BY DEF J!JobsInit, J!JobsProtocol!Init

LEMMA JobsProtocolStep ==
  JobsInv /\ JobsInv' /\ [J!JobsNext]_(J!jobsVars) => [J!JobsProtocol!Next]_(J!JobsProtocol!vars)
<1> SUFFICES ASSUME JobsInv, JobsInv', [J!JobsNext]_(J!jobsVars) PROVE J!JobsProtocol!Next
  OBVIOUS
<1>1. stop \subseteq stop' /\ stop' \subseteq Jobs
  <2>1. stop' \subseteq Jobs
    BY DEF JobsInv, JobTables, J!JobsTypeOK
  <2>. QED
    BY <2>1 DEF J!JobsNext, J!JobRuns, J!ThreadRuns, J!Diffuse, J!Refine, J!Locks, J!Records, J!Result,
       J!Draft, J!ThreadEnds, J!CancelJob, J!Subscribe, J!Looks, J!Sends, J!jobsVars, J!jobVars
<1> USE DEF JobPhases
<1>2. CASE JobPhases' = JobPhases
  BY <1>1, <1>2 DEF J!JobsProtocol!Next
<1>3. ASSUME NEW j \in Jobs, JobPhases[j] = "new", JobPhases' = [JobPhases EXCEPT ![j] = "accepted"]
      PROVE  J!JobsProtocol!Next
  <2>1. J!JobsProtocol!Accept(j)
    BY <1>3 DEF J!JobsProtocol!Accept
  <2>. QED
    BY <1>1, <2>1 DEF J!JobsProtocol!Next
<1>4. ASSUME NEW j \in Jobs, JobPhases[j] = "accepted", \A k \in Jobs : JobPhases[k] # "active",
             JobPhases' = [JobPhases EXCEPT ![j] = "active"]
      PROVE  J!JobsProtocol!Next
  <2>1. J!JobsProtocol!Active = {}
    BY <1>4 DEF J!JobsProtocol!Active
  <2>2. J!JobsProtocol!Begin(j)
    BY <1>4, <2>1 DEF J!JobsProtocol!Begin
  <2>. QED
    BY <1>1, <2>2 DEF J!JobsProtocol!Next
<1>5. ASSUME NEW j \in Jobs, JobPhases[j] = "active", NEW p \in J!Ended, p = "cancelled" => j \in stop,
             JobPhases' = [JobPhases EXCEPT ![j] = p]
      PROVE  J!JobsProtocol!Next
  <2>1. J!JobsProtocol!End(j, p)
    BY <1>5 DEF J!JobsProtocol!End
  <2>2. p \in J!JobsProtocol!Answers
    BY DEF J!JobsProtocol!Answers, J!Ended
  <2>. QED
    BY <1>1, <2>1, <2>2 DEF J!JobsProtocol!Next
<1> HIDE DEF JobPhases
<1>. QED
  BY <1>2, <1>3, <1>4, <1>5, JobPhaseSteps

---------------------------------------------------------------------------
(* The llama.cpp Worker *)

\* Only the child that self.process names runs.
ProcessIsTheServer == L!Running \subseteq {process}

\* The holder of restart_lock is the call inside restart(); when it is about to start a child,
\* none runs.
RestartsAreExclusive ==
    /\ \A t \in L!Calls : call[t] \in {"stopping", "starting"} <=> restartLock = t
    /\ \A t \in L!Calls : call[t] = "starting" => L!Running = {}

\* Before the start there is no child, and after the last answer no call is under way.
CallsFollowLife ==
    /\ life = "starting" => L!Running = {} /\ \A t \in L!Calls : call[t] = "new"
    /\ life \in {"stopping", "gone"} => \A t \in L!Calls : call[t] \in {"new", "done"}
    /\ life = "gone" => L!Running = {}

LlamaInv == L!LlamaTypeOK /\ ProcessIsTheServer /\ RestartsAreExclusive /\ CallsFollowLife

LEMMA LlamaInitially == L!LlamaInit => LlamaInv
<1> SUFFICES ASSUME L!LlamaInit PROVE LlamaInv
  OBVIOUS
<1>1. L!Running = {}
  BY DEF L!LlamaInit, L!Running
<1>. QED
  BY <1>1, LlamaAssumption
  DEF L!LlamaInit, LlamaInv, L!LlamaTypeOK, ProcessIsTheServer, RestartsAreExclusive, CallsFollowLife,
      L!Calls, L!Restarting

\* A start is only tried when nothing runs, and then what runs is the new child.
LEMMA SpawnsOne ==
  ASSUME L!LlamaTypeOK, L!Running = {}, L!Spawns
  PROVE  L!Running' = {process'} /\ process' \in L!Children
         /\ child' \in [L!Children -> {"none", "loading", "serving", "terminated", "exited"}]
<1>1. PICK c \in L!Children : child' = [child EXCEPT ![c] = "loading"] /\ process' = c
  BY DEF L!Spawns
<1>. QED
  BY <1>1 DEF L!LlamaTypeOK, L!Running

LEMMA TerminatesKeepsRunning ==
  ASSUME L!LlamaTypeOK, L!Terminates
  PROVE  L!Running' = L!Running
         /\ child' \in [L!Children -> {"none", "loading", "serving", "terminated", "exited"}]
  BY DEF L!Terminates, L!Gone, L!Running, L!LlamaTypeOK

\* The steps of a child only end it, and requests do not touch the children.
LEMMA ChildrenKeep ==
  ASSUME LlamaInv, NEW c \in L!Children, L!Loads(c) \/ L!Exits(c)
  PROVE  LlamaInv'
<1>1. L!Running' \subseteq L!Running
  BY DEF L!Loads, L!Exits, L!Running, LlamaInv, L!LlamaTypeOK
<1>2. UNCHANGED <<life, process, restartLock, call, server>>
  BY DEF L!Loads, L!Exits
<1>3. L!LlamaTypeOK'
  BY DEF L!Loads, L!Exits, LlamaInv, L!LlamaTypeOK
<1>. QED
  BY <1>1, <1>2, <1>3 DEF LlamaInv, ProcessIsTheServer, RestartsAreExclusive, CallsFollowLife

LEMMA RequestsKeep ==
  ASSUME LlamaInv,
         \/ \E r \in LlamaRequests : L!Sends(r) \/ L!LlamaAnswer(r)
         \/ \E c \in CancelCalls : L!CancelCall(c)
  PROVE  LlamaInv'
<1>1. UNCHANGED <<life, child, process, restartLock>> /\ life \notin {"starting", "stopping", "gone"}
  BY DEF L!Sends, L!LlamaAnswer, L!Replies, L!Fails, L!Breaks, L!CancelCall, LlamaInv, CallsFollowLife,
     L!Calls
<1>2. PICK t \in L!Calls, label \in {"sent", "streaming", "done", "restart"} :
          /\ call' = [call EXCEPT ![t] = label]
          /\ call[t] \notin {"stopping", "starting"}
  BY DEF L!Sends, L!LlamaAnswer, L!Replies, L!Fails, L!Breaks, L!CancelCall, L!Calls
<1>3. L!LlamaTypeOK'
  <2>1. server' = server \/ \E r \in LlamaRequests : server' = [server EXCEPT ![r] = process]
    BY DEF L!Sends, L!LlamaAnswer, L!Replies, L!Fails, L!Breaks, L!CancelCall
  <2>2. server' \in [LlamaRequests -> 0 .. MaxChildren]
    BY <2>1 DEF LlamaInv, L!LlamaTypeOK
  <2>3. call' \in [L!Calls -> {"new", "sent", "streaming", "done"} \cup L!Restarting]
    BY <1>2 DEF LlamaInv, L!LlamaTypeOK, L!Restarting
  <2>. QED
    BY <1>1, <2>2, <2>3 DEF LlamaInv, L!LlamaTypeOK
<1>4. L!Running' = L!Running
  BY <1>1 DEF L!Running
<1>5. RestartsAreExclusive'
  BY <1>1, <1>2, <1>4 DEF LlamaInv, L!LlamaTypeOK, RestartsAreExclusive
<1>. QED
  BY <1>1, <1>3, <1>4, <1>5 DEF LlamaInv, ProcessIsTheServer, CallsFollowLife

\* A client that leaves terminates the child, or forgets it when it is gone.
LEMMA LeavesStreamKeeps ==
  ASSUME LlamaInv, NEW r \in LlamaRequests, L!LeavesStream(r)
  PROVE  LlamaInv'
<1>1. r \in L!Calls /\ call[r] = "streaming" /\ call' = [call EXCEPT ![r] = "done"]
      /\ UNCHANGED <<life, restartLock, server>>
  BY DEF L!LeavesStream, L!Calls
<1>2. L!Running' = L!Running
      /\ child' \in [L!Children -> {"none", "loading", "serving", "terminated", "exited"}]
  BY TerminatesKeepsRunning DEF L!LeavesStream, LlamaInv, L!Running, L!LlamaTypeOK
<1>3. process' = process \/ (process \notin L!Running /\ process' = 0)
  BY DEF L!LeavesStream, L!Gone
<1>4. L!LlamaTypeOK'
  BY <1>1, <1>2, <1>3, LlamaAssumption DEF LlamaInv, L!LlamaTypeOK
<1>5. ProcessIsTheServer'
  BY <1>2, <1>3 DEF LlamaInv, ProcessIsTheServer
<1>6. RestartsAreExclusive' /\ CallsFollowLife'
  BY <1>1, <1>2 DEF LlamaInv, L!LlamaTypeOK, RestartsAreExclusive, CallsFollowLife
<1>. QED
  BY <1>4, <1>5, <1>6 DEF LlamaInv

\* A call goes through restart().
LEMMA RestartKeeps ==
  ASSUME LlamaInv, NEW t \in L!Calls, L!LlamaRestart(t)
  PROVE  LlamaInv'
<1>0. L!LlamaTypeOK /\ UNCHANGED <<life, server>> /\ life \notin {"starting", "stopping", "gone"}
  BY DEF L!LlamaRestart, L!BeginsRestart, L!ChildStopped, L!EndsRestart, LlamaInv, CallsFollowLife
<1>1. CASE L!BeginsRestart(t)
  <2>1. \A q \in L!Calls : call'[q] = IF q = t THEN "stopping" ELSE call[q]
    BY <1>0, <1>1 DEF L!BeginsRestart, L!LlamaTypeOK
  <2>2. L!Running' = L!Running /\ restartLock = 0 /\ restartLock' = t /\ process' = process
        /\ child' \in [L!Children -> {"none", "loading", "serving", "terminated", "exited"}]
    BY <1>0, <1>1, TerminatesKeepsRunning DEF L!BeginsRestart
  <2>3. \A q \in L!Calls : call[q] \notin {"stopping", "starting"}
    BY <2>2, LlamaAssumption DEF LlamaInv, RestartsAreExclusive, L!Calls
  <2>4. L!LlamaTypeOK'
    BY <1>0, <1>1, <2>2 DEF L!BeginsRestart, L!LlamaTypeOK, L!Restarting
  <2>5. RestartsAreExclusive'
    BY <2>1, <2>2, <2>3 DEF RestartsAreExclusive
  <2>. QED
    BY <1>0, <2>2, <2>4, <2>5 DEF LlamaInv, ProcessIsTheServer, CallsFollowLife
<1>2. CASE L!ChildStopped(t)
  <2>1. \A q \in L!Calls : call'[q] = IF q = t THEN "starting" ELSE call[q]
    BY <1>0, <1>2 DEF L!ChildStopped, L!LlamaTypeOK
  <2>2. L!Running = {} /\ L!Running' = {} /\ process' = 0 /\ restartLock' = restartLock
    BY <1>2 DEF L!ChildStopped, L!Gone, LlamaInv, ProcessIsTheServer, L!Running
  <2>3. L!LlamaTypeOK'
    BY <1>0, <1>2, LlamaAssumption DEF L!ChildStopped, L!LlamaTypeOK, L!Restarting
  <2>4. RestartsAreExclusive'
    BY <1>2, <2>1, <2>2 DEF L!ChildStopped, LlamaInv, RestartsAreExclusive
  <2>. QED
    BY <1>0, <2>2, <2>3, <2>4 DEF LlamaInv, ProcessIsTheServer, CallsFollowLife
<1>3. CASE L!EndsRestart(t)
  <2>1. \A q \in L!Calls : call'[q] = IF q = t THEN "done" ELSE call[q]
    BY <1>0, <1>3 DEF L!EndsRestart, L!LlamaTypeOK
  <2>2. L!Running = {} /\ restartLock = t /\ restartLock' = 0
    BY <1>3 DEF L!EndsRestart, LlamaInv, RestartsAreExclusive
  <2>3. \A q \in L!Calls : call'[q] \notin {"stopping", "starting"}
    BY <2>1, <2>2 DEF LlamaInv, RestartsAreExclusive
  <2>4. /\ L!Running' \subseteq {process'} /\ process' \in 0 .. MaxChildren
        /\ child' \in [L!Children -> {"none", "loading", "serving", "terminated", "exited"}]
    <3>1. CASE L!Spawns
      BY <1>0, <2>2, <3>1, SpawnsOne, LlamaAssumption DEF L!Children
    <3>2. CASE UNCHANGED <<child, process>>
      BY <1>0, <2>2, <3>2 DEF L!LlamaTypeOK, L!Running
    <3>. QED
      BY <1>3, <3>1, <3>2 DEF L!EndsRestart
  <2>5. L!LlamaTypeOK'
    BY <1>0, <1>3, <2>4 DEF L!EndsRestart, L!LlamaTypeOK
  <2>6. RestartsAreExclusive'
    BY <2>2, <2>3, LlamaAssumption DEF RestartsAreExclusive, L!Calls
  <2>. QED
    BY <1>0, <2>4, <2>5, <2>6 DEF LlamaInv, ProcessIsTheServer, CallsFollowLife
<1>. QED
  BY <1>1, <1>2, <1>3 DEF L!LlamaRestart

\* The Worker's own start and end.
LEMMA LifespanKeeps ==
  ASSUME LlamaInv, L!Starts \/ L!Closes \/ L!LifespanStops \/ L!LifespanEnds
  PROVE  LlamaInv'
<1>0. L!LlamaTypeOK /\ UNCHANGED <<restartLock, call, server>>
  BY DEF L!Starts, L!Closes, L!LifespanStops, L!LifespanEnds, LlamaInv
<1>1. CASE L!Starts
  <2>1. L!Running = {} /\ life' \in {"up", "gone"} /\ \A t \in L!Calls : call[t] = "new"
    BY <1>1 DEF L!Starts, LlamaInv, CallsFollowLife
  <2>2. /\ L!Running' \subseteq {process'} /\ process' \in 0 .. MaxChildren
        /\ child' \in [L!Children -> {"none", "loading", "serving", "terminated", "exited"}]
        /\ life' = "gone" => L!Running' = {}
    <3>1. CASE L!Spawns /\ life' = "up"
      BY <1>0, <2>1, <3>1, SpawnsOne, LlamaAssumption DEF L!Children
    <3>2. CASE UNCHANGED <<child, process>>
      BY <1>0, <2>1, <3>2 DEF L!LlamaTypeOK, L!Running
    <3>. QED
      BY <1>1, <3>1, <3>2 DEF L!Starts
  <2>3. L!LlamaTypeOK'
    BY <1>0, <2>1, <2>2 DEF L!LlamaTypeOK
  <2>4. RestartsAreExclusive' /\ CallsFollowLife'
    BY <1>0, <2>1, <2>2 DEF LlamaInv, RestartsAreExclusive, CallsFollowLife
  <2>. QED
    BY <2>2, <2>3, <2>4 DEF LlamaInv, ProcessIsTheServer
<1>2. CASE L!Closes
  <2>1. L!Running' = L!Running /\ UNCHANGED <<child, process>> /\ life' = "closing"
    BY <1>2 DEF L!Closes, L!Running
  <2>. QED
    BY <1>0, <2>1 DEF LlamaInv, L!LlamaTypeOK, ProcessIsTheServer, RestartsAreExclusive, CallsFollowLife
<1>3. CASE L!LifespanStops
  <2>1. L!Running' = L!Running /\ process' = process /\ life' = "stopping"
        /\ child' \in [L!Children -> {"none", "loading", "serving", "terminated", "exited"}]
        /\ \A t \in L!Calls : call[t] \in {"new", "done"}
    BY <1>0, <1>3, TerminatesKeepsRunning DEF L!LifespanStops
  <2>. QED
    BY <1>0, <2>1 DEF LlamaInv, L!LlamaTypeOK, ProcessIsTheServer, RestartsAreExclusive, CallsFollowLife
<1>4. CASE L!LifespanEnds
  <2>1. L!Running' = {} /\ UNCHANGED <<child, process>> /\ life' = "gone" /\ life = "stopping"
    BY <1>4 DEF L!LifespanEnds, L!Gone, L!Running, LlamaInv, ProcessIsTheServer
  <2>. QED
    BY <1>0, <2>1 DEF LlamaInv, L!LlamaTypeOK, ProcessIsTheServer, RestartsAreExclusive, CallsFollowLife
<1>. QED
  BY <1>1, <1>2, <1>3, <1>4

LEMMA LlamaStep == LlamaInv /\ [L!LlamaNext]_llama => LlamaInv'
<1> SUFFICES ASSUME LlamaInv, [L!LlamaNext]_llama PROVE LlamaInv'
  OBVIOUS
<1>1. CASE UNCHANGED llama
  BY <1>1 DEF llama, LlamaInv, L!LlamaTypeOK, ProcessIsTheServer, RestartsAreExclusive, CallsFollowLife,
     L!Running
<1>. QED
  BY <1>1, ChildrenKeep, RequestsKeep, LeavesStreamKeeps, RestartKeeps, LifespanKeeps DEF L!LlamaNext

LEMMA LlamaIsSafe == LlamaInv => L!OneServer /\ L!NothingLeftBehind
<1> SUFFICES ASSUME LlamaInv PROVE L!OneServer /\ L!NothingLeftBehind
  OBVIOUS
<1>1. L!Running = {} \/ L!Running = {process}
  BY DEF LlamaInv, ProcessIsTheServer
<1>2. L!Cardinality(L!Running) = Cardinality(L!Running)
  BY DEF L!Cardinality, Cardinality
<1>3. Cardinality({}) = 0 /\ Cardinality({process}) = 1
  BY FS_EmptySet, FS_Singleton
<1>4. Cardinality(L!Running) <= 1
  BY <1>1, <1>3
<1>. QED
  BY <1>2, <1>4 DEF L!OneServer, LlamaInv, CallsFollowLife, L!NothingLeftBehind

---------------------------------------------------------------------------
(* The Transformers Worker *)

\* The lock has one holder, whose thread is in the model; other threads there were left.
ThreadsFollowCoroutines ==
    /\ \A q, r \in Requests : coroutine[q] = "running" /\ coroutine[r] = "running" => q = r
    /\ \A r \in Requests :
        /\ modelThread[r] \in A!Steps => coroutine[r] \in {"running", "left"}
        /\ coroutine[r] = "running" => modelThread[r] # "none"

\* Requests are accepted once the warm-up is over.
RequestsFollowTheStart ==
    modelStart # "ready" => \A r \in Requests : coroutine[r] \in {"new", "refused"}

\* A thread prefills or branches only for a request that has a prefix, and from its own.
PrefixesMatch ==
    /\ A!BranchesMatch
    /\ \A r \in Requests : modelThread[r] = "prefill" => PrefixOf[r] # None

\* A thread that was told to stop was told by its event.
StopsAreAsked == \A r \in Requests : modelThread[r] = "cancelled" => r \in event

\* Requests that are in flight under one id have shared it.
NamesakesShare ==
    \A q, r \in A!InFlight : q # r /\ IdOf[q] = IdOf[r] => r \in shared

ModelInv ==
    /\ A!TypeOK /\ A!CancellationReaches /\ NamesakesShare
    /\ ThreadsFollowCoroutines /\ RequestsFollowTheStart /\ PrefixesMatch /\ StopsAreAsked

LEMMA ModelInitially == A!Init => ModelInv
<1> SUFFICES ASSUME A!Init PROVE ModelInv
  OBVIOUS
<1>1. A!InFlight = {}
  BY DEF A!Init, A!InFlight, A!Waiting, A!Running
<1>. QED
  BY <1>1, RequestsAssumption
  DEF A!Init, ModelInv, A!TypeOK, A!CancellationReaches, NamesakesShare, ThreadsFollowCoroutines, A!Steps,
      RequestsFollowTheStart, PrefixesMatch, A!BranchesMatch, StopsAreAsked

\* The steps of the start, of the routes that stop requests and of the cache route.
LEMMA ModelRoutesKeep ==
  ASSUME ModelInv,
         \/ A!Loads \/ A!WarmUpBegins \/ A!WarmUpEnds \/ A!Shutdown \/ A!ClearCache
         \/ \E i \in Ids : A!Cancel(i)
         \/ UNCHANGED model
  PROVE  ModelInv'
<1>1. UNCHANGED <<cancellations, coroutine, modelThread, branch, shared>> /\ event \subseteq event'
  BY DEF A!Loads, A!WarmUpBegins, A!WarmUpEnds, A!Shutdown, A!ClearCache, A!Cancel, model,
     A!loopVars, A!cacheVars
<1>2. modelStart' # "ready" => modelStart # "ready"
  BY DEF A!Loads, A!WarmUpBegins, A!WarmUpEnds, A!Shutdown, A!ClearCache, A!Cancel, model,
     A!loopVars, A!cacheVars
<1>3. A!TypeOK'
  BY DEF A!Loads, A!WarmUpBegins, A!WarmUpEnds, A!Shutdown, A!ClearCache, A!Cancel, model,
     A!loopVars, A!cacheVars, ModelInv, A!TypeOK
<1>4. A!CancellationReaches' /\ NamesakesShare'
  BY <1>1 DEF ModelInv, A!CancellationReaches, NamesakesShare, A!InFlight, A!Waiting, A!Running
<1>. QED
  BY <1>1, <1>2, <1>3, <1>4
  DEF ModelInv, ThreadsFollowCoroutines, RequestsFollowTheStart, PrefixesMatch, A!BranchesMatch,
      StopsAreAsked

\* The step of a coroutine that leaves the threads alone.
LEMMA CoroutineKeeps ==
  ASSUME ModelInv, NEW r \in Requests,
         \/ A!Refuse(r) \/ A!Accept(r) \/ A!Iterates(r) \/ A!LeavesEarly(r) \/ A!Leaves(r)
         \/ A!FinishResponse(r) \/ A!FinishStream(r)
  PROVE  ModelInv'
<1>0. UNCHANGED <<modelStart, modelThread, entry, branch>> /\ event \subseteq event'
  BY DEF A!Refuse, A!Accept, A!Iterates, A!LeavesEarly, A!Leaves, A!FinishResponse, A!FinishStream,
     A!cacheVars
<1>1. PICK label : /\ A!Goto(r, label)
                   /\ label \in {"refused", "accepted", "waiting", "left", "complete", "cancelled", "failed"}
  BY DEF A!Refuse, A!Accept, A!Iterates, A!LeavesEarly, A!Leaves, A!FinishResponse, A!FinishStream,
     A!ThreadEnded, ModelInv, ThreadsFollowCoroutines, A!TypeOK
<1>2. \A q \in Requests : coroutine'[q] = IF q = r THEN label ELSE coroutine[q]
  BY <1>1 DEF ModelInv, A!TypeOK, A!Goto
<1>3. A!TypeOK'
  BY <1>0, <1>1, RequestsAssumption
  DEF A!Refuse, A!Accept, A!Iterates, A!LeavesEarly, A!Leaves, A!FinishResponse, A!FinishStream,
      A!Goto, A!Finally, A!Forget, A!Shares, A!Namesakes, A!InFlight, A!Waiting, A!Running, ModelInv,
      A!TypeOK
<1>4. A!CancellationReaches' /\ NamesakesShare'
  <2>1. CASE A!Refuse(r) \/ A!Iterates(r) \/ A!LeavesEarly(r)
    <3>1. A!InFlight' \subseteq A!InFlight /\ UNCHANGED <<cancellations, shared>>
      BY <2>1, <1>2
      DEF A!Refuse, A!Iterates, A!LeavesEarly, A!Goto, ModelInv, A!TypeOK, A!InFlight, A!Waiting,
          A!Running
    <3>. QED
      BY <3>1 DEF ModelInv, A!CancellationReaches, NamesakesShare
  <2>2. CASE A!Accept(r)
    <3>1. A!InFlight' = A!InFlight \cup {r} /\ r \notin A!InFlight
      BY <1>2, <2>2 DEF A!Accept, A!Goto, ModelInv, A!TypeOK, A!InFlight, A!Waiting, A!Running
    <3>2. shared \subseteq shared' /\ \A q \in A!InFlight : IdOf[q] = IdOf[r] => {q, r} \subseteq shared'
      BY <2>2 DEF A!Accept, A!Shares, A!Namesakes
    <3>3. \A i \in Ids : cancellations'[i] = IF i = IdOf[r] THEN r ELSE cancellations[i]
      BY <2>2 DEF A!Accept, ModelInv, A!TypeOK
    <3>4. A!InFlight \subseteq Requests /\ \A q \in Requests : IdOf[q] \in Ids
      BY RequestsAssumption DEF A!InFlight, A!Waiting, A!Running
    <3>5. A!CancellationReaches'
      BY <3>1, <3>2, <3>3, <3>4 DEF ModelInv, A!CancellationReaches
    <3>6. NamesakesShare'
      BY <3>1, <3>2 DEF ModelInv, NamesakesShare
    <3>. QED
      BY <3>5, <3>6
  <2>3. CASE A!Leaves(r) \/ A!FinishResponse(r) \/ A!FinishStream(r)
    <3>1. r \in A!InFlight /\ A!InFlight' = A!InFlight \ {r} /\ A!Forget(r) /\ shared' = shared
      BY <1>1, <1>2, <2>3
      DEF A!Leaves, A!FinishResponse, A!FinishStream, A!ThreadEnded, A!Finally, A!Goto, ModelInv,
          A!TypeOK, ThreadsFollowCoroutines, A!InFlight, A!Waiting, A!Running
    <3>2. \A q \in A!InFlight' \ shared' : IdOf[q] # IdOf[r]
      BY <3>1 DEF ModelInv, NamesakesShare
    <3>3. A!CancellationReaches'
      BY <3>1, <3>2, RequestsAssumption DEF A!Forget, ModelInv, A!TypeOK, A!CancellationReaches, A!InFlight, A!Waiting, A!Running
    <3>4. NamesakesShare'
      BY <3>1 DEF ModelInv, NamesakesShare
    <3>. QED
      BY <3>3, <3>4
  <2>. QED
    BY <2>1, <2>2, <2>3
<1>5. ThreadsFollowCoroutines'
  BY <1>0, <1>1, <1>2
  DEF A!Refuse, A!Accept, A!Iterates, A!LeavesEarly, A!Leaves, A!FinishResponse, A!FinishStream,
      A!ThreadEnded, A!Goto, A!TypeOK, ModelInv, ThreadsFollowCoroutines
<1>6. RequestsFollowTheStart'
  BY <1>0, <1>1, <1>2
  DEF A!Refuse, A!Accept, A!Iterates, A!LeavesEarly, A!Leaves, A!FinishResponse, A!FinishStream,
      A!ThreadEnded, A!Goto, ModelInv, RequestsFollowTheStart
<1>7. PrefixesMatch' /\ StopsAreAsked'
  BY <1>0 DEF ModelInv, PrefixesMatch, A!BranchesMatch, StopsAreAsked
<1>. QED
  BY <1>3, <1>4, <1>5, <1>6, <1>7 DEF ModelInv

\* The lock is taken and the thread started.
LEMMA BeginKeeps ==
  ASSUME ModelInv, NEW r \in Requests, A!Begin(r)
  PROVE  ModelInv'
<1>1. \A q \in Requests : /\ coroutine'[q] = IF q = r THEN "running" ELSE coroutine[q]
                          /\ modelThread'[q] = IF q = r THEN "begin" ELSE modelThread[q]
  BY DEF A!Begin, A!Goto, ModelInv, A!TypeOK
<1>2. coroutine[r] = "waiting" /\ \A q \in Requests : coroutine[q] # "running"
  BY DEF A!Begin, A!Running
<1>3. A!TypeOK'
  BY DEF A!Begin, A!Goto, A!cacheVars, A!Steps, ModelInv, A!TypeOK
<1>4. A!InFlight' = A!InFlight /\ UNCHANGED <<cancellations, modelStart, event, branch, shared>>
  BY <1>1, <1>2 DEF A!Begin, A!InFlight, A!Waiting, A!Running, A!cacheVars
<1>5. A!CancellationReaches' /\ NamesakesShare'
  BY <1>4 DEF ModelInv, A!CancellationReaches, NamesakesShare
<1>6. ThreadsFollowCoroutines' /\ RequestsFollowTheStart'
  BY <1>1, <1>2, <1>4 DEF ModelInv, ThreadsFollowCoroutines, RequestsFollowTheStart
<1>7. PrefixesMatch' /\ StopsAreAsked'
  BY <1>1, <1>4 DEF ModelInv, PrefixesMatch, A!BranchesMatch, StopsAreAsked
<1>. QED
  BY <1>3, <1>5, <1>6, <1>7 DEF ModelInv

\* What a step of a thread changes: where it is, the cached entry and the thread's own branch.
LEMMA ThreadMoves ==
  ASSUME A!TypeOK, NEW r \in Requests, A!Thread(r), PrefixesMatch
  PROVE  /\ UNCHANGED A!loopVars /\ shared' = shared
         /\ modelThread[r] \in A!Steps
         /\ entry' \in Prefixes \cup {None}
         /\ \E label \in A!Steps \cup {"complete", "cancelled", "failed"} :
               /\ modelThread' = [modelThread EXCEPT ![r] = label]
               /\ label = "cancelled" => r \in event
               /\ label = "prefill" => PrefixOf[r] # None
               /\ \/ branch' = branch /\ (label = "branch" => FALSE)
                                      /\ (label = "suffix" => modelThread[r] = "branch")
                  \/ branch' = [branch EXCEPT ![r] = PrefixOf[r]] /\ PrefixOf[r] # None
                  \/ branch' = [branch EXCEPT ![r] = None] /\ label = "full"
<1>1. CASE A!Looks(r)
  BY <1>1, RequestsAssumption
  DEF A!Looks, A!Stopped, A!Hit, A!Miss, A!Moves, A!cacheVars, A!loopVars, A!Steps, A!TypeOK
<1>2. CASE A!Prefills(r)
  BY <1>2, RequestsAssumption
  DEF A!Prefills, A!Raises, A!Moves, A!cacheVars, A!loopVars, A!Steps, A!TypeOK, PrefixesMatch
<1>3. CASE A!Branches(r)
  BY <1>3 DEF A!Branches, A!Stopped, A!Clones, A!Moves, A!cacheVars, A!loopVars, A!Steps, A!TypeOK
<1>4. CASE A!Forwards(r) \/ A!Tokens(r) \/ A!Decodes(r)
  BY <1>4 DEF A!Forwards, A!Tokens, A!Decodes, A!Stopped, A!Raises, A!Moves, A!cacheVars, A!loopVars,
     A!Steps, A!TypeOK
<1>. QED
  BY <1>1, <1>2, <1>3, <1>4 DEF A!Thread

LEMMA ThreadKeeps ==
  ASSUME ModelInv, NEW r \in Requests, A!Thread(r)
  PROVE  ModelInv'
<1>0. A!TypeOK /\ PrefixesMatch
  BY DEF ModelInv
<1>1. UNCHANGED <<modelState, modelStart, cancellations, event, coroutine, shared>> /\ modelThread[r] \in A!Steps
      /\ entry' \in Prefixes \cup {None}
  BY <1>0, ThreadMoves DEF A!loopVars
<1>2. PICK label \in A!Steps \cup {"complete", "cancelled", "failed"} :
               /\ modelThread' = [modelThread EXCEPT ![r] = label]
               /\ label = "cancelled" => r \in event
               /\ label = "prefill" => PrefixOf[r] # None
               /\ \/ branch' = branch /\ (label = "branch" => FALSE)
                                      /\ (label = "suffix" => modelThread[r] = "branch")
                  \/ branch' = [branch EXCEPT ![r] = PrefixOf[r]] /\ PrefixOf[r] # None
                  \/ branch' = [branch EXCEPT ![r] = None] /\ label = "full"
  BY <1>0, ThreadMoves
<1>3. \A q \in Requests : modelThread'[q] = IF q = r THEN label ELSE modelThread[q]
  BY <1>0, <1>2 DEF A!TypeOK
<1>4. \A q \in Requests : q # r => branch'[q] = branch[q]
  BY <1>0, <1>2 DEF A!TypeOK
<1>5. A!TypeOK'
  BY <1>0, <1>1, <1>2, RequestsAssumption DEF A!TypeOK
<1>6. A!CancellationReaches' /\ NamesakesShare'
  BY <1>1 DEF ModelInv, A!CancellationReaches, NamesakesShare, A!InFlight, A!Waiting, A!Running
<1>7. ThreadsFollowCoroutines' /\ RequestsFollowTheStart'
  BY <1>1, <1>2, <1>3 DEF ModelInv, ThreadsFollowCoroutines, RequestsFollowTheStart, A!Steps
<1>8. label \in {"branch", "suffix"} => branch'[r] = PrefixOf[r] /\ branch'[r] # None
  BY <1>0, <1>2 DEF A!TypeOK, PrefixesMatch, A!BranchesMatch
<1>9. PrefixesMatch' /\ StopsAreAsked'
  BY <1>1, <1>2, <1>3, <1>4, <1>8 DEF ModelInv, PrefixesMatch, A!BranchesMatch, StopsAreAsked
<1>. QED
  BY <1>5, <1>6, <1>7, <1>9 DEF ModelInv

LEMMA ModelStep == ModelInv /\ [A!Next]_model => ModelInv'
<1> SUFFICES ASSUME ModelInv, [A!Next]_model PROVE ModelInv'
  OBVIOUS
<1>. QED
  BY ModelRoutesKeep, CoroutineKeeps, BeginKeeps, ThreadKeeps DEF A!Next, A!Coroutine

LEMMA ModelIsSafe == ModelInv => A!OverlapOnlyAfterLeaving /\ A!CancellationReaches /\ A!BranchesMatch
BY DEF ModelInv, A!OverlapOnlyAfterLeaving, A!InEngine, ThreadsFollowCoroutines, RequestsFollowTheStart,
       PrefixesMatch

\* The protocol's view of a request of the Transformers Worker.
ModelPhase(at) ==
    CASE at \in {"accepted", "waiting"} -> "accepted"
      [] at = "running" -> "active"
      [] OTHER -> at

ModelPhases == [r \in Requests |-> ModelPhase(coroutine[r])]

LEMMA ModelPhaseChanges ==
  ASSUME A!TypeOK, NEW r \in Requests, NEW label, A!Goto(r, label)
  PROVE  ModelPhases' = [ModelPhases EXCEPT ![r] = ModelPhase(label)]
  BY DEF A!TypeOK, A!Goto, ModelPhases

\* What a step of the Transformers Worker does to the phases of the protocol.
LEMMA ModelPhaseSteps ==
  ASSUME ModelInv, [A!Next]_model
  PROVE  \/ ModelPhases' = ModelPhases
         \/ \E r \in Requests :
              \/ /\ ModelPhases[r] = "new"
                 /\ \E p \in {"accepted", "refused"} : ModelPhases' = [ModelPhases EXCEPT ![r] = p]
              \/ /\ ModelPhases[r] = "accepted" /\ \A q \in Requests : ModelPhases[q] # "active"
                 /\ ModelPhases' = [ModelPhases EXCEPT ![r] = "active"]
              \/ /\ ModelPhases[r] \in {"accepted", "active"}
                 /\ \E p \in {"complete", "cancelled", "failed", "left"} :
                       /\ p = "cancelled" => r \in event
                       /\ ModelPhases[r] = "accepted" => p = "left"
                       /\ ModelPhases' = [ModelPhases EXCEPT ![r] = p]
<1> USE DEF ModelPhase
<1>0. A!TypeOK /\ \A r \in Requests : ModelPhases[r] = ModelPhase(coroutine[r])
  BY DEF ModelInv, ModelPhases
<1>1. CASE coroutine' = coroutine
  BY <1>1 DEF ModelPhases
<1>2. ASSUME NEW r \in Requests, A!Refuse(r) \/ A!Accept(r)
      PROVE  /\ ModelPhases[r] = "new"
             /\ \E p \in {"accepted", "refused"} : ModelPhases' = [ModelPhases EXCEPT ![r] = p]
  <2>1. PICK label \in {"refused", "accepted", "waiting"} : A!Goto(r, label)
    BY <1>2 DEF A!Refuse, A!Accept
  <2>2. ModelPhases' = [ModelPhases EXCEPT ![r] = ModelPhase(label)]
    BY <1>0, <2>1, ModelPhaseChanges
  <2>. QED
    BY <1>0, <1>2, <2>2 DEF A!Refuse, A!Accept
<1>3. ASSUME NEW r \in Requests, A!Iterates(r) PROVE ModelPhases' = ModelPhases
  <2>1. \A q \in Requests : coroutine'[q] = IF q = r THEN "waiting" ELSE coroutine[q]
    BY <1>0, <1>3 DEF A!Iterates, A!Goto, A!TypeOK
  <2>2. \A q \in Requests : ModelPhase(coroutine'[q]) = ModelPhase(coroutine[q])
    BY <1>3, <2>1 DEF A!Iterates
  <2>. QED
    BY <2>2 DEF ModelPhases
<1>4. ASSUME NEW r \in Requests, A!Begin(r)
      PROVE  /\ ModelPhases[r] = "accepted" /\ \A q \in Requests : ModelPhases[q] # "active"
             /\ ModelPhases' = [ModelPhases EXCEPT ![r] = "active"]
  <2>1. ModelPhases' = [ModelPhases EXCEPT ![r] = ModelPhase("running")]
    BY <1>0, <1>4, ModelPhaseChanges DEF A!Begin
  <2>. QED
    BY <1>0, <1>4, <2>1 DEF A!Begin, A!Running, A!TypeOK
<1>5. ASSUME NEW r \in Requests,
             A!LeavesEarly(r) \/ A!Leaves(r) \/ A!FinishResponse(r) \/ A!FinishStream(r)
      PROVE  /\ ModelPhases[r] \in {"accepted", "active"}
             /\ \E p \in {"complete", "cancelled", "failed", "left"} :
                   /\ p = "cancelled" => r \in event
                   /\ ModelPhases[r] = "accepted" => p = "left"
                   /\ ModelPhases' = [ModelPhases EXCEPT ![r] = p]
  <2>1. PICK label \in {"complete", "cancelled", "failed", "left"} :
            /\ A!Goto(r, label) /\ (label = "cancelled" => r \in event)
            /\ coroutine[r] # "running" => label = "left" /\ coroutine[r] \in {"accepted", "waiting"}
    BY <1>5 DEF A!LeavesEarly, A!Leaves, A!FinishResponse, A!FinishStream, A!ThreadEnded,
       ModelInv, A!TypeOK, ThreadsFollowCoroutines, StopsAreAsked
  <2>2. ModelPhases' = [ModelPhases EXCEPT ![r] = ModelPhase(label)]
    BY <1>0, <2>1, ModelPhaseChanges
  <2>3. ModelPhase(label) = label
    OBVIOUS
  <2>4. ModelPhases[r] = IF coroutine[r] = "running" THEN "active" ELSE "accepted"
    BY <1>0, <2>1
  <2>. QED
    BY <2>1, <2>2, <2>3, <2>4
<1>6. ASSUME \/ A!Loads \/ A!WarmUpBegins \/ A!WarmUpEnds \/ A!Shutdown \/ A!ClearCache
             \/ (\E i \in Ids : A!Cancel(i)) \/ (\E r \in Requests : A!Thread(r))
             \/ UNCHANGED model
      PROVE  coroutine' = coroutine
  BY <1>0, <1>6, ThreadMoves
  DEF A!Loads, A!WarmUpBegins, A!WarmUpEnds, A!Shutdown, A!ClearCache, A!Cancel, model, A!loopVars,
      A!cacheVars, ModelInv
<1> HIDE DEF ModelPhase
<1>. QED
  BY <1>1, <1>2, <1>3, <1>4, <1>5, <1>6 DEF A!Next, A!Coroutine

LEMMA EventGrows ==
  ASSUME ModelInv, [A!Next]_model
  PROVE  event \subseteq event' /\ event' \subseteq Requests
<1>1. event' \subseteq Requests
  BY ModelStep DEF ModelInv, A!TypeOK
<1>2. ASSUME NEW r \in Requests, A!Thread(r) PROVE event' = event
  BY <1>2, ThreadMoves DEF ModelInv, A!loopVars
<1>. QED
  BY <1>1, <1>2
  DEF A!Next, A!Coroutine, A!Loads, A!WarmUpBegins, A!WarmUpEnds, A!Shutdown, A!ClearCache, A!Cancel,
      A!Refuse, A!Accept, A!Iterates, A!LeavesEarly, A!Leaves, A!FinishResponse, A!FinishStream,
      A!Begin, model, A!loopVars, A!cacheVars

LEMMA ModelProtocolInitially == A!Init => A!Protocol!Init
  BY DEF A!Init, A!Protocol!Init

LEMMA ModelProtocolStep ==
  ModelInv /\ [A!Next]_model => [A!Protocol!Next]_(A!Protocol!vars)
<1> SUFFICES ASSUME ModelInv, [A!Next]_model PROVE A!Protocol!Next
  OBVIOUS
<1> USE DEF ModelPhases, ModelPhase
<1>1. event \subseteq event' /\ event' \subseteq Requests
  BY EventGrows
<1>2. CASE ModelPhases' = ModelPhases
  BY <1>1, <1>2 DEF A!Protocol!Next
<1>3. ASSUME NEW r \in Requests, ModelPhases[r] = "new", NEW p \in {"accepted", "refused"},
             ModelPhases' = [ModelPhases EXCEPT ![r] = p]
      PROVE  A!Protocol!Next
  <2>1. A!Protocol!Accept(r)
    BY <1>3 DEF A!Protocol!Accept
  <2>. QED
    BY <1>1, <2>1 DEF A!Protocol!Next
<1>4. ASSUME NEW r \in Requests, ModelPhases[r] = "accepted",
             \A q \in Requests : ModelPhases[q] # "active",
             ModelPhases' = [ModelPhases EXCEPT ![r] = "active"]
      PROVE  A!Protocol!Next
  <2>1. A!Protocol!Active = {}
    BY <1>4 DEF A!Protocol!Active
  <2>2. A!Protocol!Begin(r)
    BY <1>4, <2>1 DEF A!Protocol!Begin
  <2>. QED
    BY <1>1, <2>2 DEF A!Protocol!Next
<1>5. ASSUME NEW r \in Requests, ModelPhases[r] \in {"accepted", "active"},
             NEW p \in {"complete", "cancelled", "failed", "left"},
             p = "cancelled" => r \in event, ModelPhases[r] = "accepted" => p = "left",
             ModelPhases' = [ModelPhases EXCEPT ![r] = p]
      PROVE  A!Protocol!Next
  <2>1. A!Protocol!End(r, p)
    BY <1>5 DEF A!Protocol!End
  <2>2. p \in A!Protocol!Answers
    BY DEF A!Protocol!Answers
  <2>. QED
    BY <1>1, <2>1, <2>2 DEF A!Protocol!Next
<1> HIDE DEF ModelPhases, ModelPhase
<1>. QED
  BY <1>2, <1>3, <1>4, <1>5, ModelPhaseSteps

---------------------------------------------------------------------------
(* The Workers together *)

WorkersInv == SlotInv /\ JobsInv /\ LlamaInv /\ ModelInv

LEMMA WorkersInitially == WorkersInit => WorkersInv
  BY SlotInitially, JobsInitially, LlamaInitially, ModelInitially DEF WorkersInit, WorkersInv

\* A step of the Workers is, for each of them, a step of its own or none.
LEMMA EachTakesItsOwnStep ==
  [WorkersNext]_vars =>
    [SlotNext]_slotVars /\ [J!JobsNext]_(J!jobsVars) /\ [L!LlamaNext]_llama /\ [A!Next]_model
<1>1. UNCHANGED jobs => UNCHANGED J!jobsVars
  BY DEF jobs, J!jobsVars, J!jobVars, J!readerVars
<1>. QED
  BY <1>1 DEF WorkersNext, vars

LEMMA WorkersStep == WorkersInv /\ [WorkersNext]_vars => WorkersInv'
  BY EachTakesItsOwnStep, SlotStep, JobsStep, LlamaStep, ModelStep DEF WorkersInv

\* The invariant of the Workers, whichever runtime was chosen.
THEOREM WorkersInvariant == WorkersSafety => []WorkersInv
  BY WorkersInitially, WorkersStep, PTL DEF WorkersSafety

\* Every variable of every Worker has its type.
THEOREM WorkersAreTyped == WorkersSafety => []WorkerTypesOK
<1>1. WorkersInv => WorkerTypesOK
  BY JobsAreSafe DEF WorkersInv, WorkerTypesOK, SlotInv, LlamaInv, ModelInv
<1>. QED
  BY <1>1, WorkersInvariant, PTL

\* Requests compute one at a time, whatever hangs, is cancelled, is left or is given up: in a slot
\* Worker always, in a Transformers model unless a client left, and there is one llama.cpp server
\* and none outlives its Worker (_claim_slot, _trace_response, restart).
THEOREM WorkersComputeOneRequest == WorkersSafety => OneRequestComputes /\ []OneAtATime
<1>1. WorkersInv => Cardinality(Working) <= 1 /\ OneAtATime
  BY OneWorks, LlamaIsSafe, ModelIsSafe DEF WorkersInv, OneAtATime
<1>2. WorkersInv /\ [WorkersNext]_vars =>
        [Outlived # {} => Working' \subseteq Working /\ smokes' \subseteq smokes]_slotVars
  BY EachTakesItsOwnStep, NothingBegins DEF WorkersInv
<1>. QED
  BY <1>1, <1>2, WorkersInvariant, PTL DEF WorkersSafety, OneRequestComputes

\* A cancellation by id finds the request in flight that has it, although requests come and go
\* and ids are used again, unless two of one id were in flight together (cancel, the
\* cancellations table).
THEOREM CancellationsReach == WorkersSafety => []CancellationReaches
<1>1. WorkersInv => CancellationReaches
  BY ModelIsSafe DEF WorkersInv, CancellationReaches
<1>. QED
  BY <1>1, WorkersInvariant, PTL

\* No request continues from another prefix's cache, and no follower of a diffusion job was sent
\* a frame that the result has not, or misses one (_initial_forward, job_events).
THEOREM AnswersBelong == WorkersSafety => []AnswersAreTheirOwn
<1>1. WorkersInv => AnswersAreTheirOwn
  BY JobsAreSafe, ModelIsSafe DEF WorkersInv, AnswersAreTheirOwn
<1>. QED
  BY <1>1, WorkersInvariant, PTL

\* The slot, the diffusion and the Transformers Workers implement WorkerProtocol.
THEOREM WorkersImplementProtocol == WorkersSafety => WorkersKeepProtocol
<1>1. WorkersInit => SlotProtocol!Init /\ J!JobsProtocol!Init /\ A!Protocol!Init
  BY SlotProtocolInitially, JobsProtocolInitially, ModelProtocolInitially DEF WorkersInit
<1>2. WorkersInv /\ [WorkersNext]_vars =>
        /\ [SlotProtocol!Next]_(SlotProtocol!vars)
        /\ [J!JobsProtocol!Next]_(J!JobsProtocol!vars)
        /\ [A!Protocol!Next]_(A!Protocol!vars)
  BY EachTakesItsOwnStep, WorkersStep, SlotProtocolStep, JobsProtocolStep, ModelProtocolStep
  DEF WorkersInv
<1>. QED
  BY <1>1, <1>2, WorkersInvariant, PTL
  DEF WorkersSafety, WorkersKeepProtocol, SlotKeepsProtocol, J!JobsKeepProtocol, A!KeepsProtocol,
      SlotProtocol!Spec, J!JobsProtocol!Spec, A!Protocol!Spec
=============================================================================
