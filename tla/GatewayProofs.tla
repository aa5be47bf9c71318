--------------------------- MODULE GatewayProofs ---------------------------
(***************************************************************************)
(* Claims are given back exactly once, for every set of requests and ids,  *)
(* every limit and every thermal state, but for those that the two exits   *)
(* of ClaimRaises and Abandoned lose.                                      *)
(*                                                                         *)
(* GatewayInv is inductive.  Besides the properties it says that a request *)
(* whose job retains capacity is done: otherwise a request could retain    *)
(* what its job has already, and the count would exceed the claims.        *)
(***************************************************************************)
EXTENDS GatewayClaims, FiniteSetTheorems, TLAPS

JobsAreDone == \A r \in jobClaims : pc[r] = "done"

\* The three properties about the counts.
Counted == active = Work + leaked /\ Work <= Heavy /\ file >= Work

GatewayInv == TypeOK /\ JobsAreDone /\ Counted /\ OwnersAreInFlight

\* Holding is a finite set of strings, of which Registered has some.
LEMMA Labels ==
  /\ Registered \subseteq Holding
  /\ Holding \cap {"new", "queued", "done"} = {}
  /\ {"health", "talking", "leaving"} \subseteq Holding \ Registered
  /\ {"sending", "cancelling", "reading", "streaming", "aborting", "closing"} = Registered
  BY DEF Holding, Registered

LEMMA WorkIsFinite ==
  ASSUME TypeOK
  PROVE  /\ IsFiniteSet(Holders) /\ Cardinality(Holders) \in Nat
         /\ IsFiniteSet(jobClaims) /\ Cardinality(jobClaims) \in Nat
<1>1. Holders \subseteq Requests /\ jobClaims \subseteq Requests /\ IsFiniteSet(Requests)
  BY GatewayAssumption DEF Holders, TypeOK
<1>2. IsFiniteSet(Holders) /\ IsFiniteSet(jobClaims)
  BY <1>1, FS_Subset
<1>. QED
  BY <1>2, FS_CardinalityType

---------------------------------------------------------------------------
(* How a step of one request changes the sets that are counted *)

LEMMA Enters ==
  ASSUME TypeOK, NEW r \in Requests, NEW label \in Holding, Goto(r, label)
  PROVE  Holders' = Holders \cup {r}
  BY DEF TypeOK, Goto, Holders

LEMMA Leaves ==
  ASSUME TypeOK, NEW r \in Requests, NEW label, label \notin Holding, Goto(r, label)
  PROVE  Holders' = Holders \ {r}
  BY DEF TypeOK, Goto, Holders

\* A request that moves inside Holding, or outside.
LEMMA Stays ==
  ASSUME TypeOK, NEW r \in Requests, NEW label, Goto(r, label),
         pc[r] \in Holding <=> label \in Holding
  PROVE  Holders' = Holders
<1>1. CASE label \in Holding
  BY <1>1, Enters DEF Holders
<1>2. CASE label \notin Holding
  BY <1>2, Leaves DEF Holders
<1>. QED
  BY <1>1, <1>2

LEMMA OneMore ==
  ASSUME NEW S, IsFiniteSet(S), NEW x, x \notin S
  PROVE  Cardinality(S \cup {x}) = Cardinality(S) + 1
  BY FS_AddElement

LEMMA OneLess ==
  ASSUME NEW S, IsFiniteSet(S), NEW x, x \in S
  PROVE  Cardinality(S \ {x}) = Cardinality(S) - 1 /\ Cardinality(S) >= 1
<1>1. IsFiniteSet(S \ {x})
  BY FS_RemoveElement
<1>2. Cardinality((S \ {x}) \cup {x}) = Cardinality(S \ {x}) + 1
  BY <1>1, OneMore
<1>3. (S \ {x}) \cup {x} = S
  OBVIOUS
<1>4. Cardinality(S \ {x}) \in Nat
  BY <1>1, FS_CardinalityType
<1>. QED
  BY <1>2, <1>3, <1>4

---------------------------------------------------------------------------
(* What the count does then *)

LEMMA CountKept ==
  ASSUME Counted, Holders' = Holders, UNCHANGED <<jobClaims, claimVars>>
  PROVE  Counted'
  BY DEF Counted, Work, claimVars

LEMMA LimitIsConfigured == host \in HostStates => HeavyLimit(host) <= Heavy /\ HeavyLimit(host) \in Nat
  BY GatewayAssumption DEF HeavyLimit, HostStates

\* A claim within the limit.
LEMMA CountUp ==
  ASSUME TypeOK, Counted, NEW r \in Requests, pc[r] \notin Holding, HasCapacity,
         active' = active + 1, file' = active', Goto(r, "health"), UNCHANGED <<leaked, jobClaims>>
  PROVE  Counted'
<1>1. Holders' = Holders \cup {r} /\ r \notin Holders
  BY Enters, Labels DEF Holders
<1>2. Work' = Work + 1 /\ Work \in Nat
  BY <1>1, WorkIsFinite, OneMore DEF Work
<1>3. active < Heavy
  BY LimitIsConfigured, GatewayAssumption DEF HasCapacity, TypeOK
<1>. QED
  BY <1>2, <1>3, GatewayAssumption DEF Counted, TypeOK

\* A release, whether or not it can be published, of work that was counted.
LEMMA CountDown ==
  ASSUME TypeOK, Counted, ReleaseCapacity \/ ReleaseRaises,
         Work >= 1, Work \in Nat, Work' = Work - 1
  PROVE  Counted'
<1>1. active' = active - 1 /\ leaked' = leaked
  BY DEF Counted, TypeOK, ReleaseCapacity, ReleaseRaises, Release
<1>2. file' >= Work - 1
  BY <1>1 DEF Counted, TypeOK, ReleaseCapacity, ReleaseRaises, Publishes
<1>. QED
  BY <1>1, <1>2, GatewayAssumption DEF Counted, TypeOK

\* A request that ends and gives back its capacity.
LEMMA RequestReleases ==
  ASSUME TypeOK, Counted, NEW r \in Requests, pc[r] \in Holding, Goto(r, "done"),
         ReleaseCapacity \/ ReleaseRaises, UNCHANGED jobClaims
  PROVE  Counted'
<1>1. Holders' = Holders \ {r} /\ r \in Holders
  BY Leaves, Labels DEF Holders
<1>2. Cardinality(Holders \ {r}) = Cardinality(Holders) - 1 /\ Cardinality(Holders) >= 1
  BY <1>1, WorkIsFinite, OneLess
<1>3. Work' = Work - 1 /\ Work >= 1 /\ Work \in Nat
  BY <1>1, <1>2, WorkIsFinite DEF Work
<1>. QED
  BY <1>3, CountDown

\* release_thermal_job_capacity
LEMMA JobReleases ==
  ASSUME TypeOK, Counted, NEW r \in Requests, ReleaseJob(r), UNCHANGED pc
  PROVE  Counted' /\ jobClaims' \subseteq jobClaims
<1>0. Holders' = Holders
  BY DEF Holders
<1>1. CASE r \notin jobClaims
  <2>1. UNCHANGED <<jobClaims, claimVars>>
    BY <1>1 DEF ReleaseJob
  <2>. QED
    BY <1>0, <2>1, CountKept
<1>2. CASE r \in jobClaims
  <2>1. jobClaims' = jobClaims \ {r} /\ (ReleaseCapacity \/ ReleaseRaises)
    BY <1>2 DEF ReleaseJob
  <2>2. Work' = Work - 1 /\ Work >= 1 /\ Work \in Nat
    BY <1>0, <1>2, <2>1, WorkIsFinite, OneLess DEF Work
  <2>. QED
    BY <2>1, <2>2, CountDown
<1>. QED
  BY <1>1, <1>2

---------------------------------------------------------------------------
(* Who owns an id *)

\* A request that stays registered, or unregistered, leaves the owners alone.
LEMMA OwnersKept ==
  ASSUME TypeOK, OwnersAreInFlight, NEW r \in Requests, NEW label, Goto(r, label),
         pc[r] \in Registered <=> label \in Registered, UNCHANGED <<rid, owner, stuck>>
  PROVE  OwnersAreInFlight'
<1>1. \A q \in Requests : pc'[q] \in Registered <=> pc[q] \in Registered
  BY DEF Goto, TypeOK
<1>2. ASSUME NEW i \in Ids \ stuck, owner[i] # None
      PROVE  pc'[owner[i]] \in Registered /\ rid[owner[i]] = i
  BY <1>1, <1>2 DEF OwnersAreInFlight, TypeOK
<1>. QED
  BY <1>1, <1>2 DEF OwnersAreInFlight

\* claim_active_request, when nobody has the id
LEMMA OwnerClaims ==
  ASSUME TypeOK, OwnersAreInFlight, NEW r \in Requests, pc[r] \notin Registered,
         owner[rid[r]] = None, ClaimId(r), Goto(r, "sending"), UNCHANGED <<rid, stuck>>
  PROVE  OwnersAreInFlight'
<1>1. \A q \in Requests : pc'[q] = IF q = r THEN "sending" ELSE pc[q]
  BY DEF Goto, TypeOK
<1>2. \A i \in Ids : owner'[i] = IF i = rid[r] THEN r ELSE owner[i]
  BY DEF ClaimId, TypeOK
<1>3. ASSUME NEW i \in Ids \ stuck, owner'[i] # None
      PROVE  pc'[owner'[i]] \in Registered /\ rid[owner'[i]] = i
  BY <1>1, <1>2, <1>3, Labels DEF OwnersAreInFlight, TypeOK
<1>4. ASSUME NEW q \in Requests, pc'[q] \in Registered
      PROVE  owner'[rid[q]] = q
  BY <1>1, <1>2, <1>4, GatewayAssumption DEF OwnersAreInFlight, TypeOK
<1>. QED
  BY <1>3, <1>4 DEF OwnersAreInFlight

\* A registered request ends, and its id is released or stays behind.
LEMMA OwnerLeaves ==
  ASSUME TypeOK, OwnersAreInFlight, NEW r \in Requests, pc[r] \in Registered,
         Goto(r, "done"), UNCHANGED rid,
         \/ ReleaseId(r) /\ UNCHANGED stuck
         \/ stuck' = stuck \cup {rid[r]} /\ UNCHANGED owner
  PROVE  OwnersAreInFlight'
<1>1. \A q \in Requests : pc'[q] = IF q = r THEN "done" ELSE pc[q]
  BY DEF Goto, TypeOK
<1>2. rid[r] \in Ids /\ owner[rid[r]] = r
  BY DEF OwnersAreInFlight, TypeOK
<1>3. CASE ReleaseId(r) /\ UNCHANGED stuck
  <2>1. \A i \in Ids : owner'[i] = IF i = rid[r] THEN None ELSE owner[i]
    BY <1>2, <1>3 DEF ReleaseId, TypeOK
  <2>2. ASSUME NEW i \in Ids \ stuck, owner'[i] # None
        PROVE  pc'[owner'[i]] \in Registered /\ rid[owner'[i]] = i
    BY <1>1, <1>2, <2>1, <2>2 DEF OwnersAreInFlight, TypeOK
  <2>3. ASSUME NEW q \in Requests, pc'[q] \in Registered
        PROVE  owner'[rid[q]] = q
    BY <1>1, <1>2, <2>1, <2>3, Labels DEF OwnersAreInFlight, TypeOK
  <2>. QED
    BY <1>3, <2>2, <2>3 DEF OwnersAreInFlight
<1>4. CASE stuck' = stuck \cup {rid[r]} /\ UNCHANGED owner
  <2>1. ASSUME NEW i \in Ids \ stuck', owner[i] # None
        PROVE  pc'[owner[i]] \in Registered /\ rid[owner[i]] = i
    BY <1>1, <1>2, <1>4, <2>1 DEF OwnersAreInFlight, TypeOK
  <2>2. ASSUME NEW q \in Requests, pc'[q] \in Registered
        PROVE  owner[rid[q]] = q
    BY <1>1, <2>2, Labels DEF OwnersAreInFlight
  <2>. QED
    BY <1>4, <2>1, <2>2 DEF OwnersAreInFlight
<1>. QED
  BY <1>3, <1>4

---------------------------------------------------------------------------
(* Induction *)

LEMMA GatewayInitially == Init => GatewayInv
<1> SUFFICES ASSUME Init PROVE GatewayInv
  OBVIOUS
<1>1. TypeOK
  BY GatewayAssumption DEF Init, TypeOK, Kinds
<1>2. Holders = {} /\ jobClaims = {}
  BY Labels DEF Init, Holders
<1>3. Work = 0
  BY <1>2, FS_EmptySet DEF Work
<1>4. Counted
  BY <1>3, GatewayAssumption DEF Counted, Init
<1>5. OwnersAreInFlight
  BY Labels DEF Init, OwnersAreInFlight
<1>. QED
  BY <1>1, <1>2, <1>4, <1>5 DEF GatewayInv, JobsAreDone

\* Types do not depend on the rest of the invariant.
LEMMA ReleaseTyped ==
  ASSUME TypeOK, ReleaseCapacity \/ ReleaseRaises
  PROVE  active' \in Nat /\ file' \in Nat /\ leaked' \in Nat
  BY DEF TypeOK, ReleaseCapacity, ReleaseRaises, Release, Publishes

LEMMA StepTyped ==
  ASSUME TypeOK, NEW r \in Requests, Step(r)
  PROVE  TypeOK'
<1>l. Registered \subseteq Holding /\ "health" \in Holding /\ "talking" \in Holding
      /\ "sending" \in Holding /\ "cancelling" \in Holding /\ "reading" \in Holding
      /\ "streaming" \in Holding /\ "aborting" \in Holding /\ "closing" \in Holding
      /\ "leaving" \in Holding
  BY Labels
<1>1. CASE Claim(r)
  BY <1>1, <1>l DEF Claim, TypeOK, Goto, Publishes, claimVars, envVars, jobVars
<1>2. CASE ClaimRaises(r)
  BY <1>2 DEF ClaimRaises, TypeOK, Goto, envVars, jobVars
<1>3. CASE QueueTimesOut(r)
  BY <1>3 DEF QueueTimesOut, TypeOK, Goto, claimVars, envVars, jobVars
<1>4. CASE NotForwarded(r)
  BY <1>4, ReleaseTyped DEF NotForwarded, EndsReleasing, TypeOK, Goto, envVars, jobVars
<1>5. CASE Forwarded(r)
  BY <1>5, <1>l DEF Forwarded, ClaimId, TypeOK, Goto, claimVars, envVars, jobVars
<1>6. CASE Responded(r)
  BY <1>6, <1>l DEF Responded, TypeOK, Goto, claimVars, envVars
<1>7. CASE Interrupted(r)
  BY <1>7, <1>l DEF Interrupted, TypeOK, Goto, claimVars, envVars, jobVars
<1>8. CASE Failed(r)
  BY <1>8, ReleaseTyped DEF Failed, ReleaseId, TypeOK, Goto, envVars, jobVars
<1>9. CASE Finished(r)
  BY <1>9, ReleaseTyped DEF Finished, EndsReleasing, ReleaseId, TypeOK, Goto, envVars, jobVars
<1>10. CASE Retained(r)
  BY <1>10 DEF Retained, ReleaseId, TypeOK, Goto, claimVars, envVars
<1>11. CASE StreamAborts(r)
  BY <1>11, <1>l DEF StreamAborts, TypeOK, Goto, claimVars, envVars, jobVars
<1>12. CASE StreamEnds(r)
  BY <1>12, ReleaseTyped DEF StreamEnds, EndsReleasing, ReleaseId, TypeOK, Goto, envVars, jobVars
<1>13. CASE SpeechEnds(r)
  BY <1>13, ReleaseTyped DEF SpeechEnds, EndsReleasing, TypeOK, Goto, envVars, jobVars
<1>14. CASE StreamCompletes(r)
  BY <1>14, <1>l DEF StreamCompletes, TypeOK, Goto, claimVars, envVars, jobVars
<1>15. CASE Abandoned(r)
  BY <1>15 DEF Abandoned, TypeOK, Goto, envVars, jobVars
<1>16. CASE SpeechLeft(r)
  BY <1>16, <1>l DEF SpeechLeft, TypeOK, Goto, claimVars, envVars, jobVars
<1>. QED
  BY <1>1, <1>2, <1>3, <1>4, <1>5, <1>6, <1>7, <1>8, <1>9, <1>10, <1>11, <1>12, <1>13,
     <1>14, <1>15, <1>16 DEF Step

\* A done request takes no step, and only Retained gives a job a claim.
LEMMA StepJobs ==
  ASSUME TypeOK, JobsAreDone, NEW r \in Requests, Step(r)
  PROVE  JobsAreDone'
<1>1. pc[r] # "done"
  BY Labels DEF Step, Claim, ClaimRaises, QueueTimesOut, NotForwarded, Forwarded, Responded,
     Interrupted, Failed, Finished, Retained, StreamAborts, StreamCompletes,
     StreamEnds, Abandoned, SpeechLeft, SpeechEnds
<1>2. \A q \in Requests : q # r => pc'[q] = pc[q]
  BY DEF TypeOK, Goto, Step, Claim, ClaimRaises, QueueTimesOut, NotForwarded, Forwarded, Responded,
     Interrupted, Failed, Finished, Retained, StreamAborts, StreamCompletes,
     StreamEnds, Abandoned, SpeechLeft, SpeechEnds, EndsReleasing
<1>3. jobClaims' = jobClaims \/ (jobClaims' = jobClaims \cup {r} /\ pc'[r] = "done")
  BY DEF TypeOK, Goto, Step, Claim, ClaimRaises, QueueTimesOut, NotForwarded, Forwarded, Responded,
     Interrupted, Failed, Finished, Retained, StreamAborts, StreamCompletes,
     StreamEnds, Abandoned, SpeechLeft, SpeechEnds, EndsReleasing,
     jobVars
<1>. QED
  BY <1>1, <1>2, <1>3 DEF JobsAreDone, TypeOK

LEMMA StepCounted ==
  ASSUME TypeOK, JobsAreDone, Counted, NEW r \in Requests, Step(r)
  PROVE  Counted'
<1>1. CASE Claim(r)
  <2>0. pc[r] \notin Holding /\ "done" \notin Holding /\ "queued" \notin Holding
    BY <1>1, Labels DEF Claim
  <2>1. CASE active' = active + 1 /\ Publishes(active') /\ HasCapacity /\ Goto(r, "health")
             /\ UNCHANGED leaked
    BY <1>1, <2>0, <2>1, CountUp DEF Claim, Publishes, jobVars
  <2>2. CASE (Goto(r, "done") \/ Goto(r, "queued")) /\ UNCHANGED claimVars
    BY <1>1, <2>0, <2>2, Stays, CountKept DEF Claim, jobVars
  <2>. QED
    BY <1>1, <2>1, <2>2 DEF Claim
<1>2. CASE ClaimRaises(r)
  <2>1. Holders' = Holders
    BY <1>2, Labels, Stays DEF ClaimRaises
  <2>2. Work' = Work /\ Work \in Nat
    BY <1>2, <2>1, WorkIsFinite DEF Work, ClaimRaises, jobVars
  <2>. QED
    BY <1>2, <2>2 DEF ClaimRaises, Counted, TypeOK
<1>3. CASE QueueTimesOut(r)
  BY <1>3, Labels, Stays, CountKept DEF QueueTimesOut, jobVars
<1>4. CASE NotForwarded(r)
  BY <1>4, Labels, RequestReleases DEF NotForwarded, EndsReleasing, jobVars
<1>5. CASE Forwarded(r)
  BY <1>5, Labels, Stays, CountKept DEF Forwarded, jobVars
<1>6. CASE Responded(r)
  BY <1>6, Labels, Stays, CountKept DEF Responded
<1>7. CASE Interrupted(r)
  BY <1>7, Labels, Stays, CountKept DEF Interrupted, jobVars
<1>8. CASE Failed(r)
  BY <1>8, Labels, RequestReleases DEF Failed, jobVars
<1>9. CASE Finished(r)
  BY <1>9, Labels, RequestReleases DEF Finished, EndsReleasing, jobVars
<1>10. CASE Retained(r)
  <2>1. r \in Holders /\ r \notin jobClaims
    BY <1>10, Labels DEF Retained, Holders, JobsAreDone
  <2>2. Holders' = Holders \ {r} /\ jobClaims' = jobClaims \cup {r} /\ UNCHANGED claimVars
    BY <1>10, Labels, Leaves DEF Retained
  <2>3. Cardinality(Holders \ {r}) = Cardinality(Holders) - 1
    BY <2>1, WorkIsFinite, OneLess
  <2>4. Cardinality(jobClaims \cup {r}) = Cardinality(jobClaims) + 1
    BY <2>1, WorkIsFinite, OneMore
  <2>5. Work' = Work
    BY <2>2, <2>3, <2>4, WorkIsFinite DEF Work
  <2>. QED
    BY <2>2, <2>5 DEF Counted, claimVars
<1>11. CASE StreamAborts(r)
  BY <1>11, Labels, Stays, CountKept DEF StreamAborts, jobVars
<1>12. CASE StreamEnds(r)
  BY <1>12, Labels, RequestReleases DEF StreamEnds, EndsReleasing, jobVars
<1>13. CASE SpeechEnds(r)
  BY <1>13, Labels, RequestReleases DEF SpeechEnds, EndsReleasing, jobVars
<1>14. CASE StreamCompletes(r)
  BY <1>14, Labels, Stays, CountKept DEF StreamCompletes, jobVars
<1>15. CASE Abandoned(r)
  <2>1. r \in Holders /\ Holders' = Holders \ {r}
    BY <1>15, Labels, Leaves DEF Abandoned, Holders
  <2>2. Cardinality(Holders \ {r}) = Cardinality(Holders) - 1
    BY <2>1, WorkIsFinite, OneLess
  <2>3. Work' = Work - 1 /\ Work \in Nat
    BY <1>15, <2>1, <2>2, WorkIsFinite DEF Work, Abandoned, jobVars
  <2>. QED
    BY <1>15, <2>3, GatewayAssumption DEF Abandoned, Counted, TypeOK
<1>16. CASE SpeechLeft(r)
  BY <1>16, Labels, Stays, CountKept DEF SpeechLeft, jobVars
<1>. QED
  BY <1>1, <1>2, <1>3, <1>4, <1>5, <1>6, <1>7, <1>8, <1>9, <1>10, <1>11, <1>12, <1>13,
     <1>14, <1>15, <1>16 DEF Step

LEMMA StepOwned ==
  ASSUME TypeOK, OwnersAreInFlight, NEW r \in Requests, Step(r)
  PROVE  OwnersAreInFlight'
<1>1. CASE \/ Claim(r) \/ ClaimRaises(r) \/ QueueTimesOut(r) \/ NotForwarded(r)
           \/ SpeechLeft(r) \/ SpeechEnds(r)
  <2>1. pc[r] \notin Registered /\ UNCHANGED <<rid, owner, stuck>>
    BY <1>1, Labels DEF Claim, ClaimRaises, QueueTimesOut, NotForwarded, SpeechLeft, SpeechEnds,
       EndsReleasing
  <2>2. \E label \in {"done", "queued", "health", "leaving"} : Goto(r, label)
    BY <1>1 DEF Claim, ClaimRaises, QueueTimesOut, NotForwarded, SpeechLeft, SpeechEnds,
       EndsReleasing
  <2>. QED
    BY <2>1, <2>2, Labels, OwnersKept
<1>2. CASE Responded(r) \/ Interrupted(r) \/ StreamAborts(r) \/ StreamCompletes(r)
  <2>1. pc[r] \in Registered /\ UNCHANGED <<rid, owner, stuck>>
    BY <1>2, Labels DEF Responded, Interrupted, StreamAborts, StreamCompletes
  <2>2. \E label \in Registered : Goto(r, label)
    BY <1>2, Labels DEF Responded, Interrupted, StreamAborts, StreamCompletes
  <2>. QED
    BY <2>1, <2>2, OwnersKept
<1>3. CASE Forwarded(r)
  <2>1. CASE Goto(r, "talking") /\ UNCHANGED owner
    BY <1>3, <2>1, Labels, OwnersKept DEF Forwarded
  <2>2. CASE owner[rid[r]] = None /\ ClaimId(r) /\ Goto(r, "sending")
    BY <1>3, <2>2, Labels, OwnerClaims DEF Forwarded
  <2>. QED
    BY <1>3, <2>1, <2>2 DEF Forwarded
<1>4. CASE Failed(r) \/ Finished(r) \/ Retained(r) \/ StreamEnds(r) \/ Abandoned(r)
  BY <1>4, Labels, OwnerLeaves DEF Failed, Finished, Retained, StreamEnds, Abandoned, EndsReleasing
<1>. QED
  BY <1>1, <1>2, <1>3, <1>4 DEF Step

LEMMA GatewayStep == GatewayInv /\ [Next]_vars => GatewayInv'
<1> SUFFICES ASSUME GatewayInv, [Next]_vars PROVE GatewayInv'
  OBVIOUS
<1>1. ASSUME NEW r \in Requests, Step(r) PROVE GatewayInv'
  BY <1>1, StepTyped, StepJobs, StepCounted, StepOwned DEF GatewayInv
<1>2. ASSUME NEW r \in Requests, JobEnds(r) PROVE GatewayInv'
  <2>1. Holders' = Holders
    BY <1>2 DEF JobEnds, Holders
  <2>2. Counted'
    BY <1>2, <2>1, CountKept DEF JobEnds, GatewayInv
  <2>. QED
    BY <1>2, <2>2 DEF JobEnds, GatewayInv, TypeOK, JobsAreDone, OwnersAreInFlight, claimVars, envVars
<1>3. ASSUME NEW r \in Requests, MonitorEnds(r) \/ JobPolled(r) \/ JobCancelled(r)
      PROVE  GatewayInv'
  <2>1. /\ ReleaseJob(r)
        /\ UNCHANGED <<envVars, pc, kind, rid, owner, stuck, running>>
        /\ monitors' \subseteq monitors
    BY <1>3 DEF MonitorEnds, JobPolled, JobCancelled
  <2>2. Counted' /\ jobClaims' \subseteq jobClaims
    BY <2>1, JobReleases DEF GatewayInv
  <2>3. active' \in Nat /\ file' \in Nat /\ leaked' \in Nat
    BY <2>1, ReleaseTyped DEF ReleaseJob, GatewayInv, TypeOK, claimVars
  <2>. QED
    BY <2>1, <2>2, <2>3 DEF GatewayInv, TypeOK, JobsAreDone, OwnersAreInFlight, envVars
<1>4. CASE GatewayRestarts
  <2>1. \A r \in Requests : pc'[r] \in {"new", "done"}
    BY <1>4 DEF GatewayRestarts
  <2>2. Holders' = {} /\ jobClaims' = {}
    BY <1>4, <2>1, Labels DEF GatewayRestarts, Holders
  <2>3. Work' = 0
    BY <2>2, FS_EmptySet DEF Work
  <2>4. Counted'
    BY <1>4, <2>3, GatewayAssumption DEF Counted, GatewayRestarts
  <2>5. OwnersAreInFlight'
    BY <1>4, <2>1, Labels DEF GatewayRestarts, OwnersAreInFlight
  <2>6. TypeOK'
    BY <1>4 DEF GatewayRestarts, GatewayInv, TypeOK, envVars
  <2>. QED
    BY <2>2, <2>4, <2>5, <2>6 DEF GatewayInv, JobsAreDone
<1>5. CASE (\E s \in Hosts : HostChanges(s)) \/ LoadBegins \/ LoadEnds \/ UNCHANGED vars
  <2>1. UNCHANGED <<pc, kind, rid, claimVars, owner, stuck, jobVars>>
    BY <1>5 DEF HostChanges, LoadBegins, LoadEnds, vars
  <2>2. host' \in HostStates /\ loading' \in {"none", "normal", "warm"}
    BY <1>5, GatewayAssumption DEF HostChanges, LoadBegins, LoadEnds, vars, envVars, GatewayInv, TypeOK
  <2>3. Counted'
    <3>1. Holders' = Holders
      BY <2>1 DEF Holders
    <3>. QED
      BY <2>1, <3>1, CountKept DEF GatewayInv, jobVars
  <2>. QED
    BY <2>1, <2>2, <2>3 DEF GatewayInv, TypeOK, JobsAreDone, OwnersAreInFlight, claimVars, jobVars
<1>. QED
  BY <1>1, <1>2, <1>3, <1>4, <1>5 DEF Next

\* The invariant of the gateway's claims.
THEOREM GatewayInvariant == Spec => []GatewayInv
<1>. QED
  BY GatewayInitially, GatewayStep, PTL DEF Spec

\* The request states, counters and id tables keep their types.
THEOREM TypeCorrect == Spec => []TypeOK
<1>1. GatewayInv => TypeOK
  BY DEF GatewayInv
<1>. QED
  BY <1>1, GatewayInvariant, PTL

\* Every path of the proxies, monitors, polls and cancellations gives back what it
\* took, once, but for the claims that failed writes and abandoned clean-ups lose.
THEOREM ClaimsAreAccounted == Spec => []ClaimsAccounted
<1>1. GatewayInv => ClaimsAccounted
  BY DEF GatewayInv, Counted, ClaimsAccounted
<1>. QED
  BY <1>1, GatewayInvariant, PTL

\* Work only grows by a claim, which found less than the limit of the moment claimed.
LEMMA WorkGrows == GatewayInv /\ [Next]_vars => (Work' > Work => Work' <= HeavyLimit(host))
<1> SUFFICES ASSUME GatewayInv, [Next]_vars PROVE Work' > Work => Work' <= HeavyLimit(host)
  OBVIOUS
<1> USE DEF GatewayInv
<1>0. Work \in Nat
  BY WorkIsFinite DEF Work
<1>1. ASSUME NEW r \in Requests, Step(r) PROVE Work' > Work => Work' <= HeavyLimit(host)
  <2>1. CASE Claim(r)
    <3>0. pc[r] \notin Holding /\ "done" \notin Holding /\ "queued" \notin Holding
      BY <2>1, Labels DEF Claim
    <3>1. CASE HasCapacity /\ Goto(r, "health")
      <4>1. Holders' = Holders \cup {r} /\ r \notin Holders
        BY <3>0, <3>1, Enters, Labels DEF Holders
      <4>2. Work' = Work + 1
        BY <2>1, <4>1, WorkIsFinite, OneMore DEF Work, Claim, jobVars
      <4>3. active < HeavyLimit(host) /\ HeavyLimit(host) \in Nat
        BY <3>1, LimitIsConfigured DEF HasCapacity, TypeOK
      <4>. QED
        BY <1>0, <4>2, <4>3 DEF Counted, TypeOK
    <3>2. CASE Goto(r, "done") \/ Goto(r, "queued")
      <4>1. Holders' = Holders
        BY <3>0, <3>2, Stays
      <4>. QED
        BY <1>0, <2>1, <4>1 DEF Work, Claim, jobVars
    <3>. QED
      BY <2>1, <3>1, <3>2 DEF Claim
  <2>2. CASE \/ ClaimRaises(r) \/ QueueTimesOut(r) \/ Forwarded(r) \/ Responded(r)
             \/ Interrupted(r) \/ StreamAborts(r) \/ StreamCompletes(r) \/ SpeechLeft(r)
    <3>1. \E label : Goto(r, label) /\ (pc[r] \in Holding <=> label \in Holding)
      BY <2>2, Labels DEF ClaimRaises, QueueTimesOut, Forwarded, Responded, Interrupted,
         StreamAborts, StreamCompletes, SpeechLeft
    <3>2. Holders' = Holders
      BY <3>1, Stays
    <3>3. UNCHANGED jobClaims
      BY <2>2 DEF ClaimRaises, QueueTimesOut, Forwarded, Responded, Interrupted,
         StreamAborts, StreamCompletes, SpeechLeft, jobVars
    <3>. QED
      BY <1>0, <3>2, <3>3 DEF Work
  <2>3. CASE \/ NotForwarded(r) \/ Failed(r) \/ Finished(r) \/ StreamEnds(r)
             \/ Abandoned(r) \/ SpeechEnds(r)
    <3>1. Goto(r, "done") /\ r \in Holders /\ UNCHANGED jobClaims
      BY <2>3, Labels DEF NotForwarded, Failed, Finished, StreamEnds, Abandoned, SpeechEnds,
         EndsReleasing, Holders, jobVars
    <3>2. Holders' = Holders \ {r}
      BY <3>1, Labels, Leaves
    <3>3. Cardinality(Holders \ {r}) = Cardinality(Holders) - 1
      BY <3>1, WorkIsFinite, OneLess
    <3>. QED
      BY <3>1, <3>2, <3>3, WorkIsFinite DEF Work
  <2>4. CASE Retained(r)
    <3>1. r \in Holders /\ r \notin jobClaims
      BY <2>4, Labels DEF Retained, Holders, JobsAreDone
    <3>2. Holders' = Holders \ {r} /\ jobClaims' = jobClaims \cup {r}
      BY <2>4, Labels, Leaves DEF Retained
    <3>3. Cardinality(Holders \ {r}) = Cardinality(Holders) - 1
      BY <3>1, WorkIsFinite, OneLess
    <3>4. Cardinality(jobClaims \cup {r}) = Cardinality(jobClaims) + 1
      BY <3>1, WorkIsFinite, OneMore
    <3>. QED
      BY <3>2, <3>3, <3>4, WorkIsFinite DEF Work
  <2>. QED
    BY <1>1, <2>1, <2>2, <2>3, <2>4 DEF Step
<1>2. ASSUME NEW r \in Requests, MonitorEnds(r) \/ JobPolled(r) \/ JobCancelled(r)
      PROVE  Work' > Work => Work' <= HeavyLimit(host)
  <2>1. Holders' = Holders
    BY <1>2 DEF MonitorEnds, JobPolled, JobCancelled, Holders
  <2>2. jobClaims' = jobClaims \/ (r \in jobClaims /\ jobClaims' = jobClaims \ {r})
    BY <1>2 DEF MonitorEnds, JobPolled, JobCancelled, ReleaseJob
  <2>3. r \in jobClaims => Cardinality(jobClaims \ {r}) = Cardinality(jobClaims) - 1
    BY WorkIsFinite, OneLess
  <2>4. CASE jobClaims' = jobClaims
    BY <1>0, <2>1, <2>4 DEF Work
  <2>5. CASE r \in jobClaims /\ jobClaims' = jobClaims \ {r}
    <3>1. Work' = Work - 1
      BY <2>1, <2>3, <2>5, WorkIsFinite DEF Work
    <3>. QED
      BY <1>0, <3>1
  <2>. QED
    BY <2>2, <2>4, <2>5
<1>3. CASE GatewayRestarts
  <2>1. Holders' = {} /\ jobClaims' = {}
    BY <1>3, Labels DEF GatewayRestarts, Holders
  <2>. QED
    BY <1>0, <2>1, FS_EmptySet DEF Work
<1>4. CASE \/ \E r \in Requests : JobEnds(r)
           \/ \E s \in Hosts : HostChanges(s)
           \/ LoadBegins \/ LoadEnds \/ UNCHANGED vars
  <2>1. UNCHANGED <<pc, jobClaims>>
    BY <1>4 DEF JobEnds, HostChanges, LoadBegins, LoadEnds, vars, jobVars
  <2>. QED
    BY <1>0, <2>1 DEF Work, Holders
<1>. QED
  BY <1>1, <1>2, <1>3, <1>4 DEF Next

\* However the limit shrinks and grows, the work stays within the configured one and
\* grows only within that of the moment.
THEOREM LimitIsShared == Spec => SharedLimit
<1>1. GatewayInv => Work <= Heavy
  BY DEF GatewayInv, Counted
<1>. QED
  BY <1>1, WorkGrows, GatewayInvariant, PTL DEF Spec, SharedLimit

\* The supervisor is never told of less work than there is, whatever writes fail.
THEOREM FileIsCovering == Spec => []FileCoversWork
<1>1. GatewayInv => FileCoversWork
  BY DEF GatewayInv, Counted, FileCoversWork
<1>. QED
  BY <1>1, GatewayInvariant, PTL

\* A cancellation by id reaches the request that holds the id, and an id without such
\* a request is one that a failed write or an abandoned clean-up left behind.
THEOREM OwnersStayInFlight == Spec => []OwnersAreInFlight
<1>1. GatewayInv => OwnersAreInFlight
  BY DEF GatewayInv
<1>. QED
  BY <1>1, GatewayInvariant, PTL
=============================================================================
