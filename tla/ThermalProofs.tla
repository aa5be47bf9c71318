--------------------------- MODULE ThermalProofs ---------------------------
(***************************************************************************)
(* Theorems about ThermalMachine for every configuration that              *)
(* ThermalPolicyConfig accepts: any temperatures, thresholds, counts and   *)
(* intervals.                                                              *)
(***************************************************************************)
EXTENDS ThermalMachine, SequenceTheorems, TLAPS

\* A snapshot of another state is at least as old as the machine's state.
FileIsOlder ==
    file \notin {"none", state} => fileAge >= AtMost(stateAge, StaleCap)

IInv == TypeOK /\ NeverUnderstated /\ LoadsOnFreshReadings /\ FileIsOlder

---------------------------------------------------------------------------
\* The caps are natural numbers, and the state's clock outlasts the snapshot's.
LEMMA Caps ==
    StateCap \in Nat /\ StaleCap \in Nat \ {0} /\ PollCap \in Nat /\ StateCap >= StaleCap
  BY ConfigAssumption DEF StateCap, StaleCap, PollCap

\* No reading and an incredible one are not temperatures.
LEMMA NoReading ==
    None \in Readings \ Temps /\ Invalid \in Readings \ Temps
  BY ConfigAssumption DEF Readings

\* Appending to a bounded history.
LEMMA RecentTyped ==
  ASSUME NEW h \in Seq(Temps), Len(h) <= RecoveryCount, NEW c \in Temps
  PROVE  LET h2 == IF Len(h) = RecoveryCount THEN Append(Tail(h), c) ELSE Append(h, c)
         IN  h2 \in Seq(Temps) /\ Len(h2) <= RecoveryCount
<1>0. RecoveryCount \in Nat \ {0} /\ Len(h) \in Nat
  BY ConfigAssumption
<1>1. CASE Len(h) = RecoveryCount
  <2>1. h # <<>>
    BY <1>0, <1>1
  <2>2. Tail(h) \in Seq(Temps) /\ Len(Tail(h)) = Len(h) - 1
    BY <2>1, HeadTailProperties
  <2>3. QED
    BY <1>0, <1>1, <2>2, AppendProperties
<1>2. CASE Len(h) # RecoveryCount
  BY <1>0, <1>2, AppendProperties
<1>3. QED
  BY <1>1, <1>2

\* What _entry_state returns, by threshold.
LEMMA EntryStateTyped ==
  ASSUME NEW c \in Temps
  PROVE  /\ EntryState(c) \in Known
         /\ EntryState(c) = "critical" <=> c >= Critical
         /\ c < VeryHot => EntryState(c) \in {"normal", "warm", "hot"}
         /\ c < Hot => EntryState(c) \in {"normal", "warm"}
         /\ c < Warm => EntryState(c) = "normal"
         /\ EntryState(c) \in {"normal", "warm"} => c < Hot
  BY ConfigAssumption DEF EntryState, Known, ThermalState

\* A reading that counts towards recovery is covered by the next milder state.
LEMMA MilderCovers ==
  ASSUME NEW s \in Known \ {"normal"}, NEW c \in Temps, c < RecoveryBelow(s)
  PROVE  Milder(s) \in Known /\ Severity[Milder(s)] >= Severity[EntryState(c)]
<1>1. s \in {"warm", "hot", "very_hot", "critical"}
  BY DEF Known, ThermalState
<1>2. CASE s \in {"critical", "very_hot"}
  <2>1. c < VeryHot
    BY <1>2, ConfigAssumption DEF RecoveryBelow
  <2>2. QED
    BY <1>2, <2>1, EntryStateTyped DEF Milder, Severity, Known, ThermalState
<1>3. CASE s = "hot"
  <2>1. c < Hot
    BY <1>3, ConfigAssumption DEF RecoveryBelow
  <2>2. QED
    BY <1>3, <2>1, EntryStateTyped DEF Milder, Severity, Known, ThermalState
<1>4. CASE s = "warm"
  <2>1. c < Warm
    BY <1>4, ConfigAssumption DEF RecoveryBelow
  <2>2. QED
    BY <1>4, <2>1, EntryStateTyped DEF Milder, Severity, Known, ThermalState
<1>5. QED
  BY <1>1, <1>2, <1>3, <1>4

---------------------------------------------------------------------------
\* What an update does to the machine: the types stay, the state covers the
\* reading, and the state's clock is untouched or starts again.
Updated ==
    /\ state' \in ThermalState
    /\ stateAge' \in 0..StateCap
    /\ recoveryAge' \in 0..StateCap
    /\ readings' \in 0..RecoveryCount
    /\ reading' \in Readings
    /\ readingAge' \in 0..StaleCap
    /\ observedNow' \in BOOLEAN
    /\ recent' \in Seq(Temps) /\ Len(recent') <= RecoveryCount
    /\ NeverUnderstated'
    /\ (state' = state /\ stateAge' = stateAge) \/ stateAge' = 0

LEMMA LoseUpdates ==
  ASSUME TypeOK, NEW r \in {None, Invalid}, Lose(r)
  PROVE  Updated /\ state' = "telemetry_degraded" /\ reading' = r
<1>1. state' = "telemetry_degraded" /\ ((state' = state /\ stateAge' = stateAge) \/ stateAge' = 0)
  BY DEF Lose, Transition
<1>2. stateAge' \in 0..StateCap /\ recoveryAge' \in 0..StateCap
  BY Caps DEF Lose, Transition, TypeOK
<1>3. recent' \in Seq(Temps) /\ Len(recent') <= RecoveryCount
  BY ConfigAssumption DEF Lose
<1>4. QED
  BY <1>1, <1>2, <1>3, ConfigAssumption, Caps
  DEF Lose, Updated, TypeOK, NeverUnderstated, Known, ThermalState, Readings

LEMMA AcceptUpdates ==
  ASSUME TypeOK, NeverUnderstated, NEW c \in Temps, Accept(c)
  PROVE  Updated
<1>1. CASE observedNow
  BY <1>1 DEF Accept, machineVars, Updated, TypeOK, NeverUnderstated
<1>2. CASE ~observedNow
  <2> DEFINE target == EntryState(c)
             n == AtMost(readings + 1, RecoveryCount)
  <2>1. target \in Known
    BY EntryStateTyped
  <2>2. observedNow' = TRUE /\ reading' = c /\ readingAge' = 0
    BY <1>2 DEF Accept
  <2>3. recent' \in Seq(Temps) /\ Len(recent') <= RecoveryCount
    BY <1>2, RecentTyped DEF Accept, TypeOK
  <2>4. n \in 0..RecoveryCount /\ 0 \in 0..RecoveryCount
    BY ConfigAssumption DEF TypeOK, AtMost
  <2>5. ASSUME NEW s \in Known, Transition(s), readings' = 0, Severity[s] >= Severity[target]
        PROVE  Updated
    BY <2>2, <2>3, <2>4, <2>5, Caps
    DEF Transition, Updated, TypeOK, NeverUnderstated, Known, Readings
  <2>6. ASSUME readings' \in 0..RecoveryCount, UNCHANGED <<state, stateAge, recoveryAge>>,
               state = "telemetry_degraded" \/ Severity[state] >= Severity[target]
        PROVE  Updated
    BY <2>2, <2>3, <2>6, Caps DEF Updated, TypeOK, NeverUnderstated, Known, Readings
  <2>7. \A s \in Known : Severity[s] \in Int
    BY DEF Severity, Known, ThermalState
  <2>8. CASE Escalates(target)
    BY <1>2, <2>1, <2>5, <2>7, <2>8 DEF Accept
  <2>9. CASE ~Escalates(target) /\ state = "telemetry_degraded"
    <3>1. RecoverFromDegraded(target)
      BY <1>2, <2>9 DEF Accept
    <3>2. QED
      BY <2>1, <2>4, <2>5, <2>6, <2>7, <2>9, <3>1 DEF RecoverFromDegraded
  <2>10. CASE ~Escalates(target) /\ state # "telemetry_degraded"
    <3>1. RecoverOneStep(c)
      BY <1>2, <2>10 DEF Accept
    <3>2. state \in Known /\ Severity[state] >= Severity[target]
      BY <2>1, <2>7, <2>10 DEF Escalates, TypeOK, Known
    <3>3. CASE state = "normal" \/ c >= RecoveryBelow(state)
      BY <2>4, <2>6, <3>1, <3>2, <3>3 DEF RecoverOneStep
    <3>4. CASE ~(state = "normal" \/ c >= RecoveryBelow(state))
      <4>1. RecoveryBelow(state) \in Int /\ c \in Int
        BY <3>2, <3>4, ConfigAssumption DEF RecoveryBelow, Known, ThermalState
      <4>2. Milder(state) \in Known /\ Severity[Milder(state)] >= Severity[target]
        BY <3>2, <3>4, <4>1, MilderCovers
      <4>3. QED
        BY <2>4, <2>5, <2>6, <3>1, <3>2, <3>4, <4>2 DEF RecoverOneStep
    <3>5. QED
      BY <3>3, <3>4
  <2>11. QED
    BY <2>8, <2>9, <2>10
<1>3. QED
  BY <1>1, <1>2

---------------------------------------------------------------------------
\* The inductive invariant, and with it the properties below.
THEOREM Invariance == Spec => []IInv
<1>1. Init => IInv
  <2> SUFFICES ASSUME Init PROVE IInv
    OBVIOUS
  <2>1. recent \in Seq(Temps) /\ Len(recent) <= RecoveryCount
    BY ConfigAssumption DEF Init
  <2>2. readings \in 0..RecoveryCount /\ stateAge \in 0..StateCap /\ recoveryAge \in 0..StateCap
    BY ConfigAssumption, Caps DEF Init
  <2>3. readingAge \in 0..StaleCap /\ fileAge \in 0..StaleCap /\ sincePoll \in 0..PollCap
    BY Caps DEF Init
  <2>4. TypeOK
    BY <2>1, <2>2, <2>3, NoReading DEF Init, TypeOK, ThermalState
  <2>5. NeverUnderstated /\ LoadsOnFreshReadings /\ FileIsOlder
    BY DEF Init, NeverUnderstated, LoadsOnFreshReadings, FileIsOlder, Known
  <2>6. QED
    BY <2>4, <2>5 DEF IInv
<1>2. IInv /\ [Next]_vars => IInv'
  <2> SUFFICES ASSUME IInv, [Next]_vars PROVE IInv'
    OBVIOUS
  <2> USE Caps
  <2> USE DEF IInv
  <2>1. ASSUME Updated, UNCHANGED fileVars, poll' \in {"idle", "isolating", "publishing", "dead"},
               sincePoll' \in 0..PollCap, admitted' \in BOOLEAN, LoadsOnFreshReadings'
        PROVE  IInv'
    BY <2>1 DEF Updated, TypeOK, FileIsOlder, AtMost, fileVars
  <2>2. ASSUME admitted' = FALSE PROVE LoadsOnFreshReadings' /\ admitted' \in BOOLEAN
    BY <2>2 DEF LoadsOnFreshReadings
  <2>3. ASSUME NEW r \in Readings, Poll(r), admitted' = FALSE PROVE IInv'
    <3>1. Updated
      BY <2>3, AcceptUpdates, LoseUpdates DEF Poll, Readings
    <3>2. sincePoll' \in 0..PollCap /\ UNCHANGED fileVars /\ poll' \in {"isolating", "publishing"}
      BY <2>3 DEF Poll
    <3>3. QED
      BY <2>1, <2>2, <2>3, <3>1, <3>2
  <2>4. ASSUME Isolated, admitted' = FALSE PROVE IInv'
    BY <2>4 DEF Isolated, machineVars, fileVars, TypeOK, NeverUnderstated, LoadsOnFreshReadings, FileIsOlder
  <2>5. ASSUME Publish, admitted' = FALSE PROVE IInv'
    <3>1. AtMost(sincePoll, StaleCap) \in 0..StaleCap
      BY DEF TypeOK, AtMost
    <3>2. Updated /\ file' = state'
      <4>1. CASE reading \in Temps
        BY <2>5, <4>1 DEF Publish, machineVars, Updated, TypeOK, NeverUnderstated
      <4>2. CASE reading \notin Temps
        BY <2>5, <4>2, LoseUpdates DEF Publish
      <4>3. QED
        BY <4>1, <4>2
    <3>3. FileIsOlder'
      BY <3>2 DEF FileIsOlder
    <3>4. QED
      BY <2>2, <2>5, <3>1, <3>2, <3>3 DEF Publish, Updated, TypeOK
  <2>6. ASSUME PublishFails, admitted' = FALSE PROVE IInv'
    <3>1. Updated
      <4>1. CASE reading \in Temps
        BY <2>6, <4>1 DEF PublishFails, machineVars, Updated, TypeOK, NeverUnderstated
      <4>2. CASE reading \notin Temps
        BY <2>6, <4>2, LoseUpdates DEF PublishFails
      <4>3. QED
        BY <4>1, <4>2
    <3>2. sincePoll' \in 0..PollCap /\ UNCHANGED fileVars /\ poll' = "dead"
      BY <2>6 DEF PublishFails, TypeOK
    <3>3. QED
      BY <2>1, <2>2, <2>6, <3>1, <3>2
  <2>7. ASSUME Restart, admitted' = FALSE PROVE IInv'
    <3>1. recent' \in Seq(Temps) /\ Len(recent') <= RecoveryCount
      BY <2>7, ConfigAssumption DEF Restart
    <3>2. stateAge' = 0 /\ 0 \in 0..StateCap /\ 0 \in 0..StaleCap /\ 0 \in 0..RecoveryCount
      BY <2>7, ConfigAssumption DEF Restart
    <3>3. Updated
      BY <2>7, <3>1, <3>2, NoReading DEF Restart, Updated, NeverUnderstated, Known, ThermalState
    <3>4. sincePoll' \in 0..PollCap /\ UNCHANGED fileVars /\ poll' = "idle"
      BY <2>7 DEF Restart
    <3>5. QED
      BY <2>1, <2>2, <2>7, <3>3, <3>4
  <2>8. ASSUME Tick, admitted' = FALSE PROVE IInv'
    <3>1. /\ AtMost(stateAge + 1, StateCap) \in 0..StateCap
          /\ AtMost(recoveryAge + 1, StateCap) \in 0..StateCap
          /\ AtMost(readingAge + 1, StaleCap) \in 0..StaleCap
          /\ AtMost(fileAge + 1, StaleCap) \in 0..StaleCap
          /\ AtMost(sincePoll + 1, PollCap) \in 0..PollCap
      BY DEF TypeOK, AtMost
    <3>2. TypeOK'
      BY <2>8, <2>2, <3>1 DEF Tick, TypeOK
    <3>3. NeverUnderstated'
      BY <2>8 DEF Tick, NeverUnderstated
    <3>4. ASSUME fileAge >= AtMost(stateAge, StaleCap) PROVE fileAge' >= AtMost(stateAge', StaleCap)
      BY <2>8, <3>4 DEF Tick, TypeOK, AtMost
    <3>5. FileIsOlder'
      BY <2>8, <3>4 DEF Tick, FileIsOlder
    <3>6. QED
      BY <2>8, <2>2, <3>2, <3>3, <3>5
  <2>9. ASSUME NEW active \in Active, AskLoad(active) PROVE IInv'
    <3>1. CASE Unusable
      <4>1. Updated /\ state' = "telemetry_degraded"
        BY <2>9, <3>1, LoseUpdates DEF AskLoad, Status, Refresh
      <4>2. admitted' = FALSE
        BY <2>9, <4>1 DEF AskLoad, LoadAdmitted
      <4>3. QED
        BY <2>1, <2>9, <4>1, <4>2 DEF AskLoad, pollVars, TypeOK, LoadsOnFreshReadings
    <3>2. CASE ~Unusable
      <4>0. Stale \in Nat /\ readingAge \in Nat
        BY ConfigAssumption DEF TypeOK
      <4>1. reading \in Temps /\ readingAge <= Stale /\ UNCHANGED machineVars
        <5>1. UNCHANGED machineVars
          BY <2>9, <3>2 DEF AskLoad, Status, Refresh
        <5>2. QED
          BY <3>2, <4>0, <5>1 DEF Unusable
      <4>2. admitted' \in BOOLEAN
        BY <2>9 DEF AskLoad, LoadAdmitted
      <4>3. LoadsOnFreshReadings'
        <5>1. SUFFICES ASSUME admitted' PROVE reading < Hot
          BY <4>1 DEF LoadsOnFreshReadings, machineVars
        <5>2. state \in {"normal", "warm"}
          BY <2>9, <4>1, <5>1 DEF AskLoad, LoadAdmitted, machineVars
        <5>3. EntryState(reading) \in {"normal", "warm"}
          BY <4>1, <5>2, EntryStateTyped
          DEF NeverUnderstated, Severity, Known, ThermalState
        <5>4. QED
          BY <4>1, <5>3, EntryStateTyped
      <4>4. QED
        BY <2>9, <4>1, <4>2, <4>3
        DEF AskLoad, machineVars, pollVars, fileVars, TypeOK, NeverUnderstated, FileIsOlder
    <3>3. QED
      BY <3>1, <3>2
  <2>10. CASE UNCHANGED vars
    BY <2>10
    DEF vars, machineVars, pollVars, fileVars, TypeOK, NeverUnderstated, LoadsOnFreshReadings, FileIsOlder
  <2>11. QED
    BY <2>3, <2>4, <2>5, <2>6, <2>7, <2>8, <2>9, <2>10 DEF Next, HostStep
<1>3. QED
  BY <1>1, <1>2, PTL DEF Spec

\* Every variable of the policy manager keeps its type.
THEOREM TypeCorrect == Spec => []TypeOK
  BY Invariance, PTL DEF IInv

\* The state covers the last reading, for every accepted configuration.
THEOREM SeverityCoversReading == Spec => []NeverUnderstated
  BY Invariance, PTL DEF IInv

\* start() is admitted only on a fresh reading below the hot threshold.
THEOREM LoadsAreFresh == Spec => []LoadsOnFreshReadings
  BY Invariance, PTL DEF IInv

\* Within telemetry_stale_seconds of a transition the gateway has the new state
\* or fails closed, whatever the poll, the file and the service do.
THEOREM GatewayFollows == Spec => []GatewayCatchesUp
<1>1. IInv => GatewayCatchesUp
  <2> SUFFICES ASSUME IInv, stateAge > Stale, file \notin {"none", state} PROVE fileAge > Stale
    BY DEF GatewayCatchesUp, GatewayView
  <2>1. Stale \in Nat /\ stateAge \in Nat /\ fileAge \in Nat
    BY ConfigAssumption, Caps DEF IInv, TypeOK
  <2>2. QED
    BY <2>1 DEF IInv, FileIsOlder, AtMost, StaleCap
<1>2. QED
  BY <1>1, Invariance, PTL

---------------------------------------------------------------------------
(* Hysteresis *)

\* The readings that count towards recovery are the last ones, and below the threshold.
Counted ==
    /\ readings <= Len(recent)
    /\ state \in Known \ {"normal"} =>
        \A i \in (Len(recent) - readings + 1) .. Len(recent) : recent[i] < RecoveryBelow(state)

LEMMA Appended ==
  ASSUME NEW h \in Seq(Temps), NEW c \in Temps
  PROVE  /\ Len(Append(h, c)) = Len(h) + 1
         /\ Append(h, c)[Len(h) + 1] = c
         /\ \A i \in 1 .. Len(h) : Append(h, c)[i] = h[i]
  BY AppendProperties

\* The bounded history forgets its oldest reading when it is full.
Extended(h, c) == IF Len(h) = RecoveryCount THEN Append(Tail(h), c) ELSE Append(h, c)

LEMMA RecentShifts ==
  ASSUME NEW h \in Seq(Temps), Len(h) <= RecoveryCount, NEW c \in Temps
  PROVE  /\ Len(Extended(h, c)) = IF Len(h) = RecoveryCount THEN Len(h) ELSE Len(h) + 1
         /\ Extended(h, c)[Len(Extended(h, c))] = c
         /\ \A i \in 1 .. Len(Extended(h, c)) - 1 :
                Extended(h, c)[i] = h[i + (Len(h) + 1 - Len(Extended(h, c)))]
<1>0. RecoveryCount \in Nat \ {0} /\ Len(h) \in Nat
  BY ConfigAssumption
<1>1. CASE Len(h) = RecoveryCount
  <2>1. h # <<>>
    BY <1>0, <1>1
  <2>2. Tail(h) \in Seq(Temps) /\ Len(Tail(h)) = Len(h) - 1
        /\ \A i \in 1 .. Len(Tail(h)) : Tail(h)[i] = h[i + 1]
    BY <2>1, HeadTailProperties
  <2>3. PICK t \in Seq(Temps) : t = Tail(h)
    BY <2>2
  <2>4. Extended(h, c) = Append(t, c)
    BY <1>1, <2>3 DEF Extended
  <2>5. Len(t) = Len(h) - 1 /\ \A i \in 1 .. Len(h) - 1 : t[i] = h[i + 1]
    BY <2>2, <2>3
  <2>6. /\ Len(Append(t, c)) = Len(h) /\ Append(t, c)[Len(h)] = c
        /\ \A i \in 1 .. Len(h) - 1 : Append(t, c)[i] = h[i + 1]
    <3>1. Len(t) + 1 = Len(h)
      BY <1>0, <2>5
    <3>. QED
      BY <2>5, <3>1, Appended
  <2>7. Len(h) + 1 - Len(Append(t, c)) = 1
    BY <1>0, <2>6
  <2>. QED
    BY <1>1, <2>4, <2>6, <2>7
<1>2. CASE Len(h) # RecoveryCount
  <2>1. Extended(h, c) = Append(h, c)
    BY <1>2 DEF Extended
  <2>2. Len(h) + 1 - Len(Append(h, c)) = 0 /\ Len(Append(h, c)) - 1 = Len(h)
    BY <1>0, Appended
  <2>3. \A i \in 1 .. Len(h) : i + 0 = i
    BY <1>0
  <2>. QED
    BY <1>2, <2>1, <2>2, <2>3, Appended
<1>. QED
  BY <1>1, <1>2

\* The readings that count, before and after one more: m of len, where at most rc are kept.
LEMMA Window ==
  ASSUME NEW rc \in Nat, NEW len \in Nat, NEW m \in Nat, len <= rc, m <= len,
         NEW len2 \in Nat, len2 = IF len = rc THEN len ELSE len + 1,
         NEW n \in Nat, n = IF m = rc THEN m ELSE m + 1,
         NEW i \in Int, i >= len2 - n + 1, i <= len2 - 1
  PROVE  i + (len + 1 - len2) >= len - m + 1 /\ i + (len + 1 - len2) <= len
  OBVIOUS

\* When a reading below the threshold is counted, the ones counted are still in a row.
LEMMA OneMoreCounts ==
  ASSUME TypeOK, NEW c \in Temps, NEW bound \in Int, c < bound, readings <= Len(recent),
         \A i \in (Len(recent) - readings + 1) .. Len(recent) : recent[i] < bound
  PROVE  LET h2 == Extended(recent, c)
             n == AtMost(readings + 1, RecoveryCount)
         IN  \A i \in (Len(h2) - n + 1) .. Len(h2) : h2[i] < bound
<1> DEFINE n == AtMost(readings + 1, RecoveryCount)
<1>0. /\ RecoveryCount \in Nat \ {0} /\ Len(recent) \in Nat /\ readings \in Nat
      /\ Len(recent) <= RecoveryCount /\ readings <= RecoveryCount /\ recent \in Seq(Temps)
  BY ConfigAssumption DEF TypeOK
<1>1. PICK h2 : h2 = Extended(recent, c)
  OBVIOUS
<1>2. /\ Len(h2) = IF Len(recent) = RecoveryCount THEN Len(recent) ELSE Len(recent) + 1
      /\ h2[Len(h2)] = c
      /\ \A i \in 1 .. Len(h2) - 1 : h2[i] = recent[i + (Len(recent) + 1 - Len(h2))]
  BY <1>0, <1>1, RecentShifts
<1>3. n = (IF readings = RecoveryCount THEN readings ELSE readings + 1) /\ n \in Nat
  BY <1>0 DEF AtMost
<1>4. Len(h2) \in Nat /\ n <= Len(h2)
  BY <1>0, <1>2, <1>3
<1>5. ASSUME NEW i \in (Len(h2) - n + 1) .. Len(h2), i # Len(h2) PROVE h2[i] < bound
  <2>1. i \in Int /\ i >= Len(h2) - n + 1 /\ i <= Len(h2) - 1 /\ i \in 1 .. Len(h2) - 1
    BY <1>3, <1>4, <1>5
  <2>2. /\ i + (Len(recent) + 1 - Len(h2)) >= Len(recent) - readings + 1
        /\ i + (Len(recent) + 1 - Len(h2)) <= Len(recent)
    BY <1>0, <1>2, <1>3, <1>4, <2>1, Window
  <2>3. i + (Len(recent) + 1 - Len(h2)) \in (Len(recent) - readings + 1) .. Len(recent)
    BY <1>0, <1>4, <2>1, <2>2
  <2>. QED
    BY <1>2, <2>1, <2>3
<1>. QED
  BY <1>1, <1>2, <1>5

LEMMA AcceptCounts ==
  ASSUME IInv, Counted, NEW c \in Temps, Accept(c)
  PROVE  Counted' /\ RecoversOnCount
<1> DEFINE target == EntryState(c)
           n == AtMost(readings + 1, RecoveryCount)
<1>1. CASE observedNow
  <2>1. UNCHANGED machineVars
    BY <1>1 DEF Accept
  <2>2. state \in Known => Severity[state] \in Int
    BY DEF Severity, Known, ThermalState
  <2>. QED
    BY <2>1, <2>2 DEF machineVars, Counted, RecoversOnCount
<1>2. CASE ~observedNow
  <2>0. /\ RecoveryCount \in Nat \ {0} /\ Len(recent) \in Nat /\ readings \in Nat
        /\ Len(recent) <= RecoveryCount /\ readings <= RecoveryCount /\ readings <= Len(recent)
    BY ConfigAssumption DEF IInv, TypeOK, Counted
  <2>1. target \in Known /\ \A s \in Known : Severity[s] \in Int
    BY EntryStateTyped DEF Severity, Known, ThermalState
  <2>2. recent' = Extended(recent, c)
    BY <1>2 DEF Accept, Extended
  <2>3. Len(recent') = AtMost(Len(recent) + 1, RecoveryCount) /\ Len(recent') \in Nat
    BY <2>0, <2>2, RecentShifts DEF IInv, TypeOK, AtMost
  <2>4. n <= Len(recent') /\ n \in Nat
    BY <2>0, <2>3 DEF AtMost
  <2>5. ASSUME readings' = 0 PROVE Counted'
    BY <2>3, <2>5 DEF Counted
  <2>6. CASE Escalates(target)
    <3>1. state' = target /\ readings' = 0
      BY <1>2, <2>6 DEF Accept, Transition
    <3>2. state \in Known => Severity[target] >= Severity[state]
      BY <2>1, <2>6 DEF Escalates, Severity, Known, ThermalState
    <3>3. state = "telemetry_degraded" => target = "critical"
      BY <2>6 DEF Escalates
    <3>. QED
      BY <2>1, <2>5, <3>1, <3>2, <3>3 DEF RecoversOnCount
  <2>7. CASE ~Escalates(target) /\ state = "telemetry_degraded"
    <3>1. RecoverFromDegraded(target) /\ state \notin Known
      BY <1>2, <2>7 DEF Accept, Known
    <3>2. CASE target \in {"hot", "very_hot"} \/ Ready(n)
      <4>1. state' = target /\ readings' = 0
        BY <2>7, <3>1, <3>2 DEF RecoverFromDegraded, Transition, Known
      <4>2. target \in {"normal", "warm"} => Len(recent') = RecoveryCount
        BY <2>0, <2>3, <3>2 DEF Ready, AtMost
      <4>. QED
        BY <2>5, <3>1, <4>1, <4>2 DEF RecoversOnCount
    <3>3. CASE ~(target \in {"hot", "very_hot"} \/ Ready(n))
      <4>1. state' = state /\ readings' = n
        BY <3>1, <3>3 DEF RecoverFromDegraded
      <4>. QED
        BY <2>4, <2>7, <3>1, <4>1 DEF RecoversOnCount, Counted
    <3>. QED
      BY <3>2, <3>3
  <2>8. CASE ~Escalates(target) /\ state # "telemetry_degraded"
    <3>1. RecoverOneStep(c) /\ state \in Known
      BY <1>2, <2>8 DEF Accept, IInv, TypeOK, Known
    <3>2. CASE state = "normal" \/ c >= RecoveryBelow(state)
      <4>1. state' = state /\ readings' = 0
        BY <3>1, <3>2 DEF RecoverOneStep
      <4>. QED
        BY <2>1, <2>5, <2>8, <3>1, <4>1 DEF RecoversOnCount
    <3>3. CASE ~(state = "normal" \/ c >= RecoveryBelow(state))
      <4>1. RecoveryBelow(state) \in Int /\ c \in Int /\ c < RecoveryBelow(state)
        BY <3>1, <3>3, ConfigAssumption DEF RecoveryBelow, Known, ThermalState
      <4>2. \A i \in (Len(recent) - readings + 1) .. Len(recent) : recent[i] < RecoveryBelow(state)
        BY <3>1, <3>3 DEF Counted
      <4>3. \A i \in (Len(recent') - n + 1) .. Len(recent') : recent'[i] < RecoveryBelow(state)
        BY <2>0, <2>2, <4>1, <4>2, OneMoreCounts DEF IInv
      <4>4. CASE Ready(n)
        <5>1. state' = Milder(state) /\ readings' = 0
          BY <3>1, <3>3, <4>4 DEF RecoverOneStep, Transition
        <5>2. n = RecoveryCount /\ Len(recent') = RecoveryCount /\ stateAge >= Dwell
          BY <2>0, <2>3, <2>4, <4>4 DEF Ready, AtMost
        <5>3. \A i \in 1 .. RecoveryCount : recent'[i] < RecoveryBelow(state)
          BY <2>0, <4>3, <5>2
        <5>. QED
          BY <2>5, <2>8, <5>1, <5>2, <5>3 DEF RecoversOnCount
      <4>5. CASE ~Ready(n)
        <5>1. state' = state /\ readings' = n
          BY <3>1, <3>3, <4>5 DEF RecoverOneStep
        <5>. QED
          BY <2>1, <2>4, <2>8, <3>1, <4>3, <5>1 DEF RecoversOnCount, Counted
      <4>. QED
        BY <4>4, <4>5
    <3>. QED
      BY <3>2, <3>3
  <2>. QED
    BY <2>6, <2>7, <2>8
<1>. QED
  BY <1>1, <1>2

\* A known state is left for a milder one only on RecoveryCount readings in a row below its
\* threshold, and full capacity comes back after a loss only on as many new ones
\* (_recover_one_step, _recover_from_degraded).
THEOREM RecoveryIsCounted == Spec => RecoversByHysteresis
<1>1. Init => Counted
  BY ConfigAssumption DEF Init, Counted, Known, ThermalState
<1>2. ASSUME IInv, Counted, [Next]_vars PROVE Counted' /\ [RecoversOnCount]_vars
  <2>1. ASSUME NEW r \in {None, Invalid}, Lose(r) PROVE Counted' /\ RecoversOnCount
    <3>1. state' = "telemetry_degraded" /\ readings' = 0 /\ recent' = <<>>
      BY <2>1 DEF Lose, Transition
    <3>. QED
      BY <3>1 DEF Counted, RecoversOnCount, Known
  <2>2. ASSUME UNCHANGED <<state, readings, recent>> PROVE Counted' /\ RecoversOnCount
    <3>1. state \in Known => Severity[state] \in Int
      BY DEF Severity, Known, ThermalState
    <3>. QED
      BY <1>2, <2>2, <3>1 DEF Counted, RecoversOnCount
  <2>3. ASSUME NEW r \in Readings, Poll(r) PROVE Counted' /\ RecoversOnCount
    BY <1>2, <2>1, <2>3, AcceptCounts DEF Poll, Readings
  <2>4. ASSUME Isolated \/ Tick \/ UNCHANGED vars PROVE Counted' /\ RecoversOnCount
    BY <2>2, <2>4 DEF Isolated, Tick, machineVars, vars
  <2>5. ASSUME Publish \/ PublishFails PROVE Counted' /\ RecoversOnCount
    BY <2>1, <2>2, <2>5 DEF Publish, PublishFails, machineVars
  <2>6. ASSUME NEW active \in Active, AskLoad(active) PROVE Counted' /\ RecoversOnCount
    BY <2>1, <2>2, <2>6 DEF AskLoad, Status, Refresh, machineVars
  <2>7. ASSUME Restart PROVE Counted' /\ RecoversOnCount
    BY <2>7 DEF Restart, Counted, RecoversOnCount, Known
  <2>. QED
    BY <1>2, <2>3, <2>4, <2>5, <2>6, <2>7 DEF Next, HostStep
<1>. QED
  BY <1>1, <1>2, Invariance, PTL DEF Spec, RecoversByHysteresis
============================================================================
