-------------------------- MODULE ThermalMachine --------------------------
(***************************************************************************)
(* The host-level thermal policy of ModelDeck (thermal.py): the hysteretic *)
(* state machine, the poll loop that feeds it in the management service,   *)
(* the snapshot file it publishes, and the two readers that admit work by  *)
(* it: the supervisor, which asks the machine, and the gateway process,    *)
(* which reads the file.                                                   *)
(*                                                                         *)
(* Time is counted in ticks and kept as ages, each capped one above the    *)
(* largest bound it is compared with.                                      *)
(***************************************************************************)
EXTENDS Integers, Sequences, FiniteSets

CONSTANTS
    Temps,                                  \* credible temperatures
    Warm, Hot, VeryHot, Critical,           \* entry thresholds
    WarmRecovery, HotRecovery, VeryHotRecovery,
    RecoveryCount,   \* recovery_reading_count
    Dwell,           \* minimum_state_dwell_seconds
    RecoveryStep,    \* recovery_step_seconds
    Stale,           \* telemetry_stale_seconds
    PollInterval,    \* poll_interval_seconds
    Late,            \* bound: how late a poll may start or end
    Heavy,           \* configured_heavy_concurrency
    Background,      \* configured_background_concurrency
    WritesFail,      \* whether writing the snapshot may raise OSError
    None,            \* no reading; an unknown number of active requests
    Invalid          \* a reading outside the credible range

\* ThermalPolicyConfig.__post_init__
ASSUME ConfigAssumption ==
    /\ Temps \subseteq Int
    /\ {Warm, Hot, VeryHot, Critical, WarmRecovery, HotRecovery, VeryHotRecovery} \subseteq Int
    /\ Warm < Hot /\ Hot < VeryHot /\ VeryHot < Critical
    /\ WarmRecovery < HotRecovery /\ HotRecovery < VeryHotRecovery
    /\ WarmRecovery < Warm /\ HotRecovery < Hot /\ VeryHotRecovery < VeryHot
    /\ RecoveryCount \in Nat \ {0}
    /\ {Dwell, RecoveryStep, Stale, PollInterval, Late} \subseteq Nat
    /\ {Heavy, Background} \subseteq Nat \ {0}
    /\ WritesFail \in BOOLEAN
    /\ None \notin Int /\ Invalid \notin Int

VARIABLES
    state,        \* ThermalStateMachine.state
    stateAge,     \* now - state_entered_monotonic
    recoveryAge,  \* now - last_recovery_monotonic
    readings,     \* recovery_readings, capped at RecoveryCount
    reading,      \* the last reading: a temperature, None or Invalid
    readingAge,   \* now - reading.observed_monotonic
    observedNow,  \* _last_observation was made at this instant
    recent,       \* the last temperatures accepted since telemetry was lost
    poll,         \* poll_once: "idle", "isolating", "publishing"; "dead" when it raised
    sincePoll,    \* now - the now of the last poll
    file,         \* the state in the published snapshot, or "none"
    fileAge,      \* now - published_monotonic
    admitted      \* start() was admitted to load a model in the last step

machineVars == <<state, stateAge, recoveryAge, readings, reading, readingAge, observedNow, recent>>
pollVars == <<poll, sincePoll>>
fileVars == <<file, fileAge>>
vars == <<machineVars, pollVars, fileVars, admitted>>

---------------------------------------------------------------------------
ThermalState == {"normal", "warm", "hot", "very_hot", "critical", "telemetry_degraded"}
Known == ThermalState \ {"telemetry_degraded"}

\* _SEVERITY
Severity == [s \in Known |->
    CASE s = "normal" -> 0 [] s = "warm" -> 1 [] s = "hot" -> 2 [] s = "very_hot" -> 3
      [] s = "critical" -> 4]

Readings == Temps \cup {None, Invalid}
Active == {0, 1, None}

AtMost(n, bound) == IF n > bound THEN bound ELSE n

StateCap == (IF Dwell > RecoveryStep THEN Dwell ELSE RecoveryStep) + Stale + 1
StaleCap == Stale + 1
PollCap  == PollInterval + Late

TypeOK ==
    /\ state \in ThermalState
    /\ stateAge \in 0..StateCap
    /\ recoveryAge \in 0..StateCap
    /\ readings \in 0..RecoveryCount
    /\ reading \in Readings
    /\ readingAge \in 0..StaleCap
    /\ observedNow \in BOOLEAN
    /\ recent \in Seq(Temps) /\ Len(recent) <= RecoveryCount
    /\ poll \in {"idle", "isolating", "publishing", "dead"}
    /\ sincePoll \in 0..PollCap
    /\ file \in ThermalState \cup {"none"}
    /\ fileAge \in 0..StaleCap
    /\ admitted \in BOOLEAN

\* _entry_state
EntryState(c) ==
    CASE c >= Critical -> "critical"
      [] c >= VeryHot /\ c < Critical -> "very_hot"
      [] c >= Hot /\ c < VeryHot -> "hot"
      [] c >= Warm /\ c < Hot -> "warm"
      [] OTHER -> "normal"

\* The table of _recover_one_step: a reading below the threshold counts towards
\* the next milder state.
RecoveryBelow(s) ==
    CASE s \in {"critical", "very_hot"} -> VeryHotRecovery
      [] s = "hot" -> HotRecovery
      [] s = "warm" -> WarmRecovery

Milder_Cool(s) ==
    CASE s = "critical" -> "very_hot"
      [] s = "very_hot" -> "hot"
      [] s = "hot" -> "warm"
      [] s = "warm" -> "cool"

Milder_CriticalStays(s) ==
    CASE s = "critical" -> "critical"
      [] s = "very_hot" -> "hot"
      [] s = "hot" -> "warm"
      [] s = "warm" -> "normal"

Milder(s) ==
    CASE s = "critical" -> "very_hot"
      [] s = "very_hot" -> "hot"
      [] s = "hot" -> "warm"
      [] s = "warm" -> "normal"

---------------------------------------------------------------------------
(* ThermalStateMachine *)

\* _transition: only a change of state restarts the clocks and the count.
Transition(s) ==
    IF s = state
    THEN UNCHANGED <<state, stateAge, recoveryAge>>
    ELSE state' = s /\ stateAge' = 0 /\ recoveryAge' = 0

\* update() with an unusable reading r
Lose(r) ==
    /\ reading' = r /\ readingAge' = 0
    /\ readings' = 0
    /\ recent' = <<>>
    /\ Transition("telemetry_degraded")
    /\ UNCHANGED observedNow

\* _recovery_ready, once the reading is counted
Ready(n) == n >= RecoveryCount /\ stateAge >= Dwell /\ recoveryAge >= RecoveryStep

\* _recover_from_degraded: a hot reading takes effect at once.
RecoverFromDegraded(target) ==
    LET n == AtMost(readings + 1, RecoveryCount) IN
    IF target \in {"hot", "very_hot"} \/ Ready(n)
    THEN Transition(target) /\ readings' = 0
    ELSE readings' = n /\ UNCHANGED <<state, stateAge, recoveryAge>>

RecoverOneStep_KeepsCount(c) ==
    LET n == AtMost(readings + 1, RecoveryCount) IN
    IF state = "normal" \/ c >= RecoveryBelow(state)
    THEN UNCHANGED <<readings, state, stateAge, recoveryAge>>
    ELSE IF Ready(n)
    THEN Transition(Milder(state)) /\ readings' = 0
    ELSE readings' = n /\ UNCHANGED <<state, stateAge, recoveryAge>>

\* _recover_one_step: a reading at or above the threshold starts the count again.
RecoverOneStep(c) ==
    LET n == AtMost(readings + 1, RecoveryCount) IN
    IF state = "normal" \/ c >= RecoveryBelow(state)
    THEN readings' = 0 /\ UNCHANGED <<state, stateAge, recoveryAge>>
    ELSE IF Ready(n)
    THEN Transition(Milder(state)) /\ readings' = 0
    ELSE readings' = n /\ UNCHANGED <<state, stateAge, recoveryAge>>

\* Whether a target is entered at once.  CRITICAL is, from every state.
Escalates_OneStep(target) ==
    \/ target = "critical"
    \/ state # "telemetry_degraded" /\ Severity[target] = Severity[state] + 1

Escalates(target) ==
    \/ target = "critical"
    \/ state # "telemetry_degraded" /\ Severity[target] > Severity[state]

\* update() with a credible reading made now, unless this instant's observation
\* was taken already.
Accept(c) ==
    LET target == EntryState(c) IN
    IF observedNow
    THEN UNCHANGED machineVars
    ELSE /\ observedNow' = TRUE
         /\ reading' = c /\ readingAge' = 0
         /\ recent' = IF Len(recent) = RecoveryCount THEN Append(Tail(recent), c)
                      ELSE Append(recent, c)
         /\ IF Escalates(target) THEN Transition(target) /\ readings' = 0
            ELSE IF state = "telemetry_degraded" THEN RecoverFromDegraded(target)
            ELSE RecoverOneStep(c)

\* refresh(): the reading no longer counts when it is older than the bound.
Unusable == reading \notin Temps \/ readingAge > Stale

Refresh == IF Unusable THEN Lose(None) ELSE UNCHANGED machineVars

---------------------------------------------------------------------------
(* Admission *)

\* capacity_for_state
HeavyLimit(s) ==
    CASE s \in {"normal", "warm"} -> Heavy
      [] s \in {"hot", "telemetry_degraded"} -> 1
      [] OTHER -> 0

\* _outcome for a MODEL_LOAD; active is what the workload file says of the
\* gateway's heavy requests, None when it is missing or stale.
LoadAdmitted(s, active) ==
    \/ s = "normal"
    \/ s = "warm" /\ active = 0

\* read_thermal_status in the gateway
GatewayView_AnyAge == IF file = "none" THEN "telemetry_degraded" ELSE file

GatewayView == IF file = "none" \/ fileAge > Stale THEN "telemetry_degraded" ELSE file

---------------------------------------------------------------------------
(* ThermalPolicyManager *)

Init ==
    /\ state = "telemetry_degraded"
    /\ stateAge = 0 /\ recoveryAge = 0
    /\ readings = 0
    /\ reading = None /\ readingAge = 0
    /\ observedNow = FALSE
    /\ recent = <<>>
    /\ poll = "idle" /\ sincePoll = PollCap
    /\ file = "none" /\ fileAge = 0
    /\ admitted = FALSE

\* poll_once up to its first await: the reading is selected and the machine
\* updated.  The critical handler runs only on the transition.
Poll(r) ==
    /\ poll = "idle" /\ sincePoll >= PollInterval
    /\ sincePoll' = 0
    /\ IF r \in Temps THEN Accept(r) ELSE Lose(r)
    /\ poll' = IF state' = "critical" /\ state # "critical" THEN "isolating" ELSE "publishing"
    /\ UNCHANGED fileVars

\* critical_handler returned or its exception was logged.
Isolated ==
    /\ poll = "isolating"
    /\ poll' = "publishing"
    /\ UNCHANGED <<machineVars, sincePoll, fileVars>>

\* status() at the instant the poll began, then the atomic replacement of the
\* file.  The reading cannot be stale at that instant, only missing.
Publish ==
    /\ poll = "publishing"
    /\ IF reading \in Temps THEN UNCHANGED machineVars ELSE Lose(None)
    /\ file' = IF reading \in Temps THEN state ELSE "telemetry_degraded"
    /\ fileAge' = AtMost(sincePoll, StaleCap)
    /\ poll' = "idle"
    /\ UNCHANGED sincePoll

\* An OSError leaves poll_once and ends the task that polls.
PublishFails ==
    /\ WritesFail
    /\ poll = "publishing"
    /\ IF reading \in Temps THEN UNCHANGED machineVars ELSE Lose(None)
    /\ poll' = "dead"
    /\ UNCHANGED <<sincePoll, fileVars>>

Status_NoRefresh == UNCHANGED machineVars

\* status(), as start() and the management API call it before they use the state.
Status == Refresh

\* start() asks for a model load: status(), then evaluate().  A refused one
\* changes nothing else; an admitted one goes on in the Supervisor module.
AskLoad(active) ==
    /\ Status
    /\ admitted' = LoadAdmitted(state', active)
    /\ UNCHANGED <<pollVars, fileVars>>

\* The management service crashes or is restarted: the snapshot stays.
Restart ==
    /\ state' = "telemetry_degraded"
    /\ stateAge' = 0 /\ recoveryAge' = 0
    /\ readings' = 0
    /\ reading' = None /\ readingAge' = 0
    /\ observedNow' = FALSE
    /\ recent' = <<>>
    /\ poll' = "idle" /\ sincePoll' = PollCap
    /\ UNCHANGED fileVars

\* One unit of time passes.  A poll that is due is not later than Late.
Tick ==
    /\ poll = "dead" \/ sincePoll < PollCap
    /\ stateAge' = AtMost(stateAge + 1, StateCap)
    /\ recoveryAge' = AtMost(recoveryAge + 1, StateCap)
    /\ readingAge' = AtMost(readingAge + 1, StaleCap)
    /\ fileAge' = AtMost(fileAge + 1, StaleCap)
    /\ sincePoll' = AtMost(sincePoll + 1, PollCap)
    /\ observedNow' = FALSE
    /\ UNCHANGED <<state, readings, reading, recent, poll, file>>

\* The policy manager, the clock and a restart.
HostStep ==
    /\ \/ \E r \in Readings : Poll(r)
       \/ Isolated \/ Publish \/ PublishFails
       \/ Restart \/ Tick
    /\ admitted' = FALSE

Next == HostStep \/ \E active \in Active : AskLoad(active)

Spec == Init /\ [][Next]_vars

\* The poll loop goes on, its awaits end and time passes.
Fairness ==
    /\ WF_vars(admitted' = FALSE /\ \E r \in Readings : Poll(r))
    /\ WF_vars(admitted' = FALSE /\ (Isolated \/ Publish))
    /\ WF_vars(admitted' = FALSE /\ Tick)

FairSpec == Spec /\ Fairness

---------------------------------------------------------------------------
(* Properties *)

\* The machine never makes light of what it measured: in a known state the
\* severity covers the last reading, however the readings, losses of telemetry
\* and one-step recoveries alternate.
NeverUnderstated ==
    state \in Known /\ reading \in Temps => Severity[state] >= Severity[EntryState(reading)]

\* A step of the hysteresis of _recover_one_step: a known state gives way only to the next
\* milder one, after the dwell time and after RecoveryCount readings in a row below
\* its recovery threshold, none of them from before a loss of telemetry.  After such a
\* loss, or a restart, full capacity comes back only with RecoveryCount new readings in a
\* row (_recover_from_degraded).
RecoversOnCount ==
    /\ (state \in Known /\ state' \in Known /\ Severity[state'] < Severity[state]) =>
        /\ state' = Milder(state)
        /\ stateAge >= Dwell
        /\ Len(recent') = RecoveryCount
        /\ \A i \in 1..RecoveryCount : recent'[i] < RecoveryBelow(state)
    /\ (state = "telemetry_degraded" /\ state' \in {"normal", "warm"}) =>
        Len(recent') = RecoveryCount

\* No step of the machine, of a loss of telemetry or of a restart recovers otherwise.
RecoversByHysteresis == [][RecoversOnCount]_vars

\* A model load is admitted only on a reading that is fresh at that instant and
\* below the hot threshold: status() comes first, and the state covers the reading.
LoadsOnFreshReadings ==
    admitted => reading \in Temps /\ readingAge <= Stale /\ reading < Hot

\* The gateway lives with an old state for no longer than Stale: after that it sees
\* the machine's state or degraded telemetry, also when a poll takes long, the file
\* cannot be written or the management service was restarted.
GatewayCatchesUp ==
    stateAge > Stale => GatewayView \in {state, "telemetry_degraded"}

\* When the host stays cool and the telemetry stays good, the machine returns to
\* NORMAL and the gateway sees it.
ReturnsToNormal ==
    <>[](reading \in Temps /\ reading < WarmRecovery /\ poll # "dead")
        => <>[](state = "normal" /\ GatewayView = "normal")
============================================================================
