--------------------------- MODULE SceneChatTrial ---------------------------
(***************************************************************************)
(* A physical trial of SceneChat Workers (scenechat_runner.py) and its     *)
(* variant without a Worker (scenechat_direct.py).  The main thread walks  *)
(* through a frozen schedule; the sampler and the watchdog of the safety   *)
(* monitor abort the run, and stop the Worker that the variable "current"  *)
(* names at that moment, with requests of their own to the management      *)
(* application.  A journal on disk tells afterwards which attempts were    *)
(* made and how they ended.                                                *)
(***************************************************************************)
EXTENDS Naturals, Sequences

CONSTANTS
    Schedule,   \* the Worker of each request; a change of Worker begins a block
    None

Rows == 1..Len(Schedule)
Workers == {Schedule[r] : r \in Rows}

Monitors == {"sampler", "watchdog"}

VARIABLES
    path,       \* "worker" (the gateway's path is the same) or "direct"
    main,       \* the main thread: pc, row, status of the answer
    current,    \* the Worker that stop() would stop, or None
    loaded,     \* last_block, by its Worker
    running,    \* Workers with a process
    start,      \* the start request: None, "queued", "launching"
    stops,      \* Workers that have a stop request
    aborted,    \* the monitor's event
    monitor,    \* the threads: "watching", "aborting", "stopping", "done"
    cancelled,  \* direct: the engine's event
    exiting,    \* direct: a timer will end the process
    journal,    \* what attempts.jsonl says of each request
    failed,     \* cleanup reported failures
    late,       \* ghost: attempts that started when the run was aborted
    lost,       \* ghost: attempts whose clear() took back an abort
    overtaken   \* ghost: the cleanup's stop overtook the start request of its Worker

trialVars == <<path, main, current, loaded, running, start, stops, aborted, monitor, cancelled,
               exiting, journal, failed, late, lost, overtaken>>

Written == {"not_started", "interrupted", "success", "failure", "abort"}

TrialTypesOK ==
    /\ path \in {"worker", "direct"} /\ main.row \in 1..(Len(Schedule) + 1)
    /\ current \in Workers \cup {None} /\ loaded \in Workers \cup {None}
    /\ running \subseteq Workers /\ stops \subseteq Workers
    /\ start \in {None, "queued", "launching"}
    /\ monitor \in [Monitors -> {"watching", "aborting", "stopping", "done"}]
    /\ journal \in [Rows -> Written]
    /\ late \subseteq Rows /\ lost \subseteq Rows /\ overtaken \in BOOLEAN

TrialInit ==
    /\ path \in {"worker", "direct"}
    /\ main = [pc |-> IF path = "direct" THEN "cool" ELSE "row", row |-> 1, status |-> None]
    /\ current = None /\ loaded = None /\ running = {} /\ start = None /\ stops = {}
    /\ aborted = FALSE /\ monitor = [t \in Monitors |-> "watching"]
    /\ cancelled = FALSE /\ exiting = FALSE
    /\ journal = [r \in Rows |-> "not_started"] /\ failed = FALSE
    /\ late = {} /\ lost = {} /\ overtaken = FALSE

At(pc) == main.pc = pc
Alive == main.pc \notin {"ended", "killed"}
Goes(pc) == main' = [main EXCEPT !.pc = pc]
Row == main.row

EngineVars == <<cancelled, exiting>>
Host == <<running, start, stops>>
Evidence == <<journal, late, lost>>

---------------------------------------------------------------------------
(* The management application *)

\* A stop waits for the lock that a start holds while it launches, and overtakes a start that
\* still waits for the load lock: another Worker's start may hold that for minutes.
HandlesStop(w) ==
    /\ w \in stops /\ ~(start = "launching" /\ w = current)
    /\ stops' = stops \ {w} /\ running' = running \ {w}
    /\ overtaken' = (overtaken \/ (At("close") /\ w = current /\ start = "queued"))
    /\ UNCHANGED <<path, main, current, loaded, start, aborted, monitor, EngineVars, Evidence, failed>>

Locks ==
    /\ start = "queued" /\ start' = "launching"
    /\ UNCHANGED <<path, overtaken, main, current, loaded, running, stops, aborted, monitor, EngineVars, Evidence, failed>>

Launches ==
    /\ start = "launching" /\ start' = None
    /\ running' \in {running, running \cup {current}}
    /\ UNCHANGED <<path, overtaken, main, current, loaded, stops, aborted, monitor, EngineVars, Evidence, failed>>

---------------------------------------------------------------------------
(* The safety monitor *)

\* A reading over a limit, a late one or none; _abort has seen that nothing is aborted yet.
Detects(t) ==
    /\ Alive /\ ~aborted /\ monitor[t] = "watching"
    /\ monitor' = [monitor EXCEPT ![t] = "aborting"]
    /\ UNCHANGED <<path, overtaken, main, current, loaded, Host, aborted, EngineVars, Evidence, failed>>

\* The direct variant cancels its engine and sets the timer that ends the process.
Aborts(t) ==
    /\ Alive /\ monitor[t] = "aborting"
    /\ aborted' = TRUE
    /\ monitor' = [monitor EXCEPT ![t] = IF path = "direct" THEN "done" ELSE "stopping"]
    /\ cancelled' = (cancelled \/ path = "direct") /\ exiting' = (exiting \/ path = "direct")
    /\ UNCHANGED <<path, overtaken, main, current, loaded, Host, Evidence, failed>>

\* stop(), in the monitor's thread
StopsCurrent(t) ==
    /\ Alive /\ monitor[t] = "stopping"
    /\ stops' = stops \cup ({current} \ {None})
    /\ monitor' = [monitor EXCEPT ![t] = "done"]
    /\ UNCHANGED <<path, overtaken, main, current, loaded, running, start, aborted, EngineVars, Evidence, failed>>

---------------------------------------------------------------------------
(* The main thread with Workers *)

MainStays == UNCHANGED <<path, overtaken, running, aborted, monitor, EngineVars, failed>>

\* Any request, validate_window, monitor.check or the test of an image may raise, and an
\* interrupt comes anywhere: a start request is given up although the management application
\* goes on with it.  A direct attempt is recorded first.
Raises ==
    /\ \/ main.pc \in {"row", "unload", "unloading", "cool", "starting", "attest", "record", "clear",
                       "load", "check"}
       \/ path = "worker" /\ main.pc \in {"answer", "judge"}
    /\ Goes("finally")
    /\ MainStays /\ UNCHANGED <<current, loaded, start, stops, Evidence>>

\* The window, monitor.check and the block of the next request.
NextRow ==
    /\ At("row")
    /\ Goes(IF Row > Len(Schedule) \/ aborted THEN "finally"
            ELSE IF path = "direct" THEN "clear"
            ELSE IF Schedule[Row] = loaded THEN "record" ELSE "unload")
    /\ MainStays /\ UNCHANGED <<current, loaded, start, stops, Evidence>>

Unload ==
    /\ At("unload")
    /\ stops' = stops \cup ({current} \ {None})
    /\ Goes("unloading")
    /\ MainStays /\ UNCHANGED <<current, loaded, start, Evidence>>

\* A bug: the variable is set when the new Worker is loaded.
SwapsWorker_WhenLoaded ==
    /\ At("unloading") /\ current \notin stops
    /\ Goes("cool")
    /\ MainStays /\ UNCHANGED <<current, loaded, start, stops, Evidence>>

\* The stop was answered: from here stop() means the next Worker, which has no process yet.
SwapsWorker ==
    /\ At("unloading") /\ current \notin stops
    /\ current' = Schedule[Row]
    /\ Goes("cool")
    /\ MainStays /\ UNCHANGED <<loaded, start, stops, Evidence>>

\* cooldown's last check; nothing is checked again before the start request.
CoolsDown ==
    /\ At("cool")
    /\ Goes(IF aborted THEN "finally" ELSE IF path = "direct" THEN "load" ELSE "start")
    /\ MainStays /\ UNCHANGED <<current, loaded, start, stops, Evidence>>

StartsWorker ==
    /\ At("start")
    /\ start' = "queued"
    /\ Goes("starting")
    /\ MainStays /\ UNCHANGED <<current, loaded, stops, Evidence>>

StartAnswered ==
    /\ At("starting") /\ start = None
    /\ Goes("attest")
    /\ MainStays /\ UNCHANGED <<current, loaded, start, stops, Evidence>>

\* Health, identity and the gateway of this block.
Attests ==
    /\ At("attest") /\ current \in running
    /\ loaded' = Schedule[Row]
    /\ Goes("record")
    /\ MainStays /\ UNCHANGED <<current, start, stops, Evidence>>

RecordsStart ==
    /\ At("record")
    /\ journal' = [journal EXCEPT ![Row] = "interrupted"]
    /\ late' = IF aborted THEN late \cup {Row} ELSE late
    /\ Goes("answer")
    /\ MainStays /\ UNCHANGED <<current, loaded, start, stops, lost>>

\* The Worker answers, or fails, or is not there any more.
GetsAnswer ==
    /\ At("answer") /\ path = "worker"
    /\ \E status \in {"success", "failure"} :
        /\ status = "success" => current \in running
        /\ main' = [main EXCEPT !.pc = "judge", !.status = status]
    /\ MainStays /\ UNCHANGED <<current, loaded, start, stops, Evidence>>

\* A bug: the abort is only looked at after the record.
Judges_AnswerOnly ==
    /\ At("judge")
    /\ journal' = [journal EXCEPT ![Row] = IF path = "direct" /\ cancelled THEN "abort" ELSE main.status]
    /\ Goes("check")
    /\ MainStays /\ UNCHANGED <<current, loaded, start, stops, late, lost>>

\* The status that is recorded looks at the monitor's event, or at the engine's.
Judges ==
    /\ At("judge")
    /\ journal' = [journal EXCEPT ![Row] =
                      IF IF path = "direct" THEN cancelled ELSE aborted THEN "abort" ELSE main.status]
    /\ Goes("check")
    /\ MainStays /\ UNCHANGED <<current, loaded, start, stops, late, lost>>

ChecksAgain ==
    /\ At("check")
    /\ main' = IF aborted \/ cancelled THEN [main EXCEPT !.pc = "finally"]
               ELSE [main EXCEPT !.pc = "row", !.row = @ + 1]
    /\ MainStays /\ UNCHANGED <<current, loaded, start, stops, Evidence>>

StopsAtLast ==
    /\ At("finally")
    /\ stops' = IF path = "worker" THEN stops \cup ({current} \ {None}) ELSE stops
    /\ Goes("close")
    /\ MainStays /\ UNCHANGED <<current, loaded, start, Evidence>>

\* The stop is answered, or not within two seconds; a thread that still runs is a failure too.
Closes ==
    /\ At("close")
    /\ \E failure \in BOOLEAN :
        /\ ~failure => current \notin stops /\ \A t \in Monitors : monitor[t] \in {"watching", "done"}
        /\ failed' = failure
    /\ Goes("ended")
    /\ UNCHANGED <<path, overtaken, current, loaded, Host, aborted, monitor, EngineVars, Evidence>>

\* The process is killed; a torn last line is dropped by read_attempts.
Killed ==
    /\ Alive /\ Goes("killed")
    /\ MainStays /\ UNCHANGED <<current, loaded, start, stops, Evidence>>

---------------------------------------------------------------------------
(* The main thread without a Worker *)

LoadsEngine ==
    /\ At("load")
    /\ Goes(IF aborted THEN "finally" ELSE "row")
    /\ MainStays /\ UNCHANGED <<current, loaded, start, stops, Evidence>>

\* cancellation.clear(), after the check
Clears ==
    /\ At("clear")
    /\ cancelled' = FALSE
    /\ lost' = IF cancelled THEN lost \cup {Row} ELSE lost
    /\ Goes("record")
    /\ UNCHANGED <<path, overtaken, current, loaded, Host, aborted, monitor, exiting, journal, late, failed>>

Generates ==
    /\ At("answer") /\ path = "direct"
    /\ \E status \in {"success", "failure"} : main' = [main EXCEPT !.pc = "judge", !.status = status]
    /\ MainStays /\ UNCHANGED <<current, loaded, start, stops, Evidence>>

\* The timer of an attempt, which is cancelled when its status is known.
TimesOut ==
    /\ path = "direct" /\ main.pc \in {"answer", "judge"}
    /\ cancelled' = TRUE /\ exiting' = TRUE
    /\ UNCHANGED <<path, overtaken, main, current, loaded, Host, aborted, monitor, Evidence, failed>>

\* os._exit, two seconds after an abort or a timeout
Exits ==
    /\ exiting /\ Alive
    /\ Goes("killed")
    /\ MainStays /\ UNCHANGED <<current, loaded, start, stops, Evidence>>

TrialNext ==
    \/ \E w \in Workers : HandlesStop(w)
    \/ Locks \/ Launches
    \/ \E t \in Monitors : Detects(t) \/ Aborts(t) \/ StopsCurrent(t)
    \/ Raises \/ NextRow \/ Unload \/ SwapsWorker \/ CoolsDown \/ StartsWorker \/ StartAnswered \/ Attests
    \/ RecordsStart \/ GetsAnswer \/ Judges \/ ChecksAgain \/ StopsAtLast \/ Closes \/ Killed
    \/ LoadsEngine \/ Clears \/ Generates \/ TimesOut \/ Exits

TrialSpec == TrialInit /\ [][TrialNext]_trialVars

---------------------------------------------------------------------------
(* Properties *)

\* After an abort at most one attempt still starts, and it is no success ("never treat a thermal
\* abort as success"), but for a direct attempt whose clear() took the abort back.
AbortedAttemptsFail ==
    /\ \A r, s \in late : r = s
    /\ \A r \in late : journal[r] = "success" => path = "direct" /\ r \in lost

\* A run that ends with no failure in its cleanup record leaves no Worker running, whenever the
\* monitor's threads sent their stops and wherever the run was interrupted; but a start request
\* that it gave up, and that its last stop overtook at the load lock, still starts the Worker.
RunsEndStopped == main.pc = "ended" /\ ~failed => overtaken \/ (running = {} /\ start = None)

\* Evaluation Workers are never loaded together (the drill "no_overlap").
OneWorkerAtATime == \A v, w \in running : v = w

\* Every request of a run that qualifies was made, in order, and nothing was recorded after a
\* request that was cut off.
JournalIsAPrefix ==
    \A r, s \in Rows : r < s /\ journal[s] # "not_started" => journal[r] \in {"success", "failure"}
=============================================================================
