----------------------------- MODULE WorkerLogs -----------------------------
(***************************************************************************)
(* The log of one Worker: the supervisor keeps its last records in memory, *)
(* and a file with the same records; clients follow the log by counting    *)
(* what they were sent.  A start begins a session, and once there is one   *)
(* only its records are shown.                                             *)
(***************************************************************************)
EXTENDS Naturals, Sequences

CONSTANTS
    Clients,
    MaxKept,      \* _MAX_LOG_RECORDS
    MaxRecords,   \* bounds the records ever written
    MaxSessions   \* bounds the starts

VARIABLES
    session,    \* log_session_id; 0 is None
    sessions,   \* sessions so far
    logs,       \* the records in memory, with their sessions
    logFile,    \* the lines of the file, of which one may be cut short
    written,    \* records so far
    tail        \* the streams: the count and the session they remember, and what they sent

logVars == <<session, sessions, logs, logFile, written, tail>>

Lines == [id : Nat \ {0}, session : Nat \ {0}]
Cut == [id |-> 0, session |-> 0]   \* a line that cannot be decoded
Follower == [sent |-> 0, session |-> 0, got |-> <<>>]

LastKept(s) == IF Len(s) > MaxKept THEN SubSeq(s, Len(s) - MaxKept + 1, Len(s)) ELSE s

\* What is left of the prefixes of s, and of s, when only what is wanted stays.
Kept(s, wanted) ==
    LET f[i \in 0..Len(s)] ==
            IF i = 0 THEN <<>> ELSE IF s[i] \in wanted THEN Append(f[i - 1], s[i]) ELSE f[i - 1]
    IN f
Those(s, wanted) == Kept(s, wanted)[Len(s)]

LogTypesOK ==
    /\ session \in 0..sessions /\ sessions \in 0..MaxSessions /\ written \in 0..MaxRecords
    /\ Len(logs) <= MaxKept /\ \A i \in DOMAIN logs : logs[i].session \in 1..sessions
    /\ \A c \in Clients : tail[c].sent \in 0..MaxKept

LogsInit ==
    /\ session = 0 /\ sessions = 0 /\ written = 0
    /\ logs = <<>> /\ logFile = <<>>
    /\ tail = [c \in Clients |-> Follower]

\* A start that stopped the other exclusive Workers; it may still fail.
BeginsSession ==
    /\ sessions < MaxSessions
    /\ sessions' = sessions + 1 /\ session' = sessions'
    /\ UNCHANGED <<logs, logFile, written, tail>>

Line == [id |-> written + 1, session |-> session]

\* A bug: the file is only appended to.
Persists_Append(records) == logFile' = Append(logFile, Line)

\* The file is written anew, and replaced, when the memory was full.
Persists(records) ==
    logFile' = IF Len(logs) = MaxKept THEN records ELSE Append(logFile, Line)

\* _capture and _append_log
Appends ==
    /\ session # 0 /\ written < MaxRecords
    /\ written' = written + 1
    /\ logs' = LastKept(Append(logs, Line))
    /\ Persists(logs')
    /\ UNCHANGED <<session, sessions, tail>>

\* _load_persisted_logs: lines that cannot be decoded are skipped and the file is compacted.
\* The streams end with the service.
LoadsLogs(lines) ==
    /\ logs' = LastKept(Those(lines, Lines))
    /\ logFile' = logs'
    /\ session' = 0
    /\ tail' = [c \in Clients |-> Follower]
    /\ UNCHANGED <<sessions, written>>

\* The service ends, also in the middle of a line that is appended, and starts again.
ServiceRestarts ==
    \/ LoadsLogs(logFile)
    \/ session # 0 /\ Len(logs) < MaxKept /\ LoadsLogs(Append(logFile, Cut))

\* logs()
OfSession == {l \in Lines : l.session = session}
Shown == IF session = 0 THEN logs ELSE Those(logs, OfSession)

\* A bug: the count is kept when another session begins.
Rewound_Never(t, current, shown) == IF t.sent > Len(shown) THEN 0 ELSE t.sent

\* Where a stream goes on: at the beginning of a session it has not seen.
Rewound(t, current, shown) ==
    IF current # t.session \/ t.sent > Len(shown) THEN 0 ELSE t.sent

\* worker_log_stream, every quarter of a second
Follows(c) ==
    LET current == IF Shown = <<>> THEN 0 ELSE Shown[1].session
        from == Rewound(tail[c], current, Shown) IN
    /\ tail' = [tail EXCEPT ![c] =
            [sent |-> Len(Shown), session |-> current,
             got |-> @.got \o SubSeq(Shown, from + 1, Len(Shown))]]
    /\ UNCHANGED <<session, sessions, logs, logFile, written>>

LogsNext == BeginsSession \/ Appends \/ ServiceRestarts \/ \E c \in Clients : Follows(c)

LogsSpec == LogsInit /\ [][LogsNext]_logVars

---------------------------------------------------------------------------
(* Properties *)

\* The file holds what the memory holds, through wraps, restarts and a line cut short.
FileIsMemory == logFile = logs

\* A client is sent no record twice and none out of order, whatever sessions begin.
TailsAreInOrder ==
    \A c \in Clients : \A i, j \in DOMAIN tail[c].got :
        i < j => tail[c].got[i].id < tail[c].got[j].id

\* Once a session has filled the memory its count stands still and its streams send nothing
\* more: the code lets it happen.
Filled == Len(Shown) = MaxKept

\* A stream whose count agrees with the session's records has sent the last one.
TailsAreComplete ==
    \A c \in Clients :
        LET t == tail[c] IN
        Shown # <<>> /\ ~Filled /\ t.session = Shown[1].session /\ t.sent = Len(Shown) =>
            t.got # <<>> /\ t.got[Len(t.got)] = Shown[Len(Shown)]
=============================================================================
