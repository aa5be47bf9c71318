---------------------------- MODULE DesktopShell ----------------------------
(***************************************************************************)
(* The desktop window over the user services: every click runs a thread    *)
(* that asks systemd and waits for the management service, and posts its   *)
(* result to the main loop.  Clicks do not wait for each other's threads.  *)
(* Environment: systemd, which works on the last command, the services,    *)
(* which may die, and the package, which may be upgraded.                  *)
(***************************************************************************)
EXTENDS Naturals, Sequences

CONSTANTS
    Threads,     \* bounds the clicks at work at once
    MaxClicks    \* bounds the threads of one window

VARIABLES
    development, \* MODELDECK_DESKTOP_DEVELOPMENT
    page,        \* what the window shows; "none" without a window
    known,       \* installed_build_id; 0 when it could not be read
    thread,      \* per thread its work: "start", "restart", "stop", "wait", and where it is
    posted,      \* the callbacks of GLib.idle_add
    dialogs,     \* the open questions: 0 is whether to stop, or the build that is older than the installed one
    kept,        \* the builds the user kept
    seen,        \* the build the console was opened on; 0 is unknown
    clicks,
    crossed,     \* a thread was started beside another
    unanswered,  \* a health answer broke off, and its thread with it
    package,     \* external: the installed build, 1 or 2
    server,      \* external: the build that runs, 0 is none
    job          \* external: what systemd was asked last, and whether it is done

desktopVars == <<development, page, known, thread, posted, dialogs, kept, seen, clicks, crossed,
                 unanswered, package, server, job>>

Builds == {1, 2}
Free == [op |-> "none", at |-> "free"]
Busy == {t \in Threads : thread[t] # Free}
AtRest == page # "none" /\ Busy = {} /\ posted = <<>> /\ dialogs = <<>>

DesktopTypesOK ==
    /\ page \in {"none", "starting", "stopping", "stopped", "recovery", "console"}
    /\ known \in Builds \cup {0} /\ server \in Builds \cup {0}
    /\ \A t \in Threads : thread[t].at \in {"free", "command", "asked", "waiting"}
    /\ \A t \in Threads : thread[t].op \in {"none", "wait", "start", "restart", "stop"}
    /\ kept \subseteq Builds

DesktopInit ==
    /\ development \in BOOLEAN /\ server \in {0, 1}
    /\ page = "none" /\ known = 0 /\ thread = [t \in Threads |-> Free]
    /\ posted = <<>> /\ dialogs = <<>> /\ kept = {} /\ seen = 0 /\ clicks = 0
    /\ crossed = FALSE /\ unanswered = FALSE
    /\ package = 1 /\ job = [op |-> "none", done |-> TRUE]

\* A page and its thread, begun on the main loop.
Begins(op, shown) ==
    /\ clicks < MaxClicks
    /\ clicks' = clicks + 1
    /\ \E t \in Threads \ Busy :
        thread' = [thread EXCEPT ![t] = [op |-> op, at |-> IF op = "wait" THEN "waiting" ELSE "command"]]
    /\ crossed' = (crossed \/ Busy # {} \/ posted # <<>>)
    /\ page' = shown
    /\ UNCHANGED <<development, posted, kept, seen, unanswered, package, server, job>>

\* _start_in_background: a development window asks systemd only to restart, when it is told that
\* the services are of another build.
StartsInBackground(restart) ==
    Begins(IF restart THEN "restart" ELSE IF development THEN "wait" ELSE "start", "starting")

\* do_activate: the installed build is read once per window.
Activates ==
    /\ page = "none"
    /\ \/ known' = package /\ UNCHANGED dialogs /\ StartsInBackground(FALSE)
       \/ /\ known' = 0 /\ page' = "recovery"
          /\ UNCHANGED <<development, thread, posted, dialogs, kept, seen, clicks, crossed,
                         unanswered, package, server, job>>

\* The buttons; an open question covers them.
Retries ==
    /\ page = "recovery" /\ dialogs = <<>> /\ StartsInBackground(FALSE)
    /\ UNCHANGED <<known, dialogs>>
Restarts ==
    /\ page # "none" /\ ~development /\ dialogs = <<>> /\ StartsInBackground(TRUE)
    /\ UNCHANGED <<known, dialogs>>

AsksWhetherToStop ==
    /\ page # "none" /\ ~development /\ dialogs = <<>>
    /\ dialogs' = <<0>>
    /\ UNCHANGED <<development, page, known, thread, posted, kept, seen, clicks, crossed, unanswered,
                   package, server, job>>

Question == dialogs[Len(dialogs)]
OtherQuestions == SubSeq(dialogs, 1, Len(dialogs) - 1)

\* _finish_stop_prompt and _finish_update_prompt, confirmed
ConfirmsStop ==
    /\ dialogs # <<>> /\ Question = 0
    /\ Begins("stop", "stopping")
    /\ dialogs' = OtherQuestions /\ UNCHANGED known
ConfirmsRestart ==
    /\ dialogs # <<>> /\ Question # 0
    /\ StartsInBackground(TRUE)
    /\ dialogs' = OtherQuestions /\ UNCHANGED known

\* The same, dismissed.
Keeps ==
    /\ dialogs # <<>>
    /\ dialogs' = OtherQuestions
    /\ IF Question = 0 THEN UNCHANGED <<page, kept, seen>>
       ELSE /\ kept' = kept \cup {Question} /\ seen' = Question
            /\ page' = "console"
    /\ UNCHANGED <<development, known, thread, posted, clicks, crossed, unanswered, package, server, job>>

---------------------------------------------------------------------------
(* Threads *)

\* systemctl: a command takes the place of the one systemd works on.
Commands(t) ==
    /\ thread[t].at = "command"
    /\ thread' = [thread EXCEPT ![t].at = "asked"]
    /\ job' = [op |-> thread[t].op, done |-> FALSE]
    /\ UNCHANGED <<development, page, known, posted, dialogs, kept, seen, clicks, crossed, unanswered,
                   package, server>>

Posts(t, callback) ==
    /\ thread' = [thread EXCEPT ![t] = Free]
    /\ posted' = Append(posted, callback)
    /\ UNCHANGED <<development, page, known, dialogs, kept, seen, clicks, crossed, unanswered,
                   package, server, job>>

Recovery == [show |-> "recovery", build |-> 0]

\* A bug: systemctl does not wait for its job.
Finished_NoBlock(op) == job.op = op

\* Its command is the last one and systemd has done it.
Finished(op) == job = [op |-> op, done |-> TRUE]

CommandReturns(t) ==
    /\ thread[t].at = "asked" /\ Finished(thread[t].op)
    /\ IF thread[t].op = "stop" THEN Posts(t, [show |-> "stopped", build |-> 0])
       ELSE /\ thread' = [thread EXCEPT ![t].at = "waiting"]
            /\ UNCHANGED <<development, page, known, posted, dialogs, kept, seen, clicks, crossed,
                           unanswered, package, server, job>>

\* The directories cannot be made, systemctl fails, another command takes its place, or 15
\* seconds pass, in which case systemd goes on.
CommandFails(t) == thread[t].at \in {"command", "asked"} /\ Posts(t, Recovery)

\* wait_until_ready; an answer need not name its build
BecomesReady(t) ==
    /\ thread[t].at = "waiting" /\ server # 0
    /\ \E build \in {server, 0} : Posts(t, [show |-> "ready", build |-> build])
TimesOut(t) == thread[t].at = "waiting" /\ Posts(t, Recovery)

\* read_management_health passes http.client.IncompleteRead on, which no thread catches.
AnswerBreaksOff(t) ==
    /\ thread[t].at = "waiting" /\ server # 0
    /\ thread' = [thread EXCEPT ![t] = Free] /\ unanswered' = TRUE
    /\ UNCHANGED <<development, page, known, posted, dialogs, kept, seen, clicks, crossed,
                   package, server, job>>

---------------------------------------------------------------------------
(* The main loop *)

\* should_prompt_for_restart; the build file may not have been readable
Outdated(build) == known # 0 /\ build \notin {0, known}

\* A callback in its turn: _show_recovery, _show_status and _handle_ready
Runs ==
    /\ posted # <<>>
    /\ posted' = Tail(posted)
    /\ LET c == Head(posted) IN
       IF c.show = "ready" /\ Outdated(c.build)
       THEN dialogs' = Append(dialogs, c.build) /\ UNCHANGED <<page, seen>>
       ELSE /\ page' = IF c.show = "ready" THEN "console" ELSE c.show
            /\ seen' = c.build /\ UNCHANGED dialogs
    /\ UNCHANGED <<development, known, thread, kept, clicks, crossed, unanswered, package, server, job>>

\* The window closes and the application with it; systemd goes on.
Closes ==
    /\ page # "none"
    /\ page' = "none" /\ thread' = [t \in Threads |-> Free] /\ posted' = <<>> /\ dialogs' = <<>>
    /\ kept' = {} /\ known' = 0 /\ seen' = 0 /\ crossed' = FALSE /\ unanswered' = FALSE
    /\ clicks' = 0
    /\ UNCHANGED <<development, package, server, job>>

---------------------------------------------------------------------------
(* Environment *)

SystemdActs ==
    /\ ~job.done /\ job' = [job EXCEPT !.done = TRUE]
    /\ server' = IF job.op = "stop" THEN 0
                 ELSE IF job.op = "start" /\ server # 0 THEN server ELSE package
    /\ UNCHANGED <<development, page, known, thread, posted, dialogs, kept, seen, clicks, crossed,
                   unanswered, package>>

Upgrades ==
    /\ package = 1 /\ package' = 2
    /\ UNCHANGED <<development, page, known, thread, posted, dialogs, kept, seen, clicks, crossed,
                   unanswered, server, job>>

ServerDies ==
    /\ server # 0 /\ server' = 0
    /\ UNCHANGED <<development, page, known, thread, posted, dialogs, kept, seen, clicks, crossed,
                   unanswered, package, job>>

DesktopNext ==
    \/ Activates \/ Retries \/ Restarts \/ AsksWhetherToStop
    \/ ConfirmsStop \/ ConfirmsRestart \/ Keeps \/ Runs \/ Closes
    \/ \E t \in Threads :
        \/ Commands(t) \/ CommandReturns(t) \/ CommandFails(t)
        \/ BecomesReady(t) \/ TimesOut(t) \/ AnswerBreaksOff(t)
    \/ SystemdActs \/ Upgrades \/ ServerDies

---------------------------------------------------------------------------
(* Properties *)

\* However clicks and results cross, a window at rest shows a result: it is not left at
\* "Starting" or "Stopping", unless a health answer broke off.
WindowsSettle ==
    AtRest => page \in {"recovery", "console", "stopped"} \/ unanswered

\* A console on a build that the window knows to be replaced was opened by the user's answer.
OldBuildsAreKept ==
    page = "console" => ~Outdated(seen) \/ seen \in kept

\* Where threads did not cross, "stopped" is true, whatever commands failed or took too long before.
StoppedIsTrue ==
    page = "stopped" /\ ~crossed /\ Busy = {} => server = 0
=============================================================================
