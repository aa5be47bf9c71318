---------------------------- MODULE LlamaWorker ----------------------------
(***************************************************************************)
(* The Worker around a llama.cpp server (workers/llama_vulkan_worker.py):  *)
(* it starts the server as a child process, passes requests on to it, and  *)
(* replaces it when a caller cancels, when a client leaves a stream and    *)
(* when a request finds it dead.                                           *)
(*                                                                         *)
(* A client that leaves cancels the coroutine of its stream, and anyio     *)
(* delivers the cancellation again at every await: the restart that the    *)
(* coroutine then begins gets as far as its first await and no further.    *)
(***************************************************************************)
EXTENDS Naturals, FiniteSets

CONSTANTS
    Requests,    \* calls of /v1/chat/completions and /v1/completions
    Streams,     \* those that are streams
    CancelCalls, \* calls of /cancel
    MaxChildren  \* bound: the child processes started

VARIABLES
    life,      \* the Worker: "starting", "up", "closing", "stopping" or "gone"
    child,     \* the state of each child process ever started
    process,   \* self.process, 0 when it is None
    lock,      \* who holds restart_lock, 0 for nobody
    pc,        \* where each call is
    server     \* the child each request was sent to

llamaVars == <<life, child, process, lock, pc, server>>

Children == 1 .. MaxChildren
Calls == Requests \cup CancelCalls
Running == {c \in Children : child[c] \in {"loading", "serving", "terminated"}}
Restarting == {"restart", "stopping", "starting"}

LlamaTypeOK ==
    /\ life \in {"starting", "up", "closing", "stopping", "gone"}
    /\ child \in [Children -> {"none", "loading", "serving", "terminated", "exited"}]
    /\ process \in 0 .. MaxChildren
    /\ lock \in Calls \cup {0}
    /\ pc \in [Calls -> {"new", "sent", "streaming", "done"} \cup Restarting]
    /\ server \in [Requests -> 0 .. MaxChildren]

LlamaInit ==
    /\ life = "starting"
    /\ child = [c \in Children |-> "none"]
    /\ process = 0 /\ lock = 0
    /\ pc = [c \in Calls |-> "new"]
    /\ server = [r \in Requests |-> 0]

---------------------------------------------------------------------------
(* The child process *)

Loads(c) ==
    /\ child[c] = "loading"
    /\ child' = [child EXCEPT ![c] = "serving"]
    /\ UNCHANGED <<life, process, lock, pc, server>>

Exits(c) ==
    /\ c \in Running
    /\ child' = [child EXCEPT ![c] = "exited"]
    /\ UNCHANGED <<life, process, lock, pc, server>>

\* self.process is None or has a return code
Gone == process \notin Running

\* start(): the installation is validated, a port is taken and the server started.
Spawns ==
    \E c \in Children :
        /\ c = 1 + Cardinality({d \in Children : child[d] # "none"})
        /\ child' = [child EXCEPT ![c] = "loading"]
        /\ process' = c

\* stop() up to its first await, if it has one
Terminates == child' = IF Gone THEN child ELSE [child EXCEPT ![process] = "terminated"]

---------------------------------------------------------------------------
(* restart() *)

\* A bug: the lock is not taken.
BeginsRestart_NoLock(t) ==
    /\ pc[t] = "restart"
    /\ lock' = t
    /\ Terminates
    /\ pc' = [pc EXCEPT ![t] = "stopping"]
    /\ UNCHANGED <<life, process, server>>

BeginsRestart(t) ==
    /\ pc[t] = "restart" /\ lock = 0
    /\ lock' = t
    /\ Terminates
    /\ pc' = [pc EXCEPT ![t] = "stopping"]
    /\ UNCHANGED <<life, process, server>>

\* The child has exited; one that does not is killed after eight seconds.
ChildStopped(t) ==
    /\ pc[t] = "stopping" /\ Gone
    /\ process' = 0
    /\ pc' = [pc EXCEPT ![t] = "starting"]
    /\ UNCHANGED <<life, child, lock, server>>

\* A bug: a start that fails leaves the lock taken.
EndsRestart_KeepsLock(t) ==
    /\ pc[t] = "starting"
    /\ \/ Spawns /\ lock' = 0
       \/ UNCHANGED <<child, process, lock>>
    /\ pc' = [pc EXCEPT ![t] = "done"]
    /\ UNCHANGED <<life, server>>

EndsRestart(t) ==
    /\ pc[t] = "starting"
    /\ Spawns \/ UNCHANGED <<child, process>>
    /\ lock' = 0
    /\ pc' = [pc EXCEPT ![t] = "done"]
    /\ UNCHANGED <<life, server>>

---------------------------------------------------------------------------
(* Requests *)

Sends(r) ==
    /\ life = "up" /\ pc[r] = "new"
    /\ server' = [server EXCEPT ![r] = process]
    /\ pc' = [pc EXCEPT ![r] = "sent"]
    /\ UNCHANGED <<life, child, process, lock>>

\* A server that still loads answers too: that it is loading.
Replies(r) ==
    /\ \/ pc[r] = "sent" /\ r \in Streams /\ pc' = [pc EXCEPT ![r] = "streaming"]
       \/ pc[r] \in {"sent", "streaming"} /\ pc' = [pc EXCEPT ![r] = "done"]
    /\ server[r] \in Running
    /\ UNCHANGED <<life, child, process, lock, server>>

\* The connection is refused or breaks, or the server is too slow.  The child is looked
\* at before the lock is taken: two failed requests restart it twice.
Fails(r) ==
    /\ pc[r] = "sent"
    /\ pc' = [pc EXCEPT ![r] = IF Gone THEN "restart" ELSE "done"]
    /\ UNCHANGED <<life, child, process, lock, server>>

\* A stream that breaks is not looked after.
Breaks(r) ==
    /\ pc[r] = "streaming" /\ server[r] \notin Running
    /\ pc' = [pc EXCEPT ![r] = "done"]
    /\ UNCHANGED <<life, child, process, lock, server>>

\* A bug: restart() forgets the child before it waits for it.
Leaves_Forgets(r) ==
    /\ pc[r] = "streaming"
    /\ pc' = [pc EXCEPT ![r] = "done"]
    /\ IF lock # 0 THEN UNCHANGED <<child, process>>
       ELSE Terminates /\ process' = 0
    /\ UNCHANGED <<life, lock, server>>

\* The client leaves: of restart(), what comes before its first await is done.  That is
\* the wait for the lock, for the child, or for the start of a new one.
LeavesStream(r) ==
    /\ pc[r] = "streaming"
    /\ pc' = [pc EXCEPT ![r] = "done"]
    /\ IF lock # 0 THEN UNCHANGED <<child, process>>
       ELSE Terminates /\ process' = IF Gone THEN 0 ELSE process
    /\ UNCHANGED <<life, lock, server>>

\* /cancel names no request: it replaces the server of all of them.
CancelCall(c) ==
    /\ life = "up" /\ pc[c] = "new"
    /\ pc' = [pc EXCEPT ![c] = "restart"]
    /\ UNCHANGED <<life, child, process, lock, server>>

---------------------------------------------------------------------------
(* The Worker's own start and end *)

Starts ==
    /\ life = "starting"
    /\ \/ Spawns /\ life' = "up"
       \/ life' = "gone" /\ UNCHANGED <<child, process>>
    /\ UNCHANGED <<lock, pc, server>>

\* /shutdown: the server takes no more calls.
Closes ==
    /\ life = "up"
    /\ life' = "closing"
    /\ UNCHANGED <<child, process, lock, pc, server>>

\* A bug: the lifespan ends while calls are still answered.
LifespanStops_Early ==
    /\ life = "closing"
    /\ life' = "stopping"
    /\ Terminates
    /\ UNCHANGED <<process, lock, pc, server>>

\* uvicorn ends the lifespan when every call has been answered.
LifespanStops ==
    /\ life = "closing" /\ \A c \in Calls : pc[c] \in {"new", "done"}
    /\ life' = "stopping"
    /\ Terminates
    /\ UNCHANGED <<process, lock, pc, server>>

LifespanEnds ==
    /\ life = "stopping" /\ Gone
    /\ life' = "gone"
    /\ UNCHANGED <<child, process, lock, pc, server>>

LlamaRestart(t) == BeginsRestart(t) \/ ChildStopped(t) \/ EndsRestart(t)
LlamaAnswer(r) == Replies(r) \/ Fails(r) \/ Breaks(r)

LlamaNext ==
    \/ Starts \/ Closes \/ LifespanStops \/ LifespanEnds
    \/ \E c \in Children : Loads(c) \/ Exits(c)
    \/ \E r \in Requests : Sends(r) \/ LlamaAnswer(r) \/ LeavesStream(r)
    \/ \E c \in CancelCalls : CancelCall(c)
    \/ \E t \in Calls : LlamaRestart(t)

LlamaSpec == LlamaInit /\ [][LlamaNext]_llamaVars

\* The loop runs, a terminated child exits or is killed, and a request has a time limit.
LlamaFairness ==
    /\ WF_llamaVars(LifespanStops \/ LifespanEnds)
    /\ WF_llamaVars(\E c \in Children : child[c] = "terminated" /\ Exits(c))
    /\ WF_llamaVars(\E t \in Calls : LlamaRestart(t))
    /\ WF_llamaVars(\E r \in Requests : LlamaAnswer(r))

LlamaFairSpec == LlamaSpec /\ LlamaFairness

---------------------------------------------------------------------------
(* Properties *)

\* However restarts, abandoned streams and crashes meet, there is never a second server:
\* two of them do not fit into the memory of the accelerator.
OneServer == Cardinality(Running) <= 1

\* "cancellation and supervisor shutdown leave no process or port": a Worker that has
\* ended leaves no server behind, also not one an abandoned stream has only terminated.
NothingLeftBehind == life = "gone" => Running = {}

\* Every restart has ended, and so has the Worker that was told to.
RestartsEnded == (\A t \in Calls : pc[t] \notin Restarting) /\ life # "closing"
============================================================================
