--------------------------- MODULE WorkerProtocol ---------------------------
(***************************************************************************)
(* What a Worker of one inference engine promises the gateway about the    *)
(* requests it accepts, whatever its runtime: an answer for each of them,  *)
(* given once; one request at a time is worked on; and none ends as        *)
(* cancelled unless somebody asked for that.  The Worker modules implement *)
(* it.                                                                     *)
(***************************************************************************)
CONSTANT Requests

VARIABLES
    phase,   \* where each request is
    asked    \* the requests somebody asked to stop: a client, a deadline, a shutdown

vars == <<phase, asked>>

Answers == {"complete", "cancelled", "failed", "refused", "left"}
Phases == {"new", "accepted", "active"} \cup Answers

Active == {r \in Requests : phase[r] = "active"}

Init ==
    /\ phase = [r \in Requests |-> "new"]
    /\ asked = {}

Accept(r) ==
    /\ phase[r] = "new"
    /\ \E p \in {"accepted", "active", "refused"} :
          /\ p = "active" => Active = {}
          /\ phase' = [phase EXCEPT ![r] = p]

Begin(r) ==
    /\ phase[r] = "accepted"
    /\ Active = {}
    /\ phase' = [phase EXCEPT ![r] = "active"]

\* A request that was never active can only be stopped or left by its client.
End(r, answer) ==
    /\ phase[r] \in {"accepted", "active"}
    /\ answer = "cancelled" => r \in asked
    /\ phase[r] = "accepted" => answer = "left"
    /\ phase' = [phase EXCEPT ![r] = answer]

Next ==
    /\ asked \subseteq asked' /\ asked' \subseteq Requests
    /\ \/ \E r \in Requests : Accept(r) \/ Begin(r) \/ \E a \in Answers : End(r, a)
       \/ UNCHANGED phase

Spec == Init /\ [][Next]_vars
=============================================================================
