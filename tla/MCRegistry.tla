----------------------------- MODULE MCRegistry -----------------------------
(* The registry in four parts, each with its own choice of what happens: profiles are     *)
(* published while one request at a time is in progress; two requests are in progress and *)
(* nothing is published; a request and the polls of its job; a request and a discovery.   *)
EXTENDS Registry, TLC

CONSTANTS w1, w2, n1, n2, p1, c1, c2, c3, v1, v2, v3
VARIABLE part

MCWorkerSet == {w1, w2}
MCNames == {n1, n2}
MCBindings == {{}, {w1}, {w2}}
MCSymmetry == Permutations({w1, w2}) \cup Permutations({n1, n2})

\* v3 may be given the port of v1.
MCRouteWorkers == {v1, v2, v3}
MCPortOf == (v1 :> 1) @@ (v2 :> 2) @@ (v3 :> 1)
MCRoutes == {<<v1, v2>>, <<v2>>, <<v3>>}
MCInitialRows ==
    {(v1 :> x) @@ (v2 :> y) @@ (v3 :> "missing") : x, y \in {"live", "invalid"}}

Published(w) == rows[w] = "live"

Within ==
    /\ part = "profiles" => call[c1] = Idle /\ call[c2] = Idle
    /\ part = "requests" => call[c3] = Idle /\ draft[p1] = {} /\ live[p1] = {} /\ revs[p1] = {}
    /\ part = "polls" => route # <<v2>> /\ discovery["d"].pc = "new"
    /\ part = "discovery" => route # <<v3>> /\ rows[v3] = "missing" /\ poll["c"].pc = "idle"

MCInit ==
    /\ part \in {"profiles", "requests", "polls", "discovery"}
    /\ RegistryInit /\ Within
    /\ part # "discovery" => Published(v1) /\ Published(v2)
    /\ part \in {"profiles", "requests"} => route = <<v2>>

MCNext ==
    /\ UNCHANGED part
    /\ \/ part \in {"profiles", "requests"} /\ DefinitionsNext /\ UNCHANGED requests
       \/ part \in {"polls", "discovery"} /\ R!RoutesNext /\ UNCHANGED definitionVars
    /\ Within'

MCSpec == MCInit /\ [][MCNext]_<<part, definitionVars, requests>>
=============================================================================
